--------------------------- MODULE ConcealmentProofs --------------------------
(***************************************************************************)
(* Proofs about ConcealmentPath and Concealment, for every set of          *)
(* contents, every profile and format, and every UsizeMax beyond the fade. *)
(***************************************************************************)
EXTENDS Concealment, TLAPS

(* The bounds of the ramp and the fade, and the saturating counter.        *)
LEMMA SaturatingIncIsBounded ==
    ASSUME NEW n \in 0..UsizeMax
    PROVE  /\ SaturatingInc(n) \in 0..UsizeMax
           /\ SaturatingInc(n) >= n
           /\ SaturatingInc(n) > 0
           /\ n < UsizeMax => SaturatingInc(n) = n + 1
  BY UsizeAssumption DEF SaturatingInc, LeastOf

(* Every step of a path keeps its type: the ramp is never longer than      *)
(* FadeInFrames, whatever the number of losses.                            *)
LEMMA ConcealedPathType ==
    ASSUME NEW p \in Path, NEW mute \in BOOLEAN
    PROVE  /\ ConcealingPath(p, mute) \in Path
           /\ ConcealedPath(p, mute) \in Path
           /\ InterpolatedPath(p) \in Path
  <1>1. LossState(p.losses, mute) \in States
    BY DEF LossState, States
  <1>2. SaturatingInc(p.losses) \in 0..UsizeMax
    BY SaturatingIncIsBounded DEF Path
  <1>3. 0 \in 0..UsizeMax /\ "Single" \in States
    BY UsizeAssumption DEF States
  <1> QED
    BY <1>1, <1>2, <1>3
    DEF Path, ConcealingPath, ConcealedPath, InterpolatedPath

LEMMA RecoveryFadeIsBounded ==
    ASSUME NEW p \in Path
    PROVE  RecoveryFade(p) \in 0..FadeInFrames
  BY UsizeAssumption DEF Path, RecoveryFade, LeastOf, FadeInFrames

LEMMA FadedPathType ==
    ASSUME NEW p \in Path
    PROVE  FadedPath(p) \in Path
  <1>1. RecoveryFade(p) # 0 => RecoveryFade(p) - 1 \in 0..FadeInFrames
    BY RecoveryFadeIsBounded DEF FadeInFrames
  <1>2. 0 \in 0..FadeInFrames /\ "FadeIn" \in States /\ "Ok" \in States
    BY DEF FadeInFrames, States
  <1> QED
    BY <1>1, <1>2 DEF Path, FadedPath

LEMMA DecodedPathType ==
    ASSUME NEW p \in Path, NEW content \in Contents, NEW ramps \in BOOLEAN
    PROVE  DecodedPath(p, content, ramps) \in Path
  <1>1. (IF ramps THEN FadedPath(p) ELSE p) \in Path
    BY FadedPathType
  <1>2. 0 \in 0..UsizeMax
    BY UsizeAssumption
  <1> QED
    BY <1>1, <1>2 DEF Path, DecodedPath

LEMMA LevelType ==
    ASSUME NEW p \in Path, NEW flag \in BOOLEAN
    PROVE  /\ ConcealedLevel(p, flag) \in 0..Silent
           /\ DecodedLevel(p, flag) \in 0..FadeInFrames
  <1>1. ConcealedLevel(p, flag) \in 0..Silent
    BY UsizeAssumption
    DEF Path, ConcealedLevel, LossLevel, FadeOutLosses, Silent
  <1>2. DecodedLevel(p, flag) \in 0..FadeInFrames
    BY RecoveryFadeIsBounded DEF DecodedLevel, FadeInFrames
  <1> QED
    BY <1>1, <1>2

LEMMA FreshPathType == FreshPath \in Path
  BY UsizeAssumption DEF FreshPath, Path, States, FadeInFrames

-----------------------------------------------------------------------------
(* What else is true of every state: how the history is bound to the path. *)

(* The path has counted at least the burst the caller has heard, as far as *)
(* the fade reaches.                                                       *)
BurstIsCounted == LeastOf(burst, Silent) <= path.losses

(* A frame of the burst was heard at a level the count has passed.         *)
HeardIsBehind ==
    burst # 0 => heard.from = Silent \/ heard.from <= path.losses

(* After a decoded frame the path owes the ramp from where that frame      *)
(* ended; after a concealed one it has a loss to recover from.             *)
RampIsOwed ==
    /\ call = "decode" =>
          path.losses = 0 /\ heard.to = (IF Ramps THEN path.fade ELSE 0)
    /\ call = "conceal" => path.losses # 0

IInv == TypeOK /\ PathCoherent /\ BurstIsCounted /\ HeardIsBehind /\ RampIsOwed

LEMMA InitHolds == Init => IInv
  <1> SUFFICES ASSUME Init PROVE IInv
    OBVIOUS
  <1>1. TypeOK
    BY FreshPathType, UsizeIsLarge
    DEF Init, TypeOK, Silence, Frame, Silent, Calls, BurstBound, FadeOutLosses
  <1>2. PathCoherent /\ BurstIsCounted /\ HeardIsBehind /\ RampIsOwed
    BY DEF Init, FreshPath, PathCoherent, BurstIsCounted, HeardIsBehind,
           RampIsOwed, LeastOf, Silent, HasReference
  <1> QED
    BY <1>1, <1>2 DEF IInv

(* What a step on a good access unit does to the path, in numbers.         *)
LEMMA DecodedPathFacts ==
    ASSUME NEW p \in Path, NEW content \in Contents, NEW ramps \in BOOLEAN
    PROVE  /\ DecodedPath(p, content, ramps).ref = content
           /\ DecodedPath(p, content, ramps).losses = 0
           /\ DecodedPath(p, content, ramps).state =
                 (IF ramps THEN FadedPath(p).state ELSE p.state)
           /\ DecodedPath(p, content, ramps).fade =
                 (IF ramps THEN FadedPath(p).fade ELSE p.fade)
           /\ FadedPath(p).ref = p.ref
           /\ FadedPath(p).losses = p.losses
           /\ FadedPath(p).fade =
                 (IF RecoveryFade(p) = 0 THEN 0 ELSE RecoveryFade(p) - 1)
           /\ FadedPath(p).state =
                 (IF RecoveryFade(p) = 0 THEN "Ok" ELSE "FadeIn")
           /\ FadedPath(p) \in Path
  <1>1. FadedPath(p) \in Path
    BY FadedPathType
  <1>2. /\ FadedPath(p).ref = p.ref
        /\ FadedPath(p).losses = p.losses
        /\ FadedPath(p).fade =
              (IF RecoveryFade(p) = 0 THEN 0 ELSE RecoveryFade(p) - 1)
        /\ FadedPath(p).state =
              (IF RecoveryFade(p) = 0 THEN "Ok" ELSE "FadeIn")
    BY DEF FadedPath, Path
  <1>3. CASE ramps
    BY <1>1, <1>2, <1>3 DEF DecodedPath, Path
  <1>4. CASE ~ramps
    BY <1>1, <1>2, <1>4 DEF DecodedPath, Path
  <1> QED
    BY <1>3, <1>4

(* What concealing a frame does to the path. *)
LEMMA ConcealedPathFacts ==
    ASSUME NEW p \in Path, NEW mute \in BOOLEAN
    PROVE  /\ ConcealingPath(p, mute) =
                 [p EXCEPT !.state = LossState(p.losses, mute)]
           /\ ConcealedPath(p, mute).ref = p.ref
           /\ ConcealedPath(p, mute).fade = p.fade
           /\ ConcealedPath(p, mute).state = LossState(p.losses, mute)
           /\ ConcealedPath(p, mute).losses = SaturatingInc(p.losses)
  BY DEF ConcealingPath, ConcealedPath, Path

LEMMA DecodedCase ==
    ASSUME IInv, NEW content \in Contents,
           path' = DecodedPath(path, content, Ramps)
    PROVE  /\ path' \in Path
           /\ path'.ref = content
           /\ path'.losses = 0
           /\ path'.state = "Ok" /\ Ramps => path'.fade = 0
           /\ DecodedLevel(path, Ramps) \in 0..FadeInFrames
           /\ (IF Ramps THEN path'.fade ELSE 0) =
                 (IF DecodedLevel(path, Ramps) = 0 THEN 0
                  ELSE DecodedLevel(path, Ramps) - 1)
  <1>1. path \in Path /\ Ramps \in BOOLEAN
    BY DEF IInv, TypeOK, Ramps
  <1>2. path' \in Path
    BY <1>1, DecodedPathType
  <1>3. DecodedLevel(path, Ramps) \in 0..FadeInFrames
    BY <1>1, LevelType
  <1>4. /\ path'.ref = content
        /\ path'.losses = 0
        /\ path'.state = (IF Ramps THEN FadedPath(path).state ELSE path.state)
        /\ path'.fade = (IF Ramps THEN FadedPath(path).fade ELSE path.fade)
    BY <1>1, DecodedPathFacts
  <1>5. /\ FadedPath(path).fade =
             (IF RecoveryFade(path) = 0 THEN 0 ELSE RecoveryFade(path) - 1)
        /\ FadedPath(path).state =
             (IF RecoveryFade(path) = 0 THEN "Ok" ELSE "FadeIn")
    BY <1>1, DecodedPathFacts
  <1> QED
    BY <1>2, <1>3, <1>4, <1>5 DEF DecodedLevel

(* One step keeps the invariant. *)
LEMMA NextHolds == IInv /\ [Next]_vars => IInv'
  <1> SUFFICES ASSUME IInv, [Next]_vars PROVE IInv'
    OBVIOUS
  <1> USE DEF IInv
  <1>a. path \in Path /\ heard \in Frame /\ burst \in 0..BurstBound
    BY DEF TypeOK
  <1>b. /\ path.losses \in 0..UsizeMax
        /\ path.ref \in Contents \cup {NoContent}
        /\ NoContent \notin Contents
    BY <1>a, ContentAssumption DEF Path
  <1>1. ASSUME NEW content \in Contents, Decode(content) PROVE IInv'
    <2>1. path' = DecodedPath(path, content, Ramps)
      BY <1>1 DEF Decode
    <2> DEFINE level == DecodedLevel(path, Ramps)
    <2>2. /\ heard' = [kind |-> "decoded", content |-> content, from |-> level,
                       to |-> IF level = 0 THEN 0 ELSE level - 1]
          /\ call' = "decode"
          /\ burst' = 0
      BY <1>1 DEF Decode
    <2>3. level \in 0..FadeInFrames
      BY <2>1, DecodedCase
    <2>4. TypeOK'
      <3>1. path' \in Path
        BY <2>1, DecodedCase
      <3>2. heard' \in Frame
        BY <2>2, <2>3 DEF Frame, FadeInFrames, Silent
      <3> QED
        BY <3>1, <3>2, <2>2 DEF TypeOK, Calls, BurstBound, FadeOutLosses
    <2>5. PathCoherent'
      BY <2>1, <2>2, <1>b, DecodedCase DEF PathCoherent, HasReference
    <2>6. BurstIsCounted' /\ HeardIsBehind'
      BY <2>1, <2>2, DecodedCase
      DEF BurstIsCounted, HeardIsBehind, LeastOf, Silent
    <2>7. RampIsOwed'
      BY <2>1, <2>2, DecodedCase DEF RampIsOwed
    <2> QED
      BY <2>4, <2>5, <2>6, <2>7
  <1>2. ASSUME NEW content \in Contents, DecodeFailsLate(content) PROVE IInv'
    <2>1. /\ path' = DecodedPath(path, content, Ramps)
          /\ heard' = heard
          /\ call' = "decode_error"
          /\ burst' = 0
      BY <1>2 DEF DecodeFailsLate
    <2>2. TypeOK'
      BY <2>1, <1>a, DecodedCase
      DEF TypeOK, Calls, BurstBound, FadeOutLosses
    <2>3. PathCoherent'
      BY <2>1, <1>b, DecodedCase DEF PathCoherent, HasReference
    <2>4. BurstIsCounted' /\ HeardIsBehind' /\ RampIsOwed'
      BY <2>1, DecodedCase
      DEF BurstIsCounted, HeardIsBehind, RampIsOwed, LeastOf, Silent
    <2> QED
      BY <2>2, <2>3, <2>4
  <1>3. ASSUME DecodeFailsInDrc PROVE IInv'
    <2>1. /\ path' = FadedPath(path)
          /\ call' = "decode_error"
          /\ heard' = heard
          /\ burst' = burst
      BY <1>3 DEF DecodeFailsInDrc
    <2>2. /\ path' \in Path
          /\ path'.ref = path.ref
          /\ path'.losses = path.losses
          /\ path'.fade =
               (IF RecoveryFade(path) = 0 THEN 0 ELSE RecoveryFade(path) - 1)
          /\ path'.state = (IF RecoveryFade(path) = 0 THEN "Ok" ELSE "FadeIn")
      BY <2>1, <1>a, FadedPathType DEF FadedPath, Path
    <2>3. RecoveryFade(path) # 0 => HasReference(path)
      BY <1>a DEF PathCoherent, RecoveryFade
    <2>4. TypeOK'
      BY <2>1, <2>2, <1>a DEF TypeOK, Calls
    <2>5. PathCoherent'
      BY <2>1, <2>2, <2>3 DEF PathCoherent, HasReference
    <2>6. BurstIsCounted' /\ HeardIsBehind' /\ RampIsOwed'
      BY <2>1, <2>2 DEF BurstIsCounted, HeardIsBehind, RampIsOwed
    <2> QED
      BY <2>4, <2>5, <2>6
  <1>4. ASSUME NEW mute \in BOOLEAN, Conceal(mute) PROVE IInv'
    <2>1. /\ HasReference(path)
          /\ path' = ConcealedPath(path, mute)
          /\ heard' = [kind |-> "concealed", content |-> path.ref,
                       from |-> ConcealedLevel(path, mute),
                       to |-> ConcealedLevel(path, mute)]
          /\ call' = "conceal"
          /\ burst' = LeastOf(burst + 1, BurstBound)
      BY <1>4 DEF Conceal
    <2>2. /\ path' \in Path
          /\ path'.ref = path.ref
          /\ path'.fade = path.fade
          /\ path'.state = LossState(path.losses, mute)
          /\ path'.losses = SaturatingInc(path.losses)
      BY <2>1, <1>a, ConcealedPathType, ConcealedPathFacts
    <2>3. /\ path'.losses >= path.losses
          /\ path'.losses > 0
          /\ path'.losses \in 0..UsizeMax
          /\ path.losses < UsizeMax => path'.losses = path.losses + 1
      BY <2>2, <1>b, SaturatingIncIsBounded
    <2>4. ConcealedLevel(path, mute) \in 0..Silent
      BY <1>a, LevelType
    <2>5. TypeOK'
      BY <2>1, <2>2, <2>4, <1>a
      DEF TypeOK, Frame, Calls, LeastOf, BurstBound, FadeOutLosses, Path
    <2>6. PathCoherent'
      <3>1. path'.state # "Ok"
        BY <2>2 DEF LossState
      <3>2. path'.state = "FadeOut" => path.losses \in 1..FadeOutLosses
        BY <2>2, <1>b, UsizeAssumption DEF LossState, FadeOutLosses
      <3>3. path'.state = "FadeOut" => path'.losses \in 2..FadeOutLosses + 1
        BY <3>2, <2>3, UsizeIsLarge, UsizeAssumption DEF FadeOutLosses
      <3> QED
        BY <3>1, <3>3, <2>1, <2>2 DEF PathCoherent, HasReference
    <2>7. BurstIsCounted'
      BY <2>1, <2>3, <1>a, <1>b, UsizeIsLarge, UsizeAssumption
      DEF BurstIsCounted, LeastOf, BurstBound, FadeOutLosses, Silent
    <2>8. HeardIsBehind'
      BY <2>1, <2>3, <1>b, UsizeAssumption
      DEF HeardIsBehind, ConcealedLevel, LossLevel, FadeOutLosses, Silent
    <2>9. RampIsOwed'
      BY <2>1, <2>3 DEF RampIsOwed
    <2> QED
      BY <2>5, <2>6, <2>7, <2>8, <2>9
  <1>5. ASSUME NEW mute \in BOOLEAN, ConcealFailsInDrc(mute) PROVE IInv'
    <2>1. /\ HasReference(path)
          /\ path' = ConcealingPath(path, mute)
          /\ heard' = heard
          /\ call' = "conceal_error"
          /\ burst' = burst
      BY <1>5 DEF ConcealFailsInDrc
    <2>2. /\ path' \in Path
          /\ path'.ref = path.ref
          /\ path'.fade = path.fade
          /\ path'.losses = path.losses
          /\ path'.state # "Ok"
      BY <2>1, <1>a, ConcealedPathType DEF ConcealingPath, Path, LossState
    <2>3. TypeOK'
      BY <2>1, <2>2, <1>a DEF TypeOK, Calls
    <2>4. PathCoherent'
      BY <2>1, <2>2 DEF PathCoherent, HasReference
    <2>5. BurstIsCounted' /\ HeardIsBehind' /\ RampIsOwed'
      BY <2>1, <2>2 DEF BurstIsCounted, HeardIsBehind, RampIsOwed
    <2> QED
      BY <2>3, <2>4, <2>5
  <1>6. ASSUME Interpolate PROVE IInv'
    <2>1. /\ HasReference(path)
          /\ path' = InterpolatedPath(path)
          /\ heard' = [kind |-> "interpolated", content |-> path.ref,
                       from |-> 0, to |-> 0]
          /\ call' = "interpolate"
          /\ burst' = 0
      BY <1>6 DEF Interpolate
    <2>2. /\ path' \in Path
          /\ path'.ref = path.ref
          /\ path'.losses = 0
          /\ path'.fade = path.fade
          /\ path'.state = "Single"
      BY <2>1, <1>a, ConcealedPathType DEF InterpolatedPath, Path
    <2>3. TypeOK'
      BY <2>1, <2>2, <1>b
      DEF TypeOK, Frame, Calls, Silent, BurstBound, FadeOutLosses
    <2>4. PathCoherent'
      BY <2>1, <2>2 DEF PathCoherent, HasReference
    <2>5. BurstIsCounted' /\ HeardIsBehind' /\ RampIsOwed'
      BY <2>1, <2>2
      DEF BurstIsCounted, HeardIsBehind, RampIsOwed, LeastOf, Silent
    <2> QED
      BY <2>3, <2>4, <2>5
  <1>7. ASSUME InterpolateFailsLate PROVE IInv'
    <2>1. /\ HasReference(path)
          /\ path' = InterpolatedPath(path)
          /\ heard' = heard
          /\ call' = "interpolate_error"
          /\ burst' = 0
      BY <1>7 DEF InterpolateFailsLate
    <2>2. /\ path' \in Path
          /\ path'.ref = path.ref
          /\ path'.losses = 0
          /\ path'.fade = path.fade
          /\ path'.state = "Single"
      BY <2>1, <1>a, ConcealedPathType DEF InterpolatedPath, Path
    <2>3. TypeOK'
      BY <2>1, <2>2, <1>a DEF TypeOK, Calls, BurstBound, FadeOutLosses
    <2>4. PathCoherent'
      BY <2>1, <2>2 DEF PathCoherent, HasReference
    <2>5. BurstIsCounted' /\ HeardIsBehind' /\ RampIsOwed'
      BY <2>1, <2>2
      DEF BurstIsCounted, HeardIsBehind, RampIsOwed, LeastOf, Silent
    <2> QED
      BY <2>3, <2>4, <2>5
  <1>8. ASSUME ClearHistory PROVE IInv'
    <2>1. path' = FreshPath /\ heard' = Silence /\ call' = "clear" /\ burst' = 0
      BY <1>8 DEF ClearHistory
    <2>2. TypeOK'
      BY <2>1, FreshPathType
      DEF TypeOK, Silence, Frame, Silent, Calls, BurstBound, FadeOutLosses
    <2>3. PathCoherent' /\ BurstIsCounted' /\ HeardIsBehind' /\ RampIsOwed'
      BY <2>1 DEF FreshPath, PathCoherent, BurstIsCounted, HeardIsBehind,
                  RampIsOwed, LeastOf, Silent, HasReference
    <2> QED
      BY <2>2, <2>3
  <1>9. CASE UNCHANGED vars
    BY <1>9 DEF vars, TypeOK, PathCoherent, BurstIsCounted, HeardIsBehind,
                RampIsOwed
  <1> QED
    BY <1>1, <1>2, <1>3, <1>4, <1>5, <1>6, <1>7, <1>8, <1>9 DEF Next

(* The invariant holds of every reachable state. *)
THEOREM Invariance == Spec => []IInv
  <1> QED
    BY InitHolds, NextHolds, PTL DEF Spec

-----------------------------------------------------------------------------
(* What it is for *)

(* Type correctness: no sequence of calls drives the loss counter past its *)
(* width or the ramp past five frames.                                     *)
THEOREM TypeCorrect == Spec => []TypeOK
  <1>1. IInv => TypeOK
    BY DEF IInv
  <1> QED
    BY <1>1, Invariance, PTL

(* A path that counts losses or owes a ramp has spectra to conceal from,   *)
(* and its ConcealmentState agrees with its counters.                      *)
THEOREM Coherence == Spec => []PathCoherent
  <1>1. IInv => PathCoherent
    BY DEF IInv
  <1> QED
    BY <1>1, Invariance, PTL

(* A burst of losses longer than the fade is silent: the reference is      *)
(* never repeated forever.  It is counted from the last call that starts   *)
(* the loss count anew, a failed interpolation among them, and goes on     *)
(* over a concealment or a decoding that fails in the DRC.                 *)
THEOREM LongBursts == Spec => []LongBurstIsSilent
  <1> DEFINE Strong == burst > FadeOutLosses + 1 => heard.from = Silent
  <1>1. IInv /\ Strong /\ [Next]_vars => Strong'
    <2> SUFFICES ASSUME IInv, Strong, [Next]_vars PROVE Strong'
      OBVIOUS
    <2>a. path \in Path /\ burst \in 0..BurstBound /\ path.losses \in 0..UsizeMax
      BY DEF IInv, TypeOK, Path
    <2>1. ASSUME NEW mute \in BOOLEAN, Conceal(mute) PROVE Strong'
      <3>1. heard'.from = ConcealedLevel(path, mute)
        BY <2>1 DEF Conceal
      <3>2. burst' = LeastOf(burst + 1, BurstBound)
        BY <2>1 DEF Conceal
      <3>3. burst' > FadeOutLosses + 1 => path.losses > FadeOutLosses
        BY <3>2, <2>a, UsizeAssumption
        DEF IInv, BurstIsCounted, LeastOf, BurstBound, FadeOutLosses, Silent
      <3>4. path.losses > FadeOutLosses => ConcealedLevel(path, mute) = Silent
        BY <2>a, UsizeAssumption DEF ConcealedLevel, LossLevel, FadeOutLosses
      <3> QED
        BY <3>1, <3>3, <3>4
    <2>2. CASE \E content \in Contents :
                  Decode(content) \/ DecodeFailsLate(content)
      BY <2>2 DEF Decode, DecodeFailsLate, FadeOutLosses
    <2>3. CASE DecodeFailsInDrc \/ (\E mute \in BOOLEAN : ConcealFailsInDrc(mute))
      BY <2>3 DEF DecodeFailsInDrc, ConcealFailsInDrc
    <2>4. CASE Interpolate \/ InterpolateFailsLate \/ ClearHistory
      BY <2>4
      DEF Interpolate, InterpolateFailsLate, ClearHistory, FadeOutLosses
    <2>5. CASE UNCHANGED vars
      BY <2>5 DEF vars
    <2> QED
      BY <2>1, <2>2, <2>3, <2>4, <2>5 DEF Next
  <1>2. Init => Strong
    BY DEF Init, FadeOutLosses
  <1>3. Strong <=> LongBurstIsSilent
    BY DEF LongBurstIsSilent
  <1> HIDE DEF Strong
  <1> QED
    BY <1>1, <1>2, <1>3, Invariance, PTL DEF Spec

(* Within a burst, counted the same way, the level never rises. *)
THEOREM BurstsFade == Spec => BurstNeverRises
  <1>1. IInv /\ [Next]_vars =>
          [ burst # 0 /\ burst' # 0 /\ heard.from # Silent
            => heard'.from >= heard.from ]_vars
    <2> SUFFICES ASSUME IInv, Next, burst # 0, burst' # 0, heard.from # Silent
                 PROVE  heard'.from >= heard.from
      OBVIOUS
    <2>a. /\ path \in Path /\ heard \in Frame
          /\ path.losses \in 0..UsizeMax
          /\ heard.from \in 0..Silent
          /\ heard.from <= path.losses
      BY DEF IInv, TypeOK, Path, Frame, HeardIsBehind
    <2>1. ASSUME NEW mute \in BOOLEAN, Conceal(mute)
          PROVE  heard'.from >= heard.from
      <3>1. heard'.from = ConcealedLevel(path, mute)
        BY <2>1 DEF Conceal
      <3> QED
        BY <3>1, <2>a, UsizeAssumption
        DEF ConcealedLevel, LossLevel, FadeOutLosses, Silent
    <2>2. CASE DecodeFailsInDrc \/ (\E mute \in BOOLEAN : ConcealFailsInDrc(mute))
      BY <2>2, <2>a DEF DecodeFailsInDrc, ConcealFailsInDrc, Silent
    <2> QED
      BY <2>1, <2>2
      DEF Next, Decode, DecodeFailsLate, Interpolate, InterpolateFailsLate,
          ClearHistory
  <1> QED
    BY <1>1, Invariance, PTL DEF Spec, BurstNeverRises

(* The recovery ramp has no jump between two decoded frames. *)
THEOREM RampsAreContinuous == Spec => RampIsContinuous
  <1>1. IInv /\ [Next]_vars =>
          [ call = "decode" /\ call' = "decode"
            => heard'.from = heard.to ]_vars
    <2> SUFFICES ASSUME IInv, Next, call = "decode", call' = "decode"
                 PROVE  heard'.from = heard.to
      OBVIOUS
    <2>1. PICK content \in Contents : Decode(content)
      BY DEF Next, DecodeFailsLate, DecodeFailsInDrc, Conceal,
             ConcealFailsInDrc, Interpolate, InterpolateFailsLate, ClearHistory
    <2>2. heard'.from = DecodedLevel(path, Ramps)
      BY <2>1 DEF Decode
    <2>3. path.losses = 0 /\ heard.to = (IF Ramps THEN path.fade ELSE 0)
      BY DEF IInv, RampIsOwed
    <2> QED
      BY <2>2, <2>3 DEF DecodedLevel, RecoveryFade
  <1> QED
    BY <1>1, Invariance, PTL DEF Spec, RampIsContinuous

(* Where the decoder has a ramp at all - everywhere but in the fixed-point *)
(* path of the error-resilient profiles - the first frame decoded after a  *)
(* concealed one is faded in.                                              *)
THEOREM RecoveryFades ==
    ASSUME Ramps
    PROVE  Spec => RecoveryIsFaded
  <1>1. IInv /\ [Next]_vars =>
          [ call = "conceal" /\ call' = "decode" => heard'.from # 0 ]_vars
    <2> SUFFICES ASSUME IInv, Next, call = "conceal", call' = "decode"
                 PROVE  heard'.from # 0
      OBVIOUS
    <2>1. PICK content \in Contents : Decode(content)
      BY DEF Next, DecodeFailsLate, DecodeFailsInDrc, Conceal,
             ConcealFailsInDrc, Interpolate, InterpolateFailsLate, ClearHistory
    <2>2. heard'.from = DecodedLevel(path, Ramps)
      BY <2>1 DEF Decode
    <2>3. path.losses # 0 /\ path.losses \in 0..UsizeMax
      BY DEF IInv, RampIsOwed, TypeOK, Path
    <2> QED
      BY <2>2, <2>3, UsizeAssumption
      DEF DecodedLevel, RecoveryFade, LeastOf, FadeInFrames
  <1> QED
    BY <1>1, Invariance, PTL DEF Spec, RecoveryIsFaded
=============================================================================
