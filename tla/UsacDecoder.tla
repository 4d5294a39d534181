----------------------------- MODULE UsacDecoder -----------------------------
(***************************************************************************)
(* The USAC branch of AacLcDecoder: access units with their extensions,    *)
(* the audio preroll that is decoded inside of the access unit carrying    *)
(* it, the change of configuration and the crossfade it may ask for, and   *)
(* what the FD and LPD decoders of a channel keep between frames.  What is *)
(* kept is reduced to the age of the oldest access unit that went into it: *)
(* since the last access point, before it, or before the decoder was       *)
(* rebuilt.  Frames are numbered as they are played.  SBR and MPEG         *)
(* Surround are left out.                                                  *)
(***************************************************************************)
EXTENDS Integers, FiniteSetsExt, SequencesExt

CONSTANTS
    PreRollUnits,   \* numbers of access units of a preroll
    Gains,          \* whether access units carry DRC gains
    FrameBound,     \* frames played in a run
    NestingBound    \* access units one inside the other

ASSUME PreRollAssumption == PreRollUnits \subseteq 0..3

VARIABLES
    decoder,
    calls,      \* access units being decoded, the innermost last
    played,     \* frames the application got
    tail,       \* the one to fade from, 0 after the history was cleared
    asked       \* whether a crossfade was asked for since the last one

vars == <<decoder, calls, played, tail, asked>>

Nothing == -1
Young == 0          \* since the last access point
Middle == 1         \* before it
Old == 2            \* before the decoder was rebuilt

Older(age, least) == IF age = Nothing THEN Nothing ELSE Max({age, least})

Configs == {"mono", "stereo"}
Channels(config) == IF config = "mono" THEN {1} ELSE {1, 2}

NoPreRoll == [config |-> "none", crossfade |-> FALSE, units |-> 0]
PreRolls ==
    [config : Configs \cup {"kept"}, crossfade : BOOLEAN, units : PreRollUnits]

FreshDecoder(config) ==
    [config |-> config,
     channel |-> [c \in Channels(config) |->
                    [context |-> Nothing, overlap |-> Nothing, lpd |-> Nothing]],
     downmix |-> Nothing,   \* previous_downmix
     strayed |-> {},        \* history: channels whose overlap is of a frame
                            \* that strayed
     gain |-> Nothing,      \* drc_gain
     pending |-> NoPreRoll,
     depth |-> 0,           \* usac_preroll_depth
     source |-> Nothing,    \* usac_crossfade_source: the tail of a frame
     last |-> 0]            \* usac_last_output, 0 if none

(* Everything kept becomes older. *)
Aged(d, age) ==
    [d EXCEPT !.channel = [c \in DOMAIN @ |->
                             [part \in DOMAIN @[c] |-> Older(@[c][part], age)]],
              !.downmix = Older(@, age),
              !.gain = Older(@, age)]

Call(independent) ==
    [independent |-> independent, stage |-> "leading",
     units |-> 0, opened |-> FALSE,
     heard |-> Nothing, coded |-> Nothing,
     stray |-> FALSE]       \* history: whether it is heard in the frame

Init ==
    /\ \E config \in Configs : decoder = FreshDecoder(config)
    /\ calls = <<>>
    /\ played = 0
    /\ tail = 0
    /\ asked = FALSE

Top == Last(calls)
At(stage) == calls # <<>> /\ Top.stage = stage
To(stage) == calls' = [calls EXCEPT ![Len(calls)].stage = stage]

-----------------------------------------------------------------------------
(* One access unit *)

Decode ==
    /\ calls = <<>>
    /\ played < FrameBound
    /\ \E independent \in BOOLEAN : calls' = <<Call(independent)>>
    /\ UNCHANGED <<decoder, played, tail, asked>>

(* The extension elements on one side of the core. What was read before an *)
(* error stays.                                                            *)
Extensions(here, next) ==
    /\ At(here)
    /\ \E preroll \in PreRolls \cup {NoPreRoll}, gain \in Gains, ok \in BOOLEAN :
          /\ Len(calls) = NestingBound => preroll.units = 0
          /\ preroll # NoPreRoll /\ decoder.pending # NoPreRoll => ~ok
          /\ decoder' =
               [decoder EXCEPT
                  !.pending = IF @ = NoPreRoll THEN preroll ELSE @,
                  !.gain = IF gain THEN Young ELSE @]
          /\ To(IF ok THEN next ELSE "failed")
    /\ UNCHANGED <<played, tail, asked>>

Leading == Extensions("leading", "preroll")
Trailing == Extensions("trailing", "finish")

(* Mutant of Replaced: *self = replacement, and the source with it. *)
ReplacedWhole(d, config) ==
    [FreshDecoder(config) EXCEPT !.last = d.last, !.depth = d.depth]

(* The decoder of a preroll's configuration in the place of the old one. *)
Replaced(d, config) ==
    [FreshDecoder(config) EXCEPT !.source = d.source, !.last = d.last,
                                 !.depth = d.depth]

NoPending ==
    /\ At("preroll")
    /\ decoder.pending = NoPreRoll
    /\ To("core")
    /\ UNCHANGED <<decoder, played, tail, asked>>

Taken ==
    [decoder EXCEPT
       !.pending = NoPreRoll,
       !.source = IF decoder.pending.crossfade THEN decoder.last ELSE @]

(* The preroll is opened in the decoder it leaves, its own or a new one.   *)
OpenPreRoll ==
    LET preroll == decoder.pending
        inside  == IF preroll.config = "kept" THEN Taken
                   ELSE Replaced(Aged(Taken, Old), preroll.config)
    IN /\ At("preroll")
       /\ preroll # NoPreRoll
       /\ decoder' = [inside EXCEPT !.depth = @ + 1]
       /\ calls' = [calls EXCEPT ![Len(calls)].stage = "nested",
                                 ![Len(calls)].units = preroll.units,
                                 ![Len(calls)].opened = TRUE]
       /\ asked' = (asked \/ preroll.crossfade)
       /\ UNCHANGED <<played, tail>>

(* Its configuration is refused. *)
RefuseConfig ==
    /\ At("preroll")
    /\ decoder.pending.config \in Configs
    /\ decoder' = Taken
    /\ asked' = (asked \/ decoder.pending.crossfade)
    /\ To("failed")
    /\ UNCHANGED <<played, tail>>

(* The first access unit of a preroll is independent. *)
Nested ==
    /\ At("nested")
    /\ Top.units > 0
    /\ \E independent \in BOOLEAN :
          /\ Top.opened => independent
          /\ calls' = Append([calls EXCEPT ![Len(calls)].units = @ - 1,
                                           ![Len(calls)].opened = FALSE],
                             Call(independent))
    /\ UNCHANGED <<decoder, played, tail, asked>>

ClosePreRoll ==
    /\ At("nested")
    /\ Top.units = 0
    /\ decoder' = [decoder EXCEPT !.depth = @ - 1]
    /\ To("core")
    /\ UNCHANGED <<played, tail, asked>>

-----------------------------------------------------------------------------
(* The core of an access unit *)

Core == DOMAIN decoder.channel

(* What the access unit says: the mode of each channel, the channels with  *)
(* arith_reset_flag, how the channels of a pair are coded, and the channel *)
(* at which its bits turn out bad, before or behind the spectrum.          *)
Syntax ==
    {s \in [mode : [Core -> {"fd", "lpd"}], reset : SUBSET Core,
            pair : {"apart", "mid", "predicted", "previous"},
            bad : Core \cup {3}, late : BOOLEAN] :
        /\ s.pair # "apart" => Core = {1, 2} /\ \A c \in Core : s.mode[c] = "fd"
        /\ s.pair = "previous" => ~Top.independent
        /\ Top.independent => s.reset = {}
        /\ s.late => s.bad # 3}

(* Mutant of Resets: the flag alone counts. *)
ResetsByFlag(s, c) == c \in s.reset

Resets(s, c) == Top.independent \/ c \in s.reset

(* MissingPreviousContext *)
Lacks(s, c) ==
    s.mode[c] = "fd" /\ ~Resets(s, c) /\ decoder.channel[c].context = Nothing

Stop(s) ==
    CHOOSE c \in Core \cup {3} :
        /\ c = s.bad \/ (c # 3 /\ Lacks(s, c))
        /\ \A d \in Core : d < c => d # s.bad /\ ~Lacks(s, d)

Read(s, c) == c < Stop(s) \/ (c = Stop(s) /\ s.late /\ ~Lacks(s, c))

Pair(s) == Core = {1, 2} /\ \A c \in Core : s.mode[c] = "fd"

(* A pair is rendered when both channels were read. *)
Rendered(s, c) == c < Stop(s) /\ (Pair(s) => Stop(s) = 3)

Fd(s) == {c \in Core : s.mode[c] = "fd"}

(* An access point makes everything older that it does not write. *)
Before(s) ==
    IF Stop(s) = 3 /\ Top.independent /\ Fd(s) = Core
    THEN Aged(decoder, Middle) ELSE decoder

Context(s, c) ==
    IF c \in Fd(s) /\ Read(s, c) /\ Resets(s, c) THEN Young
    ELSE Before(s).channel[c].context

Both(s) == Max({Context(s, c) : c \in Core})

Spectrum(s, c) ==
    CASE s.pair = "apart" -> Context(s, c)
      [] s.pair = "previous" -> Max({Both(s), decoder.downmix})
      [] OTHER -> Both(s)

Kept(s, c) ==
    [context |-> Context(s, c),
     overlap |-> IF c \in Fd(s) /\ Rendered(s, c) THEN Spectrum(s, c)
                 ELSE decoder.channel[c].overlap,
     lpd     |-> IF c \notin Fd(s) /\ Read(s, c)
                 THEN Older(Young, decoder.channel[c].lpd)
                 ELSE Before(s).channel[c].lpd]

(* The oldest that is heard in the FD channels, and in all of them. *)
Coded(s) ==
    Max({Nothing} \cup {Spectrum(s, c) : c \in Fd(s)}
                 \cup {decoder.channel[c].overlap : c \in Fd(s)})

Heard(s) == Max({Coded(s)} \cup {Kept(s, c).lpd : c \in Core \ Fd(s)})

Predicts(s) == Stop(s) = 3 /\ s.pair \in {"predicted", "previous"}

(* use_previous_frame takes the last downmix that was stored, of whatever  *)
(* frame, and strays if that is from before the access point: the frames   *)
(* since then did not predict, or failed.                                  *)
Strays(s) ==
    Stop(s) = 3 /\ s.pair = "previous" /\ decoder.downmix > Young

HearsStray(s) == Strays(s) \/ Fd(s) \cap decoder.strayed # {}

Strayed(s) ==
    IF Strays(s) THEN Core
    ELSE decoder.strayed \ {c \in Fd(s) : Rendered(s, c)}

DecodeCore ==
    /\ At("core")
    /\ \E s \in Syntax :
          /\ decoder' =
               [Before(s) EXCEPT
                  !.channel = [c \in Core |-> Kept(s, c)],
                  !.downmix = IF Predicts(s) THEN Both(s) ELSE @,
                  !.strayed = Strayed(s)]
          /\ calls' =
               [calls EXCEPT
                  ![Len(calls)] =
                    IF Stop(s) = 3
                    THEN [@ EXCEPT !.stage = "trailing",
                                   !.heard = Heard(s), !.coded = Coded(s),
                                   !.stray = HearsStray(s)]
                    ELSE [@ EXCEPT !.stage = "failed"]]
    /\ UNCHANGED <<played, tail, asked>>

-----------------------------------------------------------------------------
(* The end of an access unit *)

(* Only a frame that goes to the application is faded and remembered. *)
Finished(d) ==
    IF d.depth # 0 THEN d
    ELSE [d EXCEPT !.source = Nothing, !.last = played + 1]

Finish ==
    /\ At("finish")
    /\ decoder' = Finished(decoder)
    /\ calls' = Front(calls)
    /\ IF Len(calls) = 1
       THEN played' = played + 1 /\ tail' = played + 1 /\ asked' = FALSE
       ELSE UNCHANGED <<played, tail, asked>>

(* The gains do not fit the frame. *)
RefuseGains ==
    /\ At("finish")
    /\ decoder.gain # Nothing
    /\ To("failed")
    /\ UNCHANGED <<decoder, played, tail, asked>>

Unwound(d) == IF Len(calls) > 1 THEN [d EXCEPT !.depth = @ - 1] ELSE d

(* An error goes to the caller, and closes the prerolls on the way. *)
Fail ==
    /\ At("failed")
    /\ decoder' = Unwound(decoder)
    /\ calls' = IF Len(calls) = 1 THEN <<>>
                ELSE [Front(calls) EXCEPT ![Len(calls) - 1].stage = "failed"]
    /\ UNCHANGED <<played, tail, asked>>

(* clear_history() rebuilds the decoder, and the seam begins anew. *)
ClearHistory ==
    /\ calls = <<>>
    /\ decoder' = FreshDecoder(decoder.config)
    /\ tail' = 0
    /\ asked' = FALSE
    /\ UNCHANGED <<calls, played>>

Next ==
    \/ Decode \/ Leading \/ NoPending \/ OpenPreRoll \/ RefuseConfig
    \/ Nested \/ ClosePreRoll \/ DecodeCore \/ Trailing
    \/ Finish \/ RefuseGains \/ Fail \/ ClearHistory

Spec == Init /\ [][Next]_vars

-----------------------------------------------------------------------------
(* Properties *)

(* A frame is faded exactly if a preroll asked for it since the frame      *)
(* before, and from the tail of that frame: prerolls that fail, prerolls   *)
(* in prerolls and the decoder of another configuration leave the seam of  *)
(* what the application plays alone.  The fade covers the channels of the  *)
(* configuration that asked for it (decoder.rs:1703); channels that a new  *)
(* configuration adds are not faded.                                       *)
SeamIsContinuous ==
    At("finish") /\ Len(calls) = 1 =>
        decoder.source = IF asked THEN tail ELSE Nothing

(* Nothing from before a decoder was rebuilt or replaced is heard in what  *)
(* it plays, the gains it plays it with included.  Behind an independent   *)
(* access unit with FD channels nothing from before it is heard in the FD  *)
(* channels, whatever failed between, but for one thing: a frame that      *)
(* predicts from a downmix of before it, which the code does not refuse,   *)
(* is heard with it, and so is the overlap it leaves.                      *)
RandomAccess ==
    At("finish") =>
        /\ Top.heard # Old /\ decoder.gain # Old
        /\ Top.coded <= Young \/ Top.stray
=============================================================================
