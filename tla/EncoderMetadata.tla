--------------------------- MODULE EncoderMetadata ---------------------------
(***************************************************************************)
(* The metadata of encoder.rs: the sticky setup, the gains computed from   *)
(* the PCM of a frame, the two delay lines that hold them until the audio  *)
(* of that frame is encoded, and the live change of the metadata mode.     *)
(* Encoders whose object type takes no metadata are left out.              *)
(*                                                                         *)
(* A call of the encoder is known by its number, which is kept with each   *)
(* setup and gain to state what belongs together; 0 stands for none.       *)
(***************************************************************************)
EXTENDS Integers, Sequences

CONSTANTS
    FrameLength,    \* samples of an input frame
    AudioDelays,    \* samples the core delays its input
    Setups,         \* what the application can set
    Default,        \* EncoderMetadata::default()
    CallBound       \* frames encoded in a run

ASSUME DelaysReachBack ==
    /\ FrameLength \in Nat \ {0}
    /\ \A a \in AudioDelays : a \in Nat /\ a > FrameLength
ASSUME DefaultIsSetup == Default \in Setups

VARIABLES
    delay,      \* metadata_gain_delay_frames
    mode,       \* config.metadata_mode
    metadata,   \* the sticky setup
    finalize,   \* metadata_finalize_mode, 0 for None
    given,      \* metadata_frame_gains_override
    compressed, \* the last call metadata_compressor has processed
    setups,     \* metadata_setup_delay
    gains,      \* metadata_gain_delay
    calls,      \* frames taken by the encoder
    sent,       \* setup and gain of the last access unit
    heard,      \* by a decoder, in each of the two payloads
    off,        \* the mode switched off last, and what followed it
    skipped     \* the compressor has missed a frame of its mode

lines == <<setups, gains>>
observed == <<calls, sent, heard, off, skipped>>
vars == <<delay, mode, metadata, finalize, given, compressed, lines, observed>>

-----------------------------------------------------------------------------
(* Whole frames that the metadata has to wait; the rest delays the audio.  *)
MetadataFrames(audio) == (audio - 1) \div FrameLength

Modes == 0..3
Compresses(m) == m \in {1, 2}

(* Mode 1 and 2 write dynamic_range_info, 2 and 3 the ETSI ancillary data. *)
Payloads(m) == {p \in {"drc", "etsi"} : IF p = "drc" THEN m \in {1, 2} ELSE m \in {2, 3}}

Submission == [mode : Modes, setup : Setups, call : Nat]
Gain == [source : {"given", "computed", "none"}, call : Nat]

Repeat(entry) == [i \in 1..delay |-> entry]

Disabled == [mode |-> 0, setup |-> Default, call |-> 0]
NoGain == [source |-> "none", call |-> 0]

(* Mutant of Delayed: an empty line is not filled. *)
DelayedOnce(line, current) ==
    IF line = <<>> THEN [out |-> current, line |-> <<current>>]
    ELSE [out |-> Head(line), line |-> Append(Tail(line), current)]

Delayed(line, current) ==
    IF line = <<>> THEN [out |-> current, line |-> Repeat(current)]
    ELSE [out |-> Head(line), line |-> Append(Tail(line), current)]

Init ==
    /\ \E audio \in AudioDelays : delay = MetadataFrames(audio)
    /\ mode \in Modes
    /\ metadata = Default
    /\ finalize = 0
    /\ given = FALSE
    /\ compressed = 0
    /\ setups = <<>>
    /\ gains = <<>>
    /\ calls = 0
    /\ sent = [setup |-> Disabled, gain |-> NoGain]
    /\ heard = [p \in {"drc", "etsi"} |-> Default]
    /\ off = [mode |-> 0, frames |-> 0, clean |-> TRUE]
    /\ skipped = FALSE

-----------------------------------------------------------------------------
(* Settings *)

SetMetadata(setup) ==
    /\ metadata' = setup
    /\ UNCHANGED <<delay, mode, finalize, given, compressed, lines, observed>>

SetFrameGains ==
    /\ given' = TRUE
    /\ UNCHANGED <<delay, mode, metadata, finalize, compressed, lines, observed>>

ClearFrameGains ==
    /\ given' = FALSE
    /\ UNCHANGED <<delay, mode, metadata, finalize, compressed, lines, observed>>

Enable ==
    /\ setups' = Repeat(Disabled)
    /\ gains' = <<>>
    /\ UNCHANGED <<finalize, off>>

Disable ==
    /\ finalize' = mode
    /\ off' = [mode |-> mode, frames |-> 0, clean |-> TRUE]
    /\ UNCHANGED lines

Renewed(m) ==
    IF Compresses(m) THEN compressed' = 0 /\ skipped' = FALSE
    ELSE UNCHANGED <<compressed, skipped>>

(* Mutant of SetMetadataMode: a change of mode keeps the compressor. *)
SetModeAndKeep(m) ==
    /\ m # mode
    /\ mode' = m
    /\ CASE mode = 0 -> Enable /\ Renewed(m)
         [] m = 0 -> Disable /\ UNCHANGED <<compressed, skipped>>
         [] OTHER -> UNCHANGED <<lines, finalize, off, compressed, skipped>>
    /\ UNCHANGED <<delay, metadata, given, calls, sent, heard>>

(* The mode it has already is accepted and changes nothing. *)
SetMetadataMode(m) ==
    /\ m # mode
    /\ mode' = m
    /\ CASE mode = 0 -> Enable
         [] m = 0 -> Disable
         [] OTHER -> UNCHANGED <<lines, finalize, off>>
    /\ Renewed(m)
    /\ UNCHANGED <<delay, metadata, given, calls, sent, heard>>

-----------------------------------------------------------------------------
(* Encoding one frame *)

(* Mutant of Submitted: the last frame of the old mode keeps the setup. *)
SubmittedAsSet ==
    [mode |-> IF mode = 0 THEN finalize ELSE mode,
     setup |-> metadata, call |-> calls']

(* What is switched off is reset by one more frame of its format. *)
Submitted ==
    IF mode = 0 /\ finalize # 0
    THEN [mode |-> finalize, setup |-> Default, call |-> calls']
    ELSE [mode |-> mode, setup |-> metadata, call |-> calls']

Computes(submitted) == ~given /\ Compresses(submitted.mode)

Computed(submitted) ==
    [source |-> CASE given -> "given"
                  [] Computes(submitted) -> "computed"
                  [] OTHER -> "none",
     call |-> calls']

(* All that is done before the core encoder is called. *)
Submit(submitted) ==
    LET setup == Delayed(setups, submitted)
        gain  == Delayed(gains, Computed(submitted))
    IN /\ calls < CallBound
       /\ calls' = calls + 1
       /\ finalize' = IF mode = 0 THEN 0 ELSE finalize
       /\ compressed' = IF Computes(submitted) THEN calls' ELSE compressed
       /\ skipped' = (skipped \/ (given /\ Compresses(submitted.mode)))
       /\ setups' = setup.line
       /\ gains' = gain.line
       /\ sent' = [setup |-> setup.out, gain |-> gain.out]
       /\ UNCHANGED <<delay, mode, metadata, given>>

Encode ==
    /\ Submit(Submitted)
    /\ heard' = [p \in {"drc", "etsi"} |->
                   IF p \in Payloads(sent'.setup.mode) THEN sent'.setup.setup
                   ELSE heard[p]]
    /\ off' = IF mode = 0 /\ off.frames <= delay
              THEN [off EXCEPT !.frames = @ + 1] ELSE off

(* The core encoder refuses the frame, and its payload is not heard. *)
EncodeFails ==
    /\ Submit(Submitted)
    /\ off' = IF mode = 0 /\ off.frames <= delay
              THEN [off EXCEPT !.frames = @ + 1, !.clean = FALSE] ELSE off
    /\ UNCHANGED heard

Next ==
    \/ \E setup \in Setups : SetMetadata(setup)
    \/ \E m \in Modes : SetMetadataMode(m)
    \/ SetFrameGains
    \/ ClearFrameGains
    \/ Encode
    \/ EncodeFails

Spec == Init /\ [][Next]_vars

-----------------------------------------------------------------------------
TypeOK ==
    /\ delay \in Nat \ {0}
    /\ mode \in Modes
    /\ metadata \in Setups
    /\ finalize \in Modes
    /\ given \in BOOLEAN
    /\ compressed \in Nat
    /\ setups \in Seq(Submission)
    /\ gains \in Seq(Gain)
    /\ calls \in Nat
    /\ sent \in [setup : Submission, gain : Gain]
    /\ heard \in [{"drc", "etsi"} -> Setups]
    /\ off \in [mode : Modes, frames : Nat, clean : BOOLEAN]
    /\ skipped \in BOOLEAN

(* The gain of a payload was computed for the frame its setup was set for, *)
(* and that frame is the one whose audio is now encoded, delay frames ago: *)
(* the two lines stay in step although a change of the mode empties one    *)
(* and fills the other, and although frames fail behind them.              *)
GainMeetsSetup ==
    sent.setup.mode # 0 =>
        /\ sent.gain.call = sent.setup.call
        /\ Compresses(sent.setup.mode) => sent.gain.source # "none"
        /\ sent.setup.call \in {1, calls - delay}

(* Switching the metadata off reaches the decoder: behind the delay it has *)
(* heard the default in each payload of the mode switched off, unless a    *)
(* frame failed on the way ("disabling queues one final default metadata   *)
(* frame in the old format so decoders receive an explicit reset",         *)
(* encoder.rs:1564-1565).                                                  *)
ResetIsHeard ==
    mode = 0 /\ off.clean /\ off.frames > delay =>
        \A p \in Payloads(off.mode) : heard[p] = Default

(* The compressor smooths over frames that follow each other: it is fresh  *)
(* or has seen the frame before, unless gains were given in between.       *)
CompressorIsContinuous ==
    Compresses(mode) /\ ~skipped => compressed \in {0, calls}
=============================================================================
