------------------------ MODULE EncoderMetadataProofs ------------------------
(***************************************************************************)
(* Proofs about EncoderMetadata, for every delay and every setup: the two  *)
(* delay lines stay in step, and the final default frame arrives.          *)
(***************************************************************************)
EXTENDS EncoderMetadata, TLAPS

(* Both lines have their full length or were never used. *)
LinesAreFull ==
    /\ Len(setups) \in {0, delay}
    /\ Len(gains) \in {0, delay}
    /\ setups = <<>> => gains = <<>> /\ calls = 0

(* The place of an entry tells the call it is of. *)
LinesInStep ==
    \A i \in 1..Len(setups) :
        setups[i].mode # 0 =>
            /\ gains # <<>>
            /\ gains[i].call = setups[i].call
            /\ Compresses(setups[i].mode) => gains[i].source # "none"
            /\ setups[i].call \in {1, calls - delay + i}

Harmless(submission) == submission.mode = 0 \/ submission.setup = Default

ResetWasHeard == \A p \in Payloads(off.mode) : heard[p] = Default

(* After the switch the reset is submitted at once and moves through the   *)
(* line, with nothing behind it that could undo it.                        *)
ResetOnItsWay ==
    mode = 0 /\ off.mode # 0 /\ off.clean =>
        /\ off.frames = 0 => finalize = off.mode
        /\ off.frames # 0 =>
             /\ setups # <<>>
             /\ \A i \in 1..Len(setups) :
                   i > delay - off.frames => Harmless(setups[i])
             /\ off.frames <= delay =>
                   /\ setups[delay - off.frames + 1].mode = off.mode
                   /\ setups[delay - off.frames + 1].setup = Default
             /\ off.frames > delay => ResetWasHeard

IInv ==
    /\ TypeOK
    /\ LinesAreFull
    /\ LinesInStep
    /\ GainMeetsSetup
    /\ ResetOnItsWay
    /\ CompressorIsContinuous

-----------------------------------------------------------------------------
(* Delay lines *)

LEMMA DelayIsPositive ==
    \A audio \in AudioDelays :
        MetadataFrames(audio) \in Nat \ {0}
<1> SUFFICES ASSUME NEW audio \in AudioDelays
             PROVE  MetadataFrames(audio) \in Nat \ {0}
  OBVIOUS
<1>1. PICK q, f : q = (audio - 1) \div FrameLength /\ f = FrameLength
  OBVIOUS
<1>2. f \in Nat /\ f > 0 /\ audio \in Nat /\ audio - 1 >= f
  BY <1>1, DelaysReachBack
<1>3. q \in Int /\ f * q <= audio - 1 /\ audio - 1 < f * (q + 1)
  BY <1>1, <1>2
<1>4. q > 0
  <2> SUFFICES ASSUME q + 1 <= 1 PROVE FALSE
    BY <1>3
  <2>1. f * (q + 1) <= f * 1
    BY <1>2, <1>3
  <2> QED
    BY <2>1, <1>2, <1>3
<1> QED
  BY <1>1, <1>3, <1>4 DEF MetadataFrames

LEMMA Shifted ==
    ASSUME NEW S, NEW line \in Seq(S), line # <<>>, NEW entry \in S
    PROVE  /\ Append(Tail(line), entry) \in Seq(S)
           /\ Len(Append(Tail(line), entry)) = Len(line)
           /\ Head(line) = line[1] /\ line[1] \in S
           /\ \A i \in 1..Len(line) :
                 Append(Tail(line), entry)[i]
                     = IF i < Len(line) THEN line[i + 1] ELSE entry
  OBVIOUS

LEMMA Repeated ==
    ASSUME NEW S, NEW entry \in S, delay \in Nat \ {0}
    PROVE  /\ Repeat(entry) \in Seq(S)
           /\ Len(Repeat(entry)) = delay
           /\ Repeat(entry) # <<>>
           /\ \A i \in 1..delay : Repeat(entry)[i] = entry
  BY DEF Repeat

(* What a line gives out and what it holds then. *)
LEMMA DelayedLine ==
    ASSUME NEW S, NEW line \in Seq(S), Len(line) \in {0, delay},
           delay \in Nat \ {0}, NEW entry \in S
    PROVE  /\ Delayed(line, entry).out \in S
           /\ Delayed(line, entry).out = IF line = <<>> THEN entry ELSE line[1]
           /\ Delayed(line, entry).line \in Seq(S)
           /\ Len(Delayed(line, entry).line) = delay
           /\ \A i \in 1..delay :
                 Delayed(line, entry).line[i]
                     = IF line # <<>> /\ i < delay THEN line[i + 1] ELSE entry
<1>1. CASE line = <<>>
  BY <1>1, Repeated DEF Delayed
<1>2. CASE line # <<>>
  <2>1. Len(line) = delay
    BY <1>2
  <2> QED
    BY <1>2, <2>1, Shifted DEF Delayed
<1> QED
  BY <1>1, <1>2

-----------------------------------------------------------------------------
(* Encoding one frame *)

LEMMA SubmittedIsOfCall ==
    ASSUME TypeOK, calls' = calls + 1
    PROVE  /\ Submitted \in Submission
           /\ Submitted.call = calls'
           /\ Submitted.mode = IF mode = 0 /\ finalize # 0 THEN finalize ELSE mode
           /\ mode = 0 => Harmless(Submitted)
           /\ mode = 0 /\ finalize # 0 => Submitted.setup = Default
  BY DefaultIsSetup DEF TypeOK, Submitted, Submission, Harmless, Modes

LEMMA ComputedIsOfCall ==
    ASSUME TypeOK, calls' = calls + 1
    PROVE  /\ Computed(Submitted) \in Gain
           /\ Computed(Submitted).call = calls'
           /\ Compresses(Submitted.mode) => Computed(Submitted).source # "none"
  BY DEF TypeOK, Computed, Computes, Gain

(* The two lines and what they give out, in terms of what they held. *)
Moved ==
    /\ calls' = calls + 1
    /\ setups' \in Seq(Submission) /\ Len(setups') = delay
    /\ gains' \in Seq(Gain) /\ Len(gains') = delay
    /\ sent' \in [setup : Submission, gain : Gain]
    /\ sent'.setup = IF setups = <<>> THEN Submitted ELSE setups[1]
    /\ sent'.gain = IF gains = <<>> THEN Computed(Submitted) ELSE gains[1]
    /\ \A i \in 1..delay :
          /\ setups'[i] = IF setups # <<>> /\ i < delay THEN setups[i + 1]
                          ELSE Submitted
          /\ gains'[i] = IF gains # <<>> /\ i < delay THEN gains[i + 1]
                         ELSE Computed(Submitted)

LEMMA SubmitMoves ==
    ASSUME TypeOK, LinesAreFull, Submit(Submitted)
    PROVE  Moved
<1>1. calls' = calls + 1
  BY DEF Submit
<1>2. /\ setups' = Delayed(setups, Submitted).line
      /\ gains' = Delayed(gains, Computed(Submitted)).line
      /\ sent' = [setup |-> Delayed(setups, Submitted).out,
                  gain |-> Delayed(gains, Computed(Submitted)).out]
  BY DEF Submit
<1>3. /\ Submitted \in Submission /\ Computed(Submitted) \in Gain
      /\ setups \in Seq(Submission) /\ gains \in Seq(Gain)
      /\ delay \in Nat \ {0}
      /\ Len(setups) \in {0, delay} /\ Len(gains) \in {0, delay}
  BY <1>1, SubmittedIsOfCall, ComputedIsOfCall DEF TypeOK, LinesAreFull
<1>4. /\ Delayed(setups, Submitted).out \in Submission
      /\ Delayed(setups, Submitted).out = IF setups = <<>> THEN Submitted ELSE setups[1]
      /\ setups' \in Seq(Submission)
      /\ Len(setups') = delay
      /\ \A i \in 1..delay :
            setups'[i] = IF setups # <<>> /\ i < delay THEN setups[i + 1] ELSE Submitted
  BY <1>2, <1>3, DelayedLine
<1>5. /\ Delayed(gains, Computed(Submitted)).out \in Gain
      /\ Delayed(gains, Computed(Submitted)).out
            = IF gains = <<>> THEN Computed(Submitted) ELSE gains[1]
      /\ gains' \in Seq(Gain)
      /\ Len(gains') = delay
      /\ \A i \in 1..delay :
            gains'[i] = IF gains # <<>> /\ i < delay THEN gains[i + 1]
                        ELSE Computed(Submitted)
  BY <1>2, <1>3, DelayedLine
<1>6. /\ sent' \in [setup : Submission, gain : Gain]
      /\ sent'.setup = Delayed(setups, Submitted).out
      /\ sent'.gain = Delayed(gains, Computed(Submitted)).out
  <2> HIDE DEF Delayed, Computed, Submitted
  <2> QED
    BY <1>2, <1>4, <1>5
<1> QED
  BY <1>1, <1>4, <1>5, <1>6 DEF Moved

LEMMA MovedInStep ==
    ASSUME TypeOK, LinesAreFull, LinesInStep, Moved, delay' = delay
    PROVE  LinesAreFull' /\ LinesInStep' /\ GainMeetsSetup'
<1>1. /\ delay \in Nat \ {0} /\ calls \in Nat /\ calls' = calls + 1
      /\ setups \in Seq(Submission) /\ gains \in Seq(Gain)
  BY DEF TypeOK, Moved
<1>2. /\ Submitted.call = calls' /\ Computed(Submitted).call = calls'
      /\ Compresses(Submitted.mode) => Computed(Submitted).source # "none"
  BY <1>1, SubmittedIsOfCall, ComputedIsOfCall
<1>3. LinesAreFull'
  BY <1>1 DEF LinesAreFull, Moved
<1>4. setups # <<>> => Len(setups) = delay
  BY <1>1 DEF LinesAreFull
<1>5. gains # <<>> => Len(gains) = delay
  BY <1>1 DEF LinesAreFull
<1>6. setups = <<>> => gains = <<>> /\ calls = 0
  BY DEF LinesAreFull
<1>7. LinesInStep'
  <2> SUFFICES ASSUME NEW i \in 1..delay, setups'[i].mode # 0
               PROVE  /\ gains' # <<>>
                      /\ gains'[i].call = setups'[i].call
                      /\ Compresses(setups'[i].mode) => gains'[i].source # "none"
                      /\ setups'[i].call \in {1, calls' - delay + i}
    BY DEF LinesInStep, Moved
  <2>1. gains' # <<>>
    BY <1>1 DEF Moved
  <2>2. CASE setups # <<>> /\ i < delay
    <3>1. i + 1 \in 1..Len(setups) /\ setups'[i] = setups[i + 1]
      BY <1>1, <1>4, <2>2 DEF Moved
    <3>2. /\ gains # <<>>
          /\ gains[i + 1].call = setups[i + 1].call
          /\ Compresses(setups[i + 1].mode) => gains[i + 1].source # "none"
          /\ setups[i + 1].call \in {1, calls - delay + (i + 1)}
      BY <3>1 DEF LinesInStep
    <3>3. gains'[i] = gains[i + 1]
      BY <2>2, <3>2 DEF Moved
    <3>4. calls - delay + (i + 1) = calls' - delay + i
      BY <1>1
    <3> QED
      BY <2>1, <3>1, <3>2, <3>3, <3>4
  <2>3. CASE setups = <<>> \/ i = delay
    <3>1. setups'[i] = Submitted /\ gains'[i] = Computed(Submitted)
      BY <1>6, <2>3 DEF Moved
    <3>2. calls' \in {1, calls' - delay + i}
      BY <1>1, <1>6, <2>3
    <3> QED
      BY <1>2, <2>1, <3>1, <3>2
  <2> QED
    BY <1>1, <2>2, <2>3
<1>8. GainMeetsSetup'
  <2> SUFFICES ASSUME sent'.setup.mode # 0
               PROVE  /\ sent'.gain.call = sent'.setup.call
                      /\ Compresses(sent'.setup.mode) => sent'.gain.source # "none"
                      /\ sent'.setup.call \in {1, calls' - delay}
    BY DEF GainMeetsSetup
  <2>1. CASE setups = <<>>
    <3>1. sent'.setup = Submitted /\ sent'.gain = Computed(Submitted) /\ calls' = 1
      BY <1>1, <1>6, <2>1 DEF Moved
    <3> QED
      BY <1>2, <3>1
  <2>2. CASE setups # <<>>
    <3>1. sent'.setup = setups[1] /\ 1 \in 1..Len(setups)
      BY <1>1, <1>4, <2>2 DEF Moved
    <3>2. /\ gains # <<>>
          /\ gains[1].call = setups[1].call
          /\ Compresses(setups[1].mode) => gains[1].source # "none"
          /\ setups[1].call \in {1, calls - delay + 1}
      BY <3>1 DEF LinesInStep
    <3>3. sent'.gain = gains[1]
      BY <3>2 DEF Moved
    <3> QED
      BY <1>1, <3>1, <3>2, <3>3
  <2> QED
    BY <2>1, <2>2
<1> QED
  BY <1>3, <1>7, <1>8

-----------------------------------------------------------------------------
(* The reset behind the delay *)

LEMMA PayloadsOfMode ==
    Payloads(0) = {}
  BY DEF Payloads

(* Heard after a frame that was not lost. *)
Listened ==
    heard' = [p \in {"drc", "etsi"} |->
                IF p \in Payloads(sent'.setup.mode) THEN sent'.setup.setup
                ELSE heard[p]]

LEMMA ResetMoves ==
    ASSUME TypeOK, LinesAreFull, ResetOnItsWay, Moved,
           Listened \/ (heard' = heard /\ off.frames > delay),
           mode = 0, delay' = delay, mode' = mode,
           off' = IF off.frames <= delay THEN [off EXCEPT !.frames = @ + 1] ELSE off
    PROVE  ResetOnItsWay'
<1> SUFFICES ASSUME off.mode # 0, off.clean
             PROVE  /\ off'.frames # 0
                    /\ setups' # <<>>
                    /\ \A i \in 1..delay :
                          i > delay - off'.frames => Harmless(setups'[i])
                    /\ off'.frames <= delay =>
                          /\ setups'[delay - off'.frames + 1].mode = off.mode
                          /\ setups'[delay - off'.frames + 1].setup = Default
                    /\ off'.frames > delay => ResetWasHeard'
  <2>1. off'.mode = off.mode /\ off'.clean = off.clean
    BY DEF TypeOK
  <2>2. Len(setups') = delay
    BY DEF Moved
  <2> QED
    BY <2>1, <2>2 DEF ResetOnItsWay, Harmless
<1>1. /\ delay \in Nat \ {0} /\ off.frames \in Nat
      /\ setups \in Seq(Submission) /\ setups' \in Seq(Submission)
      /\ Len(setups') = delay
      /\ heard \in [{"drc", "etsi"} -> Setups]
  BY DEF TypeOK, Moved
<1>2. setups # <<>> => Len(setups) = delay
  BY <1>1 DEF LinesAreFull
<1>3. /\ off'.frames = IF off.frames <= delay THEN off.frames + 1 ELSE off.frames
      /\ off'.mode = off.mode
  BY DEF TypeOK
<1>4. /\ Harmless(Submitted)
      /\ off.frames = 0 => Submitted.mode = off.mode /\ Submitted.setup = Default
  <2>1. calls' = calls + 1
    BY DEF Moved
  <2>2. off.frames = 0 => finalize = off.mode
    BY DEF ResetOnItsWay
  <2> QED
    BY <2>1, <2>2, SubmittedIsOfCall
<1>5. /\ off'.frames # 0
      /\ setups' # <<>>
  BY <1>1, <1>3
<1>6. ASSUME NEW i \in 1..delay, i > delay - off'.frames
      PROVE  Harmless(setups'[i])
  <2>1. CASE setups # <<>> /\ i < delay
    <3>1. setups'[i] = setups[i + 1]
      BY <2>1 DEF Moved
    <3>2. i + 1 > delay - off.frames /\ off.frames # 0 /\ i + 1 \in 1..Len(setups)
      BY <1>1, <1>2, <1>3, <1>6, <2>1
    <3>3. Harmless(setups[i + 1])
      BY <3>2 DEF ResetOnItsWay
    <3> QED
      BY <3>1, <3>3
  <2>2. CASE ~(setups # <<>> /\ i < delay)
    <3>1. setups'[i] = Submitted
      BY <2>2 DEF Moved
    <3> QED
      BY <1>4, <3>1
  <2> QED
    BY <2>1, <2>2
<1>7. ASSUME off'.frames <= delay
      PROVE  /\ setups'[delay - off'.frames + 1].mode = off.mode
             /\ setups'[delay - off'.frames + 1].setup = Default
  <2>1. off'.frames = off.frames + 1 /\ off.frames < delay
    BY <1>1, <1>3, <1>7
  <2>2. CASE off.frames = 0
    <3>1. delay - off'.frames + 1 = delay
      BY <1>1, <2>1, <2>2
    <3>2. setups'[delay] = Submitted
      BY <1>1 DEF Moved
    <3> QED
      BY <1>4, <2>2, <3>1, <3>2
  <2>3. CASE off.frames # 0
    <3>1. /\ setups # <<>>
          /\ setups[delay - off.frames + 1].mode = off.mode
          /\ setups[delay - off.frames + 1].setup = Default
      BY <1>1, <2>1, <2>3 DEF ResetOnItsWay
    <3>2. PICK i \in 1..delay : i = delay - off.frames /\ i < delay
      BY <1>1, <2>1, <2>3
    <3>3. delay - off'.frames + 1 = i /\ delay - off.frames + 1 = i + 1
      BY <1>1, <2>1, <3>2
    <3>4. setups'[i] = setups[i + 1]
      BY <3>1, <3>2 DEF Moved
    <3> QED
      BY <3>1, <3>3, <3>4
  <2> QED
    BY <2>2, <2>3
<1>8. ASSUME off'.frames > delay
      PROVE  ResetWasHeard'
  <2>1. off.frames >= delay /\ off.frames # 0 /\ setups # <<>> /\ 1 \in 1..Len(setups)
    BY <1>1, <1>2, <1>3, <1>8 DEF ResetOnItsWay
  <2>2. sent'.setup = setups[1]
    BY <2>1 DEF Moved
  <2>3. SUFFICES ASSUME NEW p \in Payloads(off.mode)
                 PROVE  heard'[p] = Default
    BY <1>3 DEF ResetWasHeard
  <2>4. p \in {"drc", "etsi"}
    BY DEF Payloads
  <2>5. off.frames > delay => heard[p] = Default
    BY <2>1 DEF ResetOnItsWay, ResetWasHeard
  <2>6. CASE heard' = heard /\ off.frames > delay
    BY <2>5, <2>6
  <2>7. CASE Listened
    <3>1. heard'[p] = IF p \in Payloads(sent'.setup.mode) THEN sent'.setup.setup
                      ELSE heard[p]
      BY <2>4, <2>7 DEF Listened
    <3>2. CASE off.frames = delay
      <4>1. delay - off.frames + 1 = 1 /\ off.frames <= delay
        BY <1>1, <3>2
      <4>2. setups[1].mode = off.mode /\ setups[1].setup = Default
        BY <2>1, <4>1 DEF ResetOnItsWay
      <4> QED
        BY <2>2, <3>1, <4>2
    <3>3. CASE off.frames > delay
      <4>1. 1 > delay - off.frames
        BY <1>1, <3>3
      <4>2. Harmless(setups[1])
        BY <2>1, <4>1 DEF ResetOnItsWay
      <4> QED
        BY <2>2, <2>5, <3>1, <3>3, <4>2, PayloadsOfMode DEF Harmless
    <3> QED
      BY <1>1, <2>1, <3>2, <3>3
  <2> QED
    BY <2>6, <2>7
<1> QED
  BY <1>5, <1>6, <1>7, <1>8

-----------------------------------------------------------------------------
(* The steps *)

LEMMA InitHolds ==
    ASSUME Init
    PROVE  IInv
<1>1. delay \in Nat \ {0}
  BY DelayIsPositive DEF Init
<1>2. TypeOK
  <2>1. sent \in [setup : Submission, gain : Gain]
    BY DefaultIsSetup DEF Init, Modes, Submission, Gain, Disabled, NoGain
  <2>2. setups \in Seq(Submission) /\ gains \in Seq(Gain)
    BY DEF Init
  <2>3. /\ heard \in [{"drc", "etsi"} -> Setups]
        /\ off \in [mode : Modes, frames : Nat, clean : BOOLEAN]
    BY DefaultIsSetup DEF Init, Modes
  <2> QED
    BY <1>1, <2>1, <2>2, <2>3, DefaultIsSetup DEF Init, TypeOK, Modes
<1>3. LinesAreFull /\ LinesInStep
  BY DEF Init, LinesAreFull, LinesInStep
<1>4. GainMeetsSetup /\ ResetOnItsWay /\ CompressorIsContinuous
  BY DEF Init, GainMeetsSetup, ResetOnItsWay, CompressorIsContinuous, Disabled
<1> QED
  BY <1>2, <1>3, <1>4 DEF IInv

LEMMA SettingsKeep ==
    ASSUME IInv,
           metadata' \in Setups, given' \in BOOLEAN,
           UNCHANGED <<delay, mode, finalize, compressed, lines, observed>>
    PROVE  IInv'
<1> USE DEF IInv, lines, observed
<1>1. TypeOK'
  BY DEF TypeOK
<1>2. LinesAreFull' /\ LinesInStep'
  BY DEF LinesAreFull, LinesInStep
<1>3. GainMeetsSetup' /\ CompressorIsContinuous'
  BY DEF GainMeetsSetup, CompressorIsContinuous
<1>4. ResetOnItsWay'
  BY DEF ResetOnItsWay, ResetWasHeard
<1> QED
  BY <1>1, <1>2, <1>3, <1>4

LEMMA ModeKeeps ==
    ASSUME IInv, NEW m \in Modes, SetMetadataMode(m)
    PROVE  IInv'
<1>1. /\ TypeOK /\ LinesAreFull /\ LinesInStep /\ GainMeetsSetup
      /\ ResetOnItsWay /\ CompressorIsContinuous
  BY DEF IInv
<1>2. /\ m # mode /\ mode' = m /\ Renewed(m)
      /\ UNCHANGED <<delay, metadata, given, calls, sent, heard>>
  BY DEF SetMetadataMode
<1>3. delay \in Nat \ {0}
  BY <1>1 DEF TypeOK
<1>4. \/ mode = 0 /\ Enable
      \/ mode # 0 /\ m = 0 /\ Disable
      \/ mode # 0 /\ m # 0 /\ UNCHANGED <<lines, finalize, off>>
  BY DEF SetMetadataMode
<1>5. compressed' \in Nat /\ skipped' \in BOOLEAN
  <2>1. compressed \in Nat /\ skipped \in BOOLEAN
    BY <1>1 DEF TypeOK
  <2>2. CASE Compresses(m)
    <3>1. compressed' = 0 /\ skipped' = FALSE
      BY <1>2, <2>2 DEF Renewed
    <3> QED
      BY <3>1
  <2>3. CASE ~Compresses(m)
    <3>1. compressed' = compressed /\ skipped' = skipped
      BY <1>2, <2>3 DEF Renewed
    <3> QED
      BY <2>1, <3>1
  <2> QED
    BY <2>2, <2>3
<1>6. CompressorIsContinuous'
  BY <1>1, <1>2 DEF CompressorIsContinuous, Renewed
<1>7. GainMeetsSetup'
  BY <1>1, <1>2 DEF GainMeetsSetup
<1>8. CASE mode = 0 /\ Enable
  <2>1. Disabled \in Submission /\ Disabled.mode = 0
    BY DefaultIsSetup DEF Disabled, Submission, Modes
  <2>2. /\ setups' = Repeat(Disabled) /\ gains' = <<>>
        /\ finalize' = finalize /\ off' = off
    BY <1>8 DEF Enable
  <2>3. /\ setups' \in Seq(Submission) /\ Len(setups') = delay /\ setups' # <<>>
        /\ \A i \in 1..delay : setups'[i] = Disabled
    BY <1>3, <2>1, <2>2, Repeated
  <2>4. TypeOK'
    BY <1>1, <1>2, <1>5, <2>2, <2>3 DEF TypeOK
  <2>5. LinesAreFull' /\ LinesInStep'
    BY <1>2, <2>1, <2>2, <2>3 DEF LinesAreFull, LinesInStep
  <2>6. ResetOnItsWay'
    BY <1>2, <1>8 DEF ResetOnItsWay
  <2> QED
    BY <1>6, <1>7, <2>4, <2>5, <2>6 DEF IInv
<1>9. CASE mode # 0 /\ m = 0 /\ Disable
  <2>1. /\ finalize' = mode /\ UNCHANGED <<setups, gains>>
        /\ off' = [mode |-> mode, frames |-> 0, clean |-> TRUE]
    BY <1>9 DEF Disable, lines
  <2>2. TypeOK'
    BY <1>1, <1>2, <1>5, <2>1 DEF TypeOK
  <2>3. LinesAreFull' /\ LinesInStep'
    BY <1>1, <1>2, <2>1 DEF LinesAreFull, LinesInStep
  <2>4. ResetOnItsWay'
    BY <2>1 DEF ResetOnItsWay
  <2> QED
    BY <1>6, <1>7, <2>2, <2>3, <2>4 DEF IInv
<1>10. CASE mode # 0 /\ m # 0 /\ UNCHANGED <<lines, finalize, off>>
  <2>1. UNCHANGED <<setups, gains, finalize, off>>
    BY <1>10 DEF lines
  <2>2. TypeOK'
    BY <1>1, <1>2, <1>5, <2>1 DEF TypeOK
  <2>3. LinesAreFull' /\ LinesInStep'
    BY <1>1, <1>2, <2>1 DEF LinesAreFull, LinesInStep
  <2>4. ResetOnItsWay'
    BY <1>2, <1>10 DEF ResetOnItsWay
  <2> QED
    BY <1>6, <1>7, <2>2, <2>3, <2>4 DEF IInv
<1> QED
  BY <1>4, <1>8, <1>9, <1>10

LEMMA FrameKeeps ==
    ASSUME IInv, Encode \/ EncodeFails
    PROVE  IInv'
<1>1. /\ TypeOK /\ LinesAreFull /\ LinesInStep
      /\ ResetOnItsWay /\ CompressorIsContinuous
  BY DEF IInv
<1>2. Submit(Submitted)
  BY DEF Encode, EncodeFails
<1>3. Moved
  BY <1>1, <1>2, SubmitMoves
<1>4. UNCHANGED <<delay, mode, metadata, given>>
  BY <1>2 DEF Submit
<1>5. LinesAreFull' /\ LinesInStep' /\ GainMeetsSetup'
  BY <1>1, <1>3, <1>4, MovedInStep
<1>6. /\ finalize' = IF mode = 0 THEN 0 ELSE finalize
      /\ compressed' = IF Computes(Submitted) THEN calls' ELSE compressed
      /\ skipped' = (skipped \/ (given /\ Compresses(Submitted.mode)))
      /\ calls' = calls + 1
  BY <1>2 DEF Submit
<1>7. CompressorIsContinuous'
  <2> SUFFICES ASSUME Compresses(mode), ~skipped'
               PROVE  compressed' = calls'
    BY <1>4 DEF CompressorIsContinuous
  <2>1. Submitted.mode = mode
    BY <1>1, <1>6, SubmittedIsOfCall DEF Compresses
  <2> QED
    BY <1>6, <2>1 DEF Computes
<1>8. /\ heard' \in [{"drc", "etsi"} -> Setups]
      /\ off' \in [mode : Modes, frames : Nat, clean : BOOLEAN]
  <2>1. sent'.setup.setup \in Setups
    BY <1>3 DEF Moved, Submission
  <2>2. off.frames \in Nat /\ off.mode \in Modes /\ off.clean \in BOOLEAN
        /\ off \in [mode : Modes, frames : Nat, clean : BOOLEAN]
        /\ heard \in [{"drc", "etsi"} -> Setups]
    BY <1>1 DEF TypeOK
  <2>3. heard' \in [{"drc", "etsi"} -> Setups]
    BY <2>1, <2>2 DEF Encode, EncodeFails
  <2>4. off' \in [mode : Modes, frames : Nat, clean : BOOLEAN]
    <3>1. CASE Encode
      BY <2>2, <3>1 DEF Encode
    <3>2. CASE EncodeFails
      <4>1. PICK n \in Nat : n = off.frames + 1
        BY <2>2
      <4>2. off' = IF mode = 0 /\ off.frames <= delay
                   THEN [off EXCEPT !.frames = n, !.clean = FALSE] ELSE off
        BY <3>2, <4>1 DEF EncodeFails
      <4>3. [off EXCEPT !.frames = n, !.clean = FALSE]
                \in [mode : Modes, frames : Nat, clean : BOOLEAN]
        BY <2>2
      <4> QED
        BY <2>2, <4>2, <4>3
    <3> QED
      BY <3>1, <3>2
  <2> QED
    BY <2>3, <2>4
<1>9. TypeOK'
  <2>1. calls' \in Nat /\ compressed' \in Nat /\ finalize' \in Modes /\ skipped' \in BOOLEAN
    BY <1>1, <1>6 DEF TypeOK, Modes
  <2> QED
    BY <1>1, <1>3, <1>4, <1>8, <2>1 DEF TypeOK, Moved
<1>10. ResetOnItsWay'
  <2>1. CASE mode # 0
    BY <1>4, <2>1 DEF ResetOnItsWay
  <2>2. CASE mode = 0 /\ EncodeFails
    <3>1. off' = IF off.frames <= delay
                 THEN [off EXCEPT !.frames = @ + 1, !.clean = FALSE] ELSE off
      BY <2>2 DEF EncodeFails
    <3>2. CASE off.frames <= delay
      <4>1. ~off'.clean
        BY <1>1, <3>1, <3>2 DEF TypeOK
      <4> QED
        BY <4>1 DEF ResetOnItsWay
    <3>3. CASE ~(off.frames <= delay)
      <4>1. heard' = heard /\ off.frames > delay
        BY <1>1, <2>2, <3>3 DEF EncodeFails, TypeOK
      <4>2. off' = IF off.frames <= delay THEN [off EXCEPT !.frames = @ + 1] ELSE off
        BY <3>1, <3>3
      <4> QED
        BY <1>1, <1>3, <1>4, <2>2, <4>1, <4>2, ResetMoves
    <3> QED
      BY <3>2, <3>3
  <2>3. CASE mode = 0 /\ Encode
    <3>1. off' = IF off.frames <= delay THEN [off EXCEPT !.frames = @ + 1] ELSE off
      BY <2>3 DEF Encode
    <3>2. Listened
      BY <2>3 DEF Encode, Listened
    <3> QED
      BY <1>1, <1>3, <1>4, <2>3, <3>1, <3>2, ResetMoves
  <2> QED
    BY <2>1, <2>2, <2>3
<1> QED
  BY <1>5, <1>7, <1>9, <1>10 DEF IInv

LEMMA Invariance == Spec => []IInv
<1>1. IInv /\ [Next]_vars => IInv'
  <2> SUFFICES ASSUME IInv, [Next]_vars PROVE IInv'
    OBVIOUS
  <2>1. CASE UNCHANGED vars
    <3>1. metadata' \in Setups /\ given' \in BOOLEAN
      BY <2>1 DEF vars, IInv, TypeOK
    <3> QED
      BY <2>1, <3>1, SettingsKeep DEF vars
  <2>2. ASSUME NEW setup \in Setups, SetMetadata(setup)
        PROVE  IInv'
    <3>1. metadata' \in Setups /\ given' \in BOOLEAN
      BY <2>2 DEF SetMetadata, IInv, TypeOK
    <3> QED
      BY <2>2, <3>1, SettingsKeep DEF SetMetadata
  <2>3. ASSUME NEW m \in Modes, SetMetadataMode(m)
        PROVE  IInv'
    BY <2>3, ModeKeeps
  <2>4. CASE SetFrameGains \/ ClearFrameGains
    <3>1. metadata' \in Setups /\ given' \in BOOLEAN
      BY <2>4 DEF SetFrameGains, ClearFrameGains, IInv, TypeOK
    <3> QED
      BY <2>4, <3>1, SettingsKeep DEF SetFrameGains, ClearFrameGains
  <2>5. CASE Encode \/ EncodeFails
    BY <2>5, FrameKeeps
  <2> QED
    BY <2>1, <2>2, <2>3, <2>4, <2>5 DEF Next
<1> QED
  BY InitHolds, <1>1, PTL DEF Spec

-----------------------------------------------------------------------------
(* Types, for every delay and every set of setups. *)
THEOREM TypeCorrect == Spec => []TypeOK
<1>1. IInv => TypeOK
  BY DEF IInv
<1> QED
  BY Invariance, <1>1, PTL

(* However the mode is changed and frames fail, the gain written for a     *)
(* frame is the one computed for it.                                       *)
THEOREM StepKept == Spec => []GainMeetsSetup
<1>1. IInv => GainMeetsSetup
  BY DEF IInv
<1> QED
  BY Invariance, <1>1, PTL

(* Switching the metadata off reaches the decoder behind the delay.        *)
THEOREM ResetArrives == Spec => []ResetIsHeard
<1>1. IInv => ResetIsHeard
  <2> SUFFICES ASSUME IInv, mode = 0, off.clean, off.frames > delay,
                      NEW p \in Payloads(off.mode)
               PROVE  heard[p] = Default
    BY DEF ResetIsHeard
  <2>1. off.mode # 0
    BY PayloadsOfMode
  <2>2. delay \in Nat \ {0} /\ off.frames \in Nat
    BY DEF IInv, TypeOK
  <2>3. off.frames # 0
    BY <2>2
  <2> QED
    BY <2>1, <2>3 DEF IInv, ResetOnItsWay, ResetWasHeard
<1> QED
  BY Invariance, <1>1, PTL

(* The compressor sees every frame of a mode that compresses.              *)
THEOREM CompressorContinuous == Spec => []CompressorIsContinuous
<1>1. IInv => CompressorIsContinuous
  BY DEF IInv
<1> QED
  BY Invariance, <1>1, PTL
=============================================================================
