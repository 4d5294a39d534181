----------------------------- MODULE CoreEncoder -----------------------------
(***************************************************************************)
(* The frame encoders of aac_encoder.rs: block switching, rate control and *)
(* the SBR coding state around one bit reservoir, and what each of them    *)
(* keeps of a frame that fails.  Frames are numbered as they are analysed; *)
(* 0 stands for none.                                                      *)
(***************************************************************************)
EXTENDS BitReservoir, Sequences

CONSTANTS
    Kinds,          \* of encoder: "lc", "he", "ld", "eld", "eld_multi"
    Sizes,          \* bytes an access unit can take
    StaticBits,     \* bits of a frame that the grant leaves out
    FrameBound      \* frames analysed in a run

ASSUME SizesAreBytes == Sizes \subseteq Nat /\ StaticBits \in Nat

VARIABLES
    config,
    reservoir,
    window,         \* sequence of AacLcBlockSwitcher, or window_shape
    correction,     \* LowDelayPeCorrection: frames of pe_last and
                    \* dynamic_bits_last
    header,         \* sbr_header_written
    envelope,       \* the frame of LowDelaySbrCodingState
    analysed,       \* frames analysed
    frames,         \* access units returned
    outcome         \* of the last call

rate == <<reservoir, correction>>
vars == <<config, rate, window, header, envelope, analysed, frames, outcome>>

Config ==
    {c \in [kind : Kinds, sbr : BOOLEAN, vbr : BOOLEAN] :
        /\ c.kind = "he" => c.sbr
        /\ c.kind \in {"lc", "ld"} => ~c.sbr}

LowDelay == config.kind \in {"ld", "eld", "eld_multi"}
Fills == LowDelay /\ ~config.vbr

Sequences == {"OnlyLong", "LongStart", "EightShort", "LongStop"}
Shapes == {"Sine", "LowOverlap"}

Init ==
    /\ config \in Config
    /\ \E nominal \in Nominals, capacity \in Capacities :
          reservoir = IF LowDelay THEN FullReservoir(nominal, capacity)
                      ELSE NewReservoir(nominal, capacity)
    /\ window = IF LowDelay THEN "Sine" ELSE "OnlyLong"
    /\ correction = [pe |-> 0, bits |-> 0]
    /\ header = FALSE
    /\ envelope = 0
    /\ analysed = 0
    /\ frames = <<>>
    /\ outcome = "none"

-----------------------------------------------------------------------------
(* Analysis *)

(* Mutant of Switched: an attack in a start window starts again. *)
SwitchedAgain(sequence, attack) ==
    IF attack
    THEN IF sequence = "EightShort" THEN "EightShort" ELSE "LongStart"
    ELSE CASE sequence = "LongStart" -> "EightShort"
           [] sequence = "EightShort" -> "LongStop"
           [] OTHER -> "OnlyLong"

Switched(sequence, attack) ==
    CASE sequence = "LongStart" -> "EightShort"
      [] sequence = "EightShort" -> IF attack THEN "EightShort" ELSE "LongStop"
      [] OTHER -> IF attack THEN "LongStart" ELSE "OnlyLong"

Shaped(attack) == IF attack THEN "LowOverlap" ELSE "Sine"

Analyse(attack) ==
    /\ analysed < FrameBound
    /\ analysed' = analysed + 1
    /\ window' = CASE ~LowDelay -> Switched(window, attack)
                   [] config.kind = "ld" -> Shaped(attack)
                   [] OTHER -> window
    /\ UNCHANGED config

(* The envelopes become the reference before the frame can be refused. *)
PrepareSbr ==
    envelope' = IF LowDelay /\ config.sbr THEN analysed' ELSE envelope

(* A header forces the first envelope to be coded over frequency. *)
References ==
    {0} \cup (IF LowDelay /\ config.sbr /\ header THEN {envelope} ELSE {})

-----------------------------------------------------------------------------
(* Rate control *)

UsesCorrection == config.kind \in {"ld", "eld"}

(* Mutant of Grants: the static bits are granted on top of the rest. *)
GrantsOnTop ==
    IF Fills /\ UsesCorrection
    THEN {StaticBits + n : n \in 0..Available(reservoir)}
    ELSE {Available(reservoir)}

(* Dynamic bits are granted from what is available. *)
Grants ==
    IF Fills /\ UsesCorrection
    THEN {StaticBits + n : n \in 0..Larger(Available(reservoir) - StaticBits, 0)}
    ELSE {Available(reservoir)}

(* Thresholds are relaxed until the whole access unit fits the grant; the  *)
(* smallest is returned if none does.                                      *)
Fitted(wanted, least, grant) ==
    IF 8 * wanted <= grant THEN {wanted}
    ELSE IF 8 * least > grant THEN {least}
    ELSE {size \in Sizes : least <= size /\ 8 * size <= grant}

(* Mutant of Granted: the bits of an older frame are kept. *)
GrantedOnly(c) == IF Fills /\ UsesCorrection THEN [c EXCEPT !.pe = analysed'] ELSE c

Granted(c) ==
    IF Fills /\ UsesCorrection THEN [pe |-> analysed', bits |-> 0] ELSE c

Quantized(c) ==
    IF UsesCorrection THEN [Granted(c) EXCEPT !.bits = analysed'] ELSE c

Coded(bytes) == IF Fills THEN Filled(reservoir, bytes) ELSE bytes

-----------------------------------------------------------------------------
(* Outcomes *)

Total(i) == IF i = 0 THEN 0 ELSE frames[i].total

Send(bytes, reference) ==
    /\ frames' = Append(frames,
                    [id |-> analysed', window |-> window',
                     headed |-> config.sbr /\ ~header, reference |-> reference,
                     total |-> Total(Len(frames)) + 8 * bytes])
    /\ header' = config.sbr
    /\ outcome' = "sent"

(* Mutant of Refuse: the header counts as written before it is. *)
RefuseMarked(what) ==
    /\ outcome' = what
    /\ header' = config.sbr
    /\ UNCHANGED <<reservoir, frames>>

Refuse(what) ==
    /\ outcome' = what
    /\ UNCHANGED <<reservoir, header, frames>>

EncodeLc(attack, bytes) ==
    /\ ~LowDelay
    /\ Analyse(attack)
    /\ IF config.vbr THEN UNCHANGED reservoir
       ELSE /\ Accepts(reservoir, bytes)
            /\ reservoir' = Committed(reservoir, bytes)
    /\ Send(bytes, 0)
    /\ UNCHANGED <<correction, envelope>>

(* The switcher has moved when the reservoir refuses the frame. *)
RefuseLc(attack, bytes) ==
    /\ ~LowDelay /\ ~config.vbr
    /\ Analyse(attack)
    /\ ~Accepts(reservoir, bytes)
    /\ Refuse("too large")
    /\ UNCHANGED <<correction, envelope>>

FailLc(attack) ==
    /\ ~LowDelay
    /\ Analyse(attack)
    /\ Refuse("failed")
    /\ UNCHANGED <<correction, envelope>>

EncodeLowDelay(attack, wanted, least) ==
    /\ LowDelay /\ least <= wanted
    /\ Analyse(attack)
    /\ PrepareSbr
    /\ correction' = Quantized(correction)
    /\ \E grant \in Grants, reference \in References :
          \E bytes \in Fitted(wanted, least, grant) :
             /\ Accepts(reservoir, Coded(bytes))
             /\ reservoir' = Committed(reservoir, Coded(bytes))
             /\ Send(Coded(bytes), reference)

RefuseLowDelay(attack, wanted, least) ==
    /\ LowDelay /\ least <= wanted
    /\ Analyse(attack)
    /\ PrepareSbr
    /\ correction' = Quantized(correction)
    /\ \E grant \in Grants :
          \E bytes \in Fitted(wanted, least, grant) :
             ~Accepts(reservoir, Coded(bytes))
    /\ Refuse(IF Accepts(reservoir, least) THEN "needless" ELSE "too large")

(* The access unit cannot be written. *)
FailLowDelay(attack) ==
    /\ LowDelay
    /\ Analyse(attack)
    /\ PrepareSbr
    /\ correction' = Granted(correction)
    /\ Refuse("failed")

(* A sample that is not finite, found behind the analysis. *)
RefuseSpectrum(attack) ==
    /\ config.kind \in {"ld", "eld"}
    /\ Analyse(attack)
    /\ PrepareSbr
    /\ Refuse("failed")
    /\ UNCHANGED correction

(* A wrong length, or a sample that is not finite, found before. *)
RefuseInput == UNCHANGED vars

Next ==
    \/ RefuseInput
    \/ \E attack \in BOOLEAN :
          \/ FailLc(attack)
          \/ FailLowDelay(attack)
          \/ RefuseSpectrum(attack)
          \/ \E bytes \in Sizes :
                \/ EncodeLc(attack, bytes)
                \/ RefuseLc(attack, bytes)
          \/ \E wanted, least \in Sizes :
                \/ EncodeLowDelay(attack, wanted, least)
                \/ RefuseLowDelay(attack, wanted, least)

Spec == Init /\ [][Next]_vars

-----------------------------------------------------------------------------
Frame ==
    [id : Nat, window : Sequences \cup Shapes, headed : BOOLEAN,
     reference : Nat, total : Nat]

TypeOK ==
    /\ config \in Config
    /\ reservoir \in Reservoir
    /\ reservoir.fullness <= reservoir.capacity
    /\ window \in Sequences \cup Shapes
    /\ correction \in [pe : Nat, bits : Nat]
    /\ header \in BOOLEAN
    /\ envelope \in Nat
    /\ analysed \in Nat
    /\ frames \in Seq(Frame)
    /\ outcome \in {"none", "sent", "failed", "too large", "needless"}

(* The decoder's buffer does not run empty: over every stretch of frames   *)
(* the encoder spends no more than the nominal rate and one reservoir, and *)
(* frames refused inside it make no difference.                            *)
RateIsKept ==
    LowDelay \/ ~config.vbr =>
        \A j \in 0..Len(frames) : \A i \in 0..j :
            Total(j) - Total(i)
                <= (j - i) * reservoir.nominal + reservoir.capacity

(* The decoder's buffer does not run over: where the encoder fills, no     *)
(* stretch of frames is more than one reservoir behind the nominal rate.   *)
RateIsFilled ==
    Fills =>
        \A j \in 0..Len(frames) : \A i \in 0..j :
            Total(j) - Total(i)
                >= (j - i) * reservoir.nominal - reservoir.capacity

(* A frame of a low-delay encoder that fits what is available is refused   *)
(* only where no frame could have been sent, because the fill that keeps   *)
(* the reservoir from overflowing, rounded up to bytes, is more than what  *)
(* is available, or because the bits granted for side information alone    *)
(* are.  Nothing else in the rate control or the fill makes a frame too    *)
(* large.                                                                  *)
RefusalIsNeeded ==
    outcome = "needless" =>
        \/ 8 * Filled(reservoir, 0) > Available(reservoir)
        \/ StaticBits > Available(reservoir)

Follows(next, sequence) ==
    next \in (CASE sequence = "OnlyLong" -> {"OnlyLong", "LongStart"}
                [] sequence = "LongStart" -> {"EightShort"}
                [] sequence = "EightShort" -> {"EightShort", "LongStop"}
                [] sequence = "LongStop" -> {"OnlyLong", "LongStart"})

(* Between two frames the windows change their shape together: sequences   *)
(* follow each other as the overlap demands, unless a frame was refused    *)
(* between them, whose sequence the switcher has passed.                   *)
WindowsOverlap ==
    ~LowDelay =>
        \A i \in 1..Len(frames) - 1 :
            frames[i + 1].id = frames[i].id + 1
                => Follows(frames[i + 1].window, frames[i].window)

(* A stream starts with a frame that has the SBR header and refers to no   *)
(* other, whatever was refused before it.                                  *)
StreamStandsAlone ==
    config.sbr /\ frames # <<>> =>
        frames[1].headed /\ frames[1].reference = 0

(* The correction compares the bits of a frame with the entropy granted to *)
(* the same frame, also when frames fail between grant and quantizer.      *)
CorrectionIsOfOneFrame ==
    Fills /\ correction.bits # 0 => correction.bits = correction.pe
=============================================================================
