------------------------ MODULE EncoderTransportProofs ------------------------
(***************************************************************************)
(* Proofs about the LATM multiplex, on its own in LatmChannel and in the   *)
(* transport of the encoder, for all settings, periods, widths of the      *)
(* counter, numbers of sub-frames, sizes and limits.  The two share the    *)
(* operators of LatmMux, and the lemmas about a step of the writer and the *)
(* reader.                                                                 *)
(***************************************************************************)
EXTENDS EncoderTransport, TLAPS

CONSTANTS
    ElementFrames,  \* subframe_count of a LatmWriter on its own
    Payloads        \* numbers of payloads an application may pass to it

Latm == INSTANCE LatmChannel WITH Subframes <- ElementFrames

-----------------------------------------------------------------------------
(* What the operators of LatmMux return, for all settings and widths.      *)
LEMMA WriterFields ==
    ASSUME NEW w \in Writer
    PROVE  /\ w.layout \in Layouts /\ w.written \in BOOLEAN
           /\ w.period \in Nat /\ w.period <= U8Max
           /\ w.since \in Nat /\ w.since <= U8Max
           /\ U8Max \in Nat /\ U8Max >= 1
  BY U8MaxIsPositive DEF Writer

(* The counter of a writer whose element is written. *)
LEMMA WrittenCounts ==
    ASSUME NEW w \in Writer,
           w.written => /\ w.since >= 1
                        /\ w.period # 0 => w.since <= w.period
    PROVE  /\ Written(w) \in Writer
           /\ Written(w).layout = w.layout /\ Written(w).period = w.period
           /\ Written(w).written = TRUE
           /\ Written(w).since >= 1
           /\ w.period # 0 => Written(w).since <= w.period
           /\ Repeats(w) => Written(w).since = 1
           /\ ~Repeats(w) /\ w.period # 0 =>
                 Written(w).since = w.since + 1 /\ w.since < w.period
  <1>1. PICK n \in Nat : n = SaturatingInc(IF Repeats(w) THEN 0 ELSE w.since)
    BY WriterFields DEF SaturatingInc
  <1>2. /\ n >= 1 /\ n <= U8Max
        /\ Repeats(w) => n = 1
        /\ ~Repeats(w) /\ w.period # 0 => n = w.since + 1 /\ w.since < w.period
        /\ w.period # 0 => n <= w.period
    BY <1>1, WriterFields DEF SaturatingInc, Repeats
  <1>3. Written(w) = [w EXCEPT !.written = TRUE, !.since = n]
    BY <1>1 DEF Written, Writer
  <1>4. n \in 0..U8Max
    BY <1>2, WriterFields
  <1>5. /\ Written(w).layout = w.layout /\ Written(w).period = w.period
        /\ Written(w).written = TRUE /\ Written(w).since = n
    BY <1>3 DEF Writer
  <1>6. Written(w) \in Writer
    BY <1>3, <1>4 DEF Writer
  <1> QED
    BY ONLY <1>2, <1>5, <1>6

(* What the reader knows after an element. *)
LEMMA ReaderLearns ==
    ASSUME NEW w \in Writer, NEW m \in Layouts \cup {NoMux}
    PROVE  /\ MuxAfter(m, Element(w)) = IF Repeats(w) THEN w.layout ELSE m
           /\ MuxAfter(m, Element(w)) \in Layouts \cup {NoMux}
           /\ Outcome(m, Element(w)) \in {"read", "refused", "misread"}
           /\ Outcome(m, Element(w)) = "read"
                 <=> (Repeats(w) \/ m = w.layout)
  BY NoLayout, WriterFields DEF MuxAfter, Element, Outcome

(* The debt of a writer with a count in its period. *)
LEMMA DebtIsBounded ==
    ASSUME NEW w \in Writer, NEW m,
           w.written => /\ w.since >= 1
                        /\ w.period # 0 => w.since <= w.period
    PROVE  Owed(w, m) \in IF w.period = 0 THEN {0, -1} ELSE 0..(w.period - 1)
  BY WriterFields DEF Owed, Forever

(* An element that arrives is read, and nothing is owed, or is one of      *)
(* those that were owed.                                                   *)
LEMMA DeliveryPays ==
    ASSUME NEW w \in Writer, NEW m \in Layouts \cup {NoMux},
           w.written => /\ w.since >= 1
                        /\ w.period # 0 => w.since <= w.period,
           NEW n, n = MuxAfter(m, Element(w)),
           NEW heard, heard = Outcome(m, Element(w))
    PROVE  \/ /\ heard = "read"
              /\ Owed(Written(w), n) = 0
           \/ /\ heard \in {"refused", "misread"}
              /\ Owed(w, m) # 0
              /\ Owed(Written(w), n) =
                    IF Owed(w, m) > 0 THEN Owed(w, m) - 1 ELSE Owed(w, m)
  <1>1. /\ n = IF Repeats(w) THEN w.layout ELSE m
        /\ heard \in {"read", "refused", "misread"}
        /\ heard = "read" <=> (Repeats(w) \/ m = w.layout)
    BY ReaderLearns
  <1>2. /\ Written(w).period = w.period /\ Written(w).layout = w.layout
        /\ Written(w).written = TRUE
    BY WrittenCounts
  <1>3. CASE heard = "read"
    <2>1. n = w.layout
      BY <1>1, <1>3
    <2> QED
      BY <1>2, <1>3, <2>1 DEF Owed
  <1>4. CASE heard # "read"
    <2>1. ~Repeats(w) /\ m # w.layout /\ n = m
      BY <1>1, <1>4
    <2>2. w.written = TRUE
      BY <2>1, WriterFields DEF Repeats
    <2>3. CASE w.period = 0
      <3>1. Owed(w, m) = -1 /\ Owed(Written(w), n) = -1
        BY <1>2, <2>1, <2>2, <2>3 DEF Owed, Forever
      <3> QED
        BY <1>1, <1>4, <3>1
    <2>4. CASE w.period # 0
      <3>1. Written(w).since = w.since + 1 /\ w.since < w.period
        BY <2>1, <2>4, WrittenCounts
      <3>2. /\ Owed(w, m) = w.period - w.since
            /\ Owed(Written(w), n) = w.period - (w.since + 1)
        BY <1>2, <2>1, <2>2, <2>4, <3>1 DEF Owed
      <3>3. /\ Owed(w, m) > 0 /\ Owed(w, m) # 0
            /\ Owed(Written(w), n) = Owed(w, m) - 1
        BY <3>1, <3>2, WriterFields
      <3> QED
        BY <1>1, <1>4, <3>3
    <2> QED
      BY <2>3, <2>4
  <1> QED
    BY <1>3, <1>4

LEMMA SettersType ==
    ASSUME NEW w \in Writer
    PROVE  /\ \A x \in Checks : WithCheck(w, x) \in Writer
           /\ \A x \in OtherBits : WithOther(w, x) \in Writer
           /\ \A x \in Lengths : WithLength(w, x) \in Writer
  BY DEF Writer, Layouts, WithCheck, WithOther, WithLength

(* A setter either changes the layout and makes the configuration due, or  *)
(* changes nothing at all.                                                 *)
LEMMA SettersRenew ==
    ASSUME NEW w \in Writer, NEW v,
           \/ \E x \in Checks : v = WithCheck(w, x)
           \/ \E x \in OtherBits : v = WithOther(w, x)
           \/ \E x \in Lengths : v = WithLength(w, x)
    PROVE  /\ v \in Writer /\ v.period = w.period /\ v.since = w.since
           /\ \/ v.written = FALSE
              \/ v.layout = w.layout /\ v.written = w.written
  <1>1. v \in Writer
    BY SettersType
  <1>2. v.period = w.period /\ v.since = w.since
    BY DEF Writer, WithCheck, WithOther, WithLength
  <1>3. CASE \E x \in Checks : v = WithCheck(w, x)
    <2>1. PICK x \in Checks : v = WithCheck(w, x)
      BY <1>3
    <2>2. /\ v.layout = [w.layout EXCEPT !.crc = x]
          /\ v.written = (w.written /\ w.layout.crc = x)
      BY <2>1 DEF Writer, WithCheck
    <2>3. w.layout.crc = x => v.layout = w.layout
      BY <2>2, WriterFields DEF Layouts
    <2>4. v.written \in BOOLEAN /\ w.written \in BOOLEAN
      BY <1>1, WriterFields
    <2> QED
      BY <1>1, <1>2, <2>2, <2>3, <2>4
  <1>4. CASE \E x \in OtherBits : v = WithOther(w, x)
    <2>1. PICK x \in OtherBits : v = WithOther(w, x)
      BY <1>4
    <2>2. /\ v.layout = [w.layout EXCEPT !.other = x]
          /\ v.written = (w.written /\ w.layout.other = x)
      BY <2>1 DEF Writer, WithOther
    <2>3. w.layout.other = x => v.layout = w.layout
      BY <2>2, WriterFields DEF Layouts
    <2>4. v.written \in BOOLEAN /\ w.written \in BOOLEAN
      BY <1>1, WriterFields
    <2> QED
      BY <1>1, <1>2, <2>2, <2>3, <2>4
  <1>5. CASE \E x \in Lengths : v = WithLength(w, x)
    <2>1. PICK x \in Lengths : v = WithLength(w, x)
      BY <1>5
    <2>2. /\ v.layout = [w.layout EXCEPT !.fixed = x]
          /\ v.written = (w.written /\ w.layout.fixed = x)
      BY <2>1 DEF Writer, WithLength
    <2>3. w.layout.fixed = x => v.layout = w.layout
      BY <2>2, WriterFields DEF Layouts
    <2>4. v.written \in BOOLEAN /\ w.written \in BOOLEAN
      BY <1>1, WriterFields
    <2> QED
      BY <1>1, <1>2, <2>2, <2>3, <2>4
  <1> QED
    BY <1>3, <1>4, <1>5

-----------------------------------------------------------------------------
(* What writer and reader do to the channel *)

(* The channel of LatmChannel, over the operators of this module. *)
Heard ==
    CASE outcome \in {"refused", "misread"} -> "missed"
      [] outcome = "read" -> "read"
      [] outcome = "lost" -> "nothing"

Channel == INSTANCE MuxChannel WITH
    period <- writer.period, owed <- Owed(writer, mux), heard <- Heard

(* While a configuration counts as sent, the elements since then are one   *)
(* at least and never more than the period.                                *)
CountIsInPeriod ==
    writer.written =>
        /\ writer.since >= 1
        /\ writer.period # 0 => writer.since <= writer.period

MuxTypeOK ==
    /\ writer \in Writer
    /\ mux \in Layouts \cup {NoMux}
    /\ outcome \in {"lost", "read", "refused", "misread"}

MuxInv == MuxTypeOK /\ CountIsInPeriod

(* An element is written, and read or lost. *)
Delivered ==
    /\ writer' = Written(writer)
    /\ mux' = MuxAfter(mux, Element(writer))
    /\ outcome' = Outcome(mux, Element(writer))
Lost == writer' = Written(writer) /\ mux' = mux /\ outcome' = "lost"

(* A setting is turned, to the value it has or to another one. *)
Turned ==
    /\ \/ \E x \in Checks : writer' = WithCheck(writer, x)
       \/ \E x \in OtherBits : writer' = WithOther(writer, x)
       \/ \E x \in Lengths : writer' = WithLength(writer, x)
    /\ UNCHANGED <<mux, outcome>>

LEMMA DeliveryHolds == MuxInv /\ (Delivered \/ Lost) => MuxInv'
  <1> SUFFICES ASSUME MuxInv, Delivered \/ Lost
               PROVE  MuxInv'
    OBVIOUS
  <1>1. writer \in Writer /\ mux \in Layouts \cup {NoMux}
    BY DEF MuxInv, MuxTypeOK
  <1>2. writer' = Written(writer)
    BY DEF Delivered, Lost
  <1>3. writer' \in Writer /\ CountIsInPeriod'
    BY <1>1, <1>2, WrittenCounts DEF MuxInv, CountIsInPeriod
  <1>4. /\ mux' \in Layouts \cup {NoMux}
        /\ outcome' \in {"lost", "read", "refused", "misread"}
    BY <1>1, ReaderLearns DEF Delivered, Lost
  <1> QED
    BY <1>3, <1>4 DEF MuxInv, MuxTypeOK

LEMMA TurnedHolds == MuxInv /\ Turned => MuxInv'
  <1> SUFFICES ASSUME MuxInv, Turned
               PROVE  MuxInv'
    OBVIOUS
  <1>1. writer \in Writer
    BY DEF MuxInv, MuxTypeOK
  <1>2. /\ writer' \in Writer /\ writer'.period = writer.period
        /\ writer'.since = writer.since
        /\ \/ writer'.written = FALSE
           \/ writer'.written = writer.written
    BY <1>1, SettersRenew DEF Turned
  <1> QED
    BY <1>2 DEF Turned, MuxInv, MuxTypeOK, CountIsInPeriod

(* An element that is put into the channel and read there is a Read or a   *)
(* Miss.                                                                   *)
LEMMA DeliveredRefines == MuxInv /\ Delivered => Channel!Next
  <1> SUFFICES ASSUME MuxInv, Delivered
               PROVE  Channel!Next
    OBVIOUS
  <1>1. /\ writer \in Writer /\ mux \in Layouts \cup {NoMux}
        /\ CountIsInPeriod
    BY DEF MuxInv, MuxTypeOK
  <1>2. writer'.period = writer.period
    BY <1>1, WrittenCounts DEF Delivered, CountIsInPeriod
  <1>3. Owed(writer, mux)' = Owed(Written(writer), mux')
    BY DEF Delivered, Owed
  <1>4. CASE outcome' = "read" /\ Owed(Written(writer), mux') = 0
    <2>1. Heard' = "read"
      BY <1>4 DEF Heard
    <2> QED
      BY <1>2, <1>3, <1>4, <2>1 DEF Channel!Next, Channel!Read
  <1>5. CASE /\ outcome' \in {"refused", "misread"}
             /\ Owed(writer, mux) # 0
             /\ Owed(Written(writer), mux') =
                   IF Owed(writer, mux) > 0 THEN Owed(writer, mux) - 1
                   ELSE Owed(writer, mux)
    <2>1. Heard' = "missed"
      BY <1>5 DEF Heard
    <2> QED
      BY <1>2, <1>3, <1>5, <2>1 DEF Channel!Next, Channel!Miss
  <1> QED
    BY <1>1, <1>4, <1>5, DeliveryPays DEF Delivered, CountIsInPeriod

(* One that the channel loses is a Lose: the writer has counted it. *)
LEMMA LostRefines == MuxInv /\ Lost => Channel!Next
  <1> SUFFICES ASSUME MuxInv, Lost
               PROVE  Channel!Next
    OBVIOUS
  <1>1. writer \in Writer /\ CountIsInPeriod
    BY DEF MuxInv, MuxTypeOK
  <1>2. /\ writer' \in Writer /\ writer'.period = writer.period
        /\ writer'.written =>
              /\ writer'.since >= 1
              /\ writer'.period # 0 => writer'.since <= writer'.period
    BY <1>1, WrittenCounts DEF Lost, CountIsInPeriod
  <1>3. Owed(writer, mux)' = Owed(writer', mux') /\ Heard' = "nothing"
    BY DEF Lost, Owed, Heard
  <1>4. Owed(writer', mux') \in
           IF writer'.period = 0 THEN {0, -1} ELSE 0..(writer'.period - 1)
    BY <1>2, DebtIsBounded
  <1> QED
    BY <1>2, <1>3, <1>4 DEF Channel!Next, Channel!Lose, Channel!Debts

(* A setter that changes something renews the configuration. *)
LEMMA TurnedRefines == MuxInv /\ Turned => [Channel!Next]_Channel!vars
  <1> SUFFICES ASSUME MuxInv, Turned
               PROVE  [Channel!Next]_Channel!vars
    OBVIOUS
  <1>1. writer \in Writer
    BY DEF MuxInv, MuxTypeOK
  <1>2. /\ writer'.period = writer.period /\ writer'.since = writer.since
        /\ \/ writer'.written = FALSE
           \/ /\ writer'.layout = writer.layout
              /\ writer'.written = writer.written
    BY <1>1, SettersRenew DEF Turned
  <1>3. mux' = mux /\ Heard' = Heard
    BY DEF Turned, Heard
  <1>4. CASE writer'.written = FALSE
    <2>1. Owed(writer, mux)' = 0
      BY <1>4 DEF Owed
    <2> QED
      BY <1>2, <1>3, <2>1 DEF Channel!Next, Channel!Renew
  <1>5. CASE writer'.layout = writer.layout /\ writer'.written = writer.written
    <2>1. Owed(writer, mux)' = Owed(writer, mux)
      BY <1>2, <1>3, <1>5 DEF Owed
    <2> QED
      BY <1>2, <1>3, <2>1 DEF Channel!vars
  <1> QED
    BY <1>2, <1>4, <1>5

LEMMA StillRefines ==
    UNCHANGED <<writer, mux, outcome>> => UNCHANGED Channel!vars
  <1> SUFFICES ASSUME UNCHANGED <<writer, mux, outcome>>
               PROVE  UNCHANGED Channel!vars
    OBVIOUS
  <1>1. UNCHANGED <<writer.period, Owed(writer, mux), Heard>>
    BY DEF Owed, Heard
  <1> QED
    BY <1>1 DEF Channel!vars

(* A writer that is new, and a reader that has heard nothing. *)
LEMMA NewMux ==
    ASSUME NEW layout \in Layouts, NEW period \in Periods,
           writer = NewWriter(layout, period), mux = NoMux, outcome = "lost"
    PROVE  MuxInv /\ Channel!Init
  <1>1. /\ writer.period \in Nat /\ writer.written = FALSE
        /\ writer \in Writer
    BY U8MaxIsPositive, PeriodsAreBytes DEF NewWriter, Writer
  <1> QED
    BY <1>1 DEF MuxInv, MuxTypeOK, CountIsInPeriod, Channel!Init, Owed, Heard

-----------------------------------------------------------------------------
(* The multiplex on its own *)

LEMMA LatmInitHolds == Latm!Init => MuxInv /\ Channel!Init
  <1> SUFFICES ASSUME Latm!Init
               PROVE  MuxInv /\ Channel!Init
    OBVIOUS
  <1>1. PICK layout \in Layouts, period \in Periods :
           writer = NewWriter(layout, period)
    BY DEF Latm!Init, Latm!Layouts, Layouts, Latm!NewWriter, NewWriter
  <1> QED
    BY <1>1, NewMux DEF Latm!Init

LEMMA LatmSteps ==
    [Latm!Next]_Latm!vars =>
        Delivered \/ Lost \/ Turned \/ UNCHANGED <<writer, mux, outcome>>
  <1> SUFFICES ASSUME [Latm!Next]_Latm!vars
               PROVE  Delivered \/ Lost \/ Turned
                      \/ UNCHANGED <<writer, mux, outcome>>
    OBVIOUS
  <1>1. CASE Latm!RefusePayloads \/ UNCHANGED Latm!vars
    BY <1>1 DEF Latm!RefusePayloads, Latm!vars
  <1>2. CASE Latm!WriteAndLose
    BY <1>2 DEF Latm!WriteAndLose, Latm!Written, Lost, Written,
                Latm!Repeats, Repeats, Latm!SaturatingInc, SaturatingInc
  <1>3. CASE Latm!WriteAndRead
    BY <1>3
    DEF Latm!WriteAndRead, Delivered, Latm!Written, Written,
        Latm!Repeats, Repeats, Latm!SaturatingInc, SaturatingInc,
        Latm!MuxAfter, MuxAfter, Latm!Element, Element, Latm!Outcome, Outcome
  <1>4. CASE Latm!SetCheck \/ Latm!SetOther \/ Latm!SetLength
    BY <1>4
    DEF Latm!SetCheck, Latm!SetOther, Latm!SetLength, Latm!Set, Turned,
        Latm!WithCheck, WithCheck, Latm!WithOther, WithOther,
        Latm!WithLength, WithLength
  <1> QED
    BY <1>1, <1>2, <1>3, <1>4 DEF Latm!Next

LEMMA LatmStepHolds == MuxInv /\ [Latm!Next]_Latm!vars => MuxInv'
  <1> SUFFICES ASSUME MuxInv, [Latm!Next]_Latm!vars
               PROVE  MuxInv'
    OBVIOUS
  <1>1. CASE UNCHANGED <<writer, mux, outcome>>
    BY <1>1 DEF MuxInv, MuxTypeOK, CountIsInPeriod
  <1> QED
    BY <1>1, LatmSteps, DeliveryHolds, TurnedHolds

LEMMA LatmAlwaysHolds == Latm!Spec => []MuxInv
  BY LatmInitHolds, LatmStepHolds, PTL DEF Latm!Spec

(* Writer, counter and reader keep their types: frames_since_config does   *)
(* not pass the width of its byte.                                         *)
THEOREM LatmTypeCorrect == Latm!Spec => []Latm!TypeOK
  <1>1. MuxInv => Latm!TypeOK
    BY DEF MuxInv, MuxTypeOK, Latm!TypeOK, Latm!Writer, Writer,
           Latm!Layouts, Layouts
  <1> QED
    BY <1>1, LatmAlwaysHolds, PTL

LEMMA LatmStepRefines ==
    MuxInv /\ [Latm!Next]_Latm!vars => [Channel!Next]_Channel!vars
  BY LatmSteps, DeliveredRefines, LostRefines, TurnedRefines, StillRefines

(* It is the channel that LatmChannel names. *)
LEMMA SameChannel ==
    /\ Channel!Init => Latm!Channel!Init
    /\ [Channel!Next]_Channel!vars => [Latm!Channel!Next]_Latm!Channel!vars
  BY DEF Channel!Init, Latm!Channel!Init, Channel!Next, Latm!Channel!Next,
         Channel!vars, Latm!Channel!vars, Channel!Lose, Latm!Channel!Lose,
         Channel!Read, Latm!Channel!Read, Channel!Miss, Latm!Channel!Miss,
         Channel!Renew, Latm!Channel!Renew, Channel!Debts,
         Latm!Channel!Debts, Owed, Latm!Owed, Forever, Latm!Forever,
         Heard, Latm!Heard

(* LatmWriter and the reader of latm.rs implement the channel: an element  *)
(* is unreadable only after a configuration was lost, and fewer than a     *)
(* period of them for each loss.                                           *)
THEOREM LatmRefinement == Latm!Spec => Latm!ImplementsChannel
  <1>1. Latm!Spec => Latm!Channel!Init
                     /\ [][Latm!Channel!Next]_Latm!Channel!vars
    BY LatmInitHolds, LatmStepRefines, LatmAlwaysHolds, SameChannel, PTL
    DEF Latm!Spec
  <1> QED
    BY <1>1 DEF Latm!ImplementsChannel, Latm!Channel!Spec

-----------------------------------------------------------------------------
(* The transport of the encoder.  UnitsAreBlocks is inductive once it is   *)
(* known how many access units were made, and RefusalIsRepaired once it is *)
(* known when the configuration was sent that the reader has not.          *)

(* What was made is in the units or pending. *)
MadeIsCounted == made = Len(units) * config.subframes + Len(pending)

(* A reader that lacks the configuration lacks it since the unit that was  *)
(* refused with it, and the writer has counted the elements since then.    *)
LagsBehindRefusal ==
    writer.written /\ mux # writer.layout =>
        \E k \in 1..Len(units) :
            /\ units[k].fate = "lost"
            /\ writer.period # 0 => Len(units) - k + 1 = writer.since

(* Other multiplexes leave the writer and the reader alone. *)
OnlyLatmIsWritten ==
    config.mux \notin {"latm", "loas"} =>
        ~writer.written /\ outcome = "lost"

IInv == TypeOK /\ UnitsAreBlocks /\ MadeIsCounted /\ CountIsInPeriod

RInv == LagsBehindRefusal /\ OnlyLatmIsWritten /\ RefusalIsRepaired

LEMMA MuxHolds == IInv => MuxInv
  BY DEF IInv, TypeOK, MuxInv, MuxTypeOK

LEMMA SubframesAreNumbers == \A n \in Subframes : n \in Nat /\ n >= 1
  BY SubframesArePositive

LEMMA Facts ==
    ASSUME IInv
    PROVE  /\ config.subframes \in Nat /\ config.subframes >= 1
           /\ Len(units) \in Nat /\ Len(pending) \in Nat
           /\ pending \in Seq(AccessUnit)
           /\ Len(pending) < config.subframes
           /\ made = Len(units) * config.subframes + Len(pending)
  <1>1. config.subframes \in Subframes
    BY DEF IInv, TypeOK, Config
  <1>2. config.subframes \in Nat /\ config.subframes >= 1
    BY <1>1, SubframesAreNumbers
  <1>3. pending \in Seq(AccessUnit) /\ Len(pending) < config.subframes
        /\ Len(units) \in Nat
    BY DEF IInv, TypeOK
  <1>4. Len(pending) \in Nat
    BY <1>3
  <1> QED
    BY <1>2, <1>3, <1>4 DEF IInv, MadeIsCounted

(* The new access unit follows those that are pending. *)
LEMMA WithFollows ==
    ASSUME IInv, NEW size \in Sizes
    PROVE  /\ With(size) \in Seq(AccessUnit)
           /\ Len(With(size)) = Len(pending) + 1
           /\ \A i \in 1..Len(With(size)) :
                 With(size)[i].id = Len(units) * config.subframes + i
  <1> DEFINE au == [id |-> made + 1, size |-> size]
  <1>1. au \in AccessUnit
    BY DEF IInv, TypeOK, AccessUnit
  <1>2. pending \in Seq(AccessUnit) /\ Len(pending) \in Nat
    BY Facts
  <1>3. With(size) = Append(pending, au)
    BY DEF With
  <1> HIDE DEF au
  <1>4. /\ With(size) \in Seq(AccessUnit)
        /\ Len(With(size)) = Len(pending) + 1
        /\ \A i \in 1..Len(pending) : With(size)[i] = pending[i]
        /\ With(size)[Len(pending) + 1] = au
    BY <1>1, <1>2, <1>3
  <1>5. au.id = Len(units) * config.subframes + (Len(pending) + 1)
    <2>1. PICK b \in Int : b = Len(units) * config.subframes
      BY Facts
    <2>2. made = b + Len(pending) /\ au.id = made + 1
      BY <2>1, Facts DEF au
    <2> QED
      BY <1>2, <2>1, <2>2
  <1>6. ASSUME NEW i \in 1..Len(With(size))
        PROVE  With(size)[i].id = Len(units) * config.subframes + i
    <2>1. CASE i \in 1..Len(pending)
      BY <1>4, <2>1 DEF IInv, UnitsAreBlocks
    <2>2. CASE i = Len(pending) + 1
      BY <1>4, <1>5, <2>2
    <2> QED
      BY <1>2, <1>4, <2>1, <2>2
  <1> QED
    BY <1>4, <1>6

-----------------------------------------------------------------------------
LEMMA CollectHolds ==
    ASSUME IInv, NEW size \in Sizes, Collect(size)
    PROVE  IInv'
  <1>1. /\ pending' = With(size) /\ made' = made + 1
        /\ Len(With(size)) < config.subframes
        /\ UNCHANGED <<config, adif, units, writer, mux, outcome>>
    BY DEF Collect, Encoded, reader
  <1>2. TypeOK'
    <2>1. made' \in Nat
      BY <1>1 DEF IInv, TypeOK
    <2>2. pending' \in Seq(AccessUnit) /\ Len(pending') < config'.subframes
      BY <1>1, WithFollows
    <2> QED
      BY <1>1, <2>1, <2>2 DEF IInv, TypeOK
  <1>3. UnitsAreBlocks'
    BY <1>1, WithFollows DEF IInv, UnitsAreBlocks
  <1>4. MadeIsCounted'
    <2>1. PICK b \in Int : b = Len(units) * config.subframes
      BY Facts
    <2>2. made = b + Len(pending) /\ Len(pending') = Len(pending) + 1
      BY <1>1, <2>1, Facts, WithFollows
    <2>3. made' = b + Len(pending')
      <3>1. Len(pending) \in Nat /\ made' = made + 1
        BY <1>1, Facts
      <3> QED
        BY ONLY <2>1, <2>2, <3>1
    <2> QED
      BY <1>1, <2>1, <2>3 DEF MadeIsCounted
  <1>5. CountIsInPeriod'
    BY <1>1 DEF IInv, CountIsInPeriod
  <1> QED
    BY <1>2, <1>3, <1>4, <1>5 DEF IInv

(* A unit is taken, and whatever becomes of it is a fate. *)
LEMMA TakeHolds ==
    ASSUME IInv, NEW size \in Sizes, NEW fate \in {"plain", "headed", "lost"},
           Take(size, fate), adif' \in BOOLEAN,
           writer' \in Writer, CountIsInPeriod',
           mux' \in Layouts \cup {NoMux},
           outcome' \in {"lost", "read", "refused", "misread"}
    PROVE  IInv'
  <1> DEFINE ids == [i \in 1..Len(With(size)) |-> With(size)[i].id]
             unit == [ids |-> ids, fate |-> fate]
  <1>1. /\ pending' = <<>> /\ made' = made + 1 /\ config' = config
        /\ units' = Append(units, unit)
        /\ Len(With(size)) >= config.subframes
    BY DEF Take, Encoded
  <1>2. Len(With(size)) = config.subframes
    BY <1>1, WithFollows, Facts
  <1>3. /\ ids \in Seq(Nat) /\ Len(ids) = config.subframes
        /\ \A i \in 1..config.subframes :
              ids[i] = Len(units) * config.subframes + i
    <2>1. config.subframes \in Nat
      BY Facts
    <2>2. \A i \in 1..Len(With(size)) : With(size)[i].id \in Nat
      <3>1. With(size) \in Seq(AccessUnit)
        BY WithFollows
      <3>2. \A i \in 1..Len(With(size)) : With(size)[i] \in AccessUnit
        BY <3>1
      <3> QED
        BY <3>2 DEF AccessUnit
    <2>3. ids \in [1..config.subframes -> Nat]
      BY <1>2, <2>2
    <2>4. ids \in Seq(Nat) /\ Len(ids) = config.subframes
      <3> HIDE DEF ids
      <3> QED
        BY ONLY <2>1, <2>3
    <2> QED
      BY <1>2, <2>4, WithFollows
  <1> HIDE DEF ids
  <1>4. /\ unit \in [ids : Seq(Nat), fate : {"plain", "headed", "lost"}]
        /\ unit.ids = ids
    BY <1>3
  <1> HIDE DEF unit
  <1>5. /\ units' \in Seq([ids : Seq(Nat), fate : {"plain", "headed", "lost"}])
        /\ Len(units') = Len(units) + 1 /\ Len(units) \in Nat
        /\ \A k \in 1..Len(units) : units'[k] = units[k]
        /\ units'[Len(units) + 1] = unit
    BY <1>1, <1>4 DEF IInv, TypeOK
  <1>6. TypeOK'
    <2>1. pending' \in Seq(AccessUnit)' /\ Len(pending') = 0
      BY <1>1
    <2>2. Len(pending') < config'.subframes
      BY <1>1, <2>1, Facts
    <2> QED
      BY <1>1, <1>5, <2>1, <2>2 DEF IInv, TypeOK
  <1>7. ASSUME NEW k \in 1..Len(units')
        PROVE  /\ Len(units'[k].ids) = config'.subframes
               /\ \A i \in 1..config'.subframes :
                     units'[k].ids[i] = (k - 1) * config'.subframes + i
    <2>1. CASE k \in 1..Len(units)
      BY <1>1, <1>5, <2>1 DEF IInv, UnitsAreBlocks
    <2>2. CASE k = Len(units) + 1
      <3>1. k - 1 = Len(units)
        BY <1>5, <2>2
      <3> QED
        BY <1>1, <1>3, <1>4, <1>5, <2>2, <3>1
    <2> QED
      BY <1>5, <2>1, <2>2
  <1>8. UnitsAreBlocks'
    BY <1>1, <1>7 DEF UnitsAreBlocks
  <1>9. MadeIsCounted'
    <2>1. PICK n \in Nat : n = config.subframes
      BY Facts
    <2>2. PICK l \in Nat : l = Len(units)
      BY Facts
    <2>3. made' = l * n + n
      <3>1. PICK b \in Int : b = l * n
        BY <2>1, <2>2
      <3>2. Len(pending) + 1 = n
        BY <1>2, <2>1, WithFollows
      <3>3. made = b + Len(pending)
        BY <2>1, <2>2, <3>1, Facts
      <3>4. made' = made + 1 /\ Len(pending) \in Nat
        BY <1>1, Facts
      <3>5. PICK q \in Nat : q = Len(pending)
        BY <3>4
      <3>6. made' = b + n
        BY ONLY <3>2, <3>3, <3>4, <3>5
      <3> QED
        BY ONLY <3>1, <3>6
    <2>4. (l + 1) * n = l * n + n
      BY <2>1, <2>2
    <2> QED
      BY <1>1, <1>5, <2>1, <2>2, <2>3, <2>4 DEF MadeIsCounted
  <1> QED
    BY <1>6, <1>8, <1>9 DEF IInv

LEMMA InitHolds == Init => IInv
  <1> SUFFICES ASSUME Init
               PROVE  IInv
    OBVIOUS
  <1>1. writer \in Writer /\ writer.written = FALSE
    BY U8MaxIsPositive, PeriodsAreBytes DEF Init, NewWriter, Writer
  <1>2. /\ units = <<>> /\ pending = <<>> /\ made = 0 /\ config \in Config
        /\ adif = FALSE /\ mux = NoMux /\ outcome = "lost"
    BY DEF Init
  <1>3. config.subframes \in Nat /\ config.subframes >= 1
    <2>1. config.subframes \in Subframes
      BY <1>2 DEF Config
    <2> QED
      BY <2>1, SubframesAreNumbers
  <1>4. Len(units) = 0 /\ Len(pending) = 0
    BY <1>2
  <1>5. TypeOK
    <2>1. /\ pending \in Seq(AccessUnit)
          /\ units \in Seq([ids : Seq(Nat), fate : {"plain", "headed", "lost"}])
      BY <1>2
    <2>2. Len(pending) < config.subframes
      BY <1>3, <1>4
    <2> QED
      BY <1>1, <1>2, <2>1, <2>2 DEF TypeOK
  <1>6. UnitsAreBlocks
    BY <1>4 DEF UnitsAreBlocks
  <1>7. MadeIsCounted
    <2>1. 0 * config.subframes = 0
      BY ONLY <1>3
    <2> QED
      BY <1>2, <1>4, <2>1 DEF MadeIsCounted
  <1> QED
    BY <1>1, <1>5, <1>6, <1>7 DEF IInv, CountIsInPeriod

LEMMA StepHolds == IInv /\ [Next]_vars => IInv'
  <1> SUFFICES ASSUME IInv, [Next]_vars
               PROVE  IInv'
    OBVIOUS
  <1>1. /\ adif \in BOOLEAN /\ writer \in Writer /\ CountIsInPeriod
        /\ mux \in Layouts \cup {NoMux}
        /\ outcome \in {"lost", "read", "refused", "misread"}
    BY DEF IInv, TypeOK
  <1>2. CASE EncodeFails \/ UNCHANGED vars
    BY <1>2 DEF EncodeFails, vars, reader, IInv, TypeOK, UnitsAreBlocks,
                MadeIsCounted, CountIsInPeriod
  <1>3. ASSUME NEW size \in Sizes, Collect(size)
        PROVE  IInv'
    BY <1>3, CollectHolds
  <1>4. ASSUME NEW size \in Sizes,
               \/ WriteRaw(size) \/ WriteAdif(size)
               \/ WriteAdts(size) \/ AdtsFails(size)
        PROVE  IInv'
    <2>1. PICK fate \in {"plain", "headed", "lost"} : Take(size, fate)
      BY <1>4 DEF WriteRaw, WriteAdif, WriteAdts, AdtsFails
    <2>2. adif' \in BOOLEAN /\ UNCHANGED <<writer, mux, outcome>>
      BY <1>1, <1>4 DEF WriteRaw, WriteAdif, WriteAdts, AdtsFails, reader
    <2>3. CountIsInPeriod'
      BY <1>1, <2>2 DEF CountIsInPeriod
    <2> QED
      BY <1>1, <2>1, <2>2, <2>3, TakeHolds
  <1>5. ASSUME NEW size \in Sizes,
               WriteLatm(size) \/ WriteLoas(size) \/ LoasFails(size)
        PROVE  IInv'
    <2>1. PICK fate \in {"plain", "headed", "lost"} : Take(size, fate)
      BY <1>5 DEF WriteLatm, WriteLoas, LoasFails
    <2>2. (Delivered \/ Lost) /\ adif' = adif
      BY <1>5 DEF WriteLatm, WriteLoas, LoasFails, Deliver, Delivered, Lost
    <2>3. MuxInv'
      BY <2>2, MuxHolds, DeliveryHolds
    <2> QED
      BY <1>1, <2>1, <2>2, <2>3, TakeHolds DEF MuxInv, MuxTypeOK
  <1> QED
    BY <1>2, <1>3, <1>4, <1>5 DEF Next

LEMMA AlwaysHolds == Spec => []IInv
  BY InitHolds, StepHolds, PTL DEF Spec

(* The facade's transport state keeps its types, and no more access units  *)
(* wait than make a unit, also after a unit was refused.                   *)
THEOREM TypeCorrect == Spec => []TypeOK
  <1>1. IInv => TypeOK
    BY DEF IInv
  <1> QED
    BY <1>1, AlwaysHolds, PTL

(* encode_transport_f32 cuts what the core encodes into units of           *)
(* transport_subframes, in order, whatever the transport refuses.          *)
THEOREM Blocks == Spec => []UnitsAreBlocks
  <1>1. IInv => UnitsAreBlocks
    BY DEF IInv
  <1> QED
    BY <1>1, AlwaysHolds, PTL

-----------------------------------------------------------------------------
(* Refused elements *)

(* The units there were stay where they are. *)
LEMMA TakeAppends ==
    ASSUME IInv, NEW size \in Sizes, NEW fate \in {"plain", "headed", "lost"},
           Take(size, fate)
    PROVE  /\ Len(units) \in Nat
           /\ Len(units') = Len(units) + 1
           /\ \A k \in 1..Len(units) : units'[k] = units[k]
           /\ units'[Len(units) + 1].fate = fate
           /\ config' = config
  <1> DEFINE ids == [i \in 1..Len(With(size)) |-> With(size)[i].id]
             unit == [ids |-> ids, fate |-> fate]
  <1>1. units' = Append(units, unit) /\ unit.fate = fate /\ config' = config
    BY DEF Take, Encoded
  <1>2. units \in Seq([ids : Seq(Nat), fate : {"plain", "headed", "lost"}])
    BY DEF IInv, TypeOK
  <1> HIDE DEF unit
  <1> QED
    BY <1>1, <1>2

(* What a refusal before the last unit is, it is before the next one. *)
LEMMA DeliverRepairs ==
    ASSUME IInv, RInv, NEW size \in Sizes,
           Take(size, "plain"), Deliver, config.mux \in {"latm", "loas"}
    PROVE  RInv'
  <1>1. /\ writer \in Writer /\ mux \in Layouts \cup {NoMux}
        /\ writer' = Written(writer)
        /\ mux' = MuxAfter(mux, Element(writer))
        /\ outcome' = Outcome(mux, Element(writer))
    BY DEF IInv, TypeOK, Deliver
  <1>2. /\ Len(units) \in Nat /\ Len(units') = Len(units) + 1
        /\ \A k \in 1..Len(units) : units'[k] = units[k]
        /\ config' = config
    BY TakeAppends
  <1>3. /\ writer'.layout = writer.layout /\ writer'.period = writer.period
        /\ writer'.written = TRUE
        /\ writer.period # 0 => writer'.since <= writer.period
        /\ ~Repeats(writer) /\ writer.period # 0 =>
              writer'.since = writer.since + 1 /\ writer.since < writer.period
    BY <1>1, WrittenCounts DEF IInv, CountIsInPeriod
  <1>4. OnlyLatmIsWritten'
    BY <1>2 DEF OnlyLatmIsWritten
  <1>5. CASE Repeats(writer) \/ mux = writer.layout
    <2>1. mux' = writer'.layout /\ outcome' = "read"
      BY <1>1, <1>3, <1>5, ReaderLearns
    <2> QED
      BY <1>4, <2>1 DEF RInv, LagsBehindRefusal, RefusalIsRepaired, Unread
  <1>6. CASE ~Repeats(writer) /\ mux # writer.layout
    <2>1. writer.written
      BY <1>6 DEF Repeats
    <2>2. PICK k \in 1..Len(units) :
             /\ units[k].fate = "lost"
             /\ writer.period # 0 => Len(units) - k + 1 = writer.since
      BY <1>6, <2>1 DEF RInv, LagsBehindRefusal
    <2>3. /\ k \in 1..Len(units') /\ k \in 1..(Len(units') - 1)
          /\ units'[k].fate = "lost"
      BY <1>2, <2>2
    <2>4. writer'.period # 0 => /\ Len(units') - k + 1 = writer'.since
                                /\ Len(units') - k < writer'.period
      <3>1. SUFFICES ASSUME writer.period # 0
                     PROVE  /\ Len(units') - k + 1 = writer'.since
                            /\ Len(units') - k < writer.period
        BY <1>3
      <3>2. writer.since \in Nat /\ writer.period \in Nat
        BY <1>1, WriterFields
      <3> QED
        BY <1>2, <1>3, <1>6, <2>2, <3>1, <3>2
    <2>5. LagsBehindRefusal'
      BY <2>3, <2>4 DEF LagsBehindRefusal
    <2>6. RefusalIsRepaired'
      BY <2>3, <2>4 DEF RefusalIsRepaired
    <2> QED
      BY <1>4, <2>5, <2>6 DEF RInv
  <1> QED
    BY <1>5, <1>6

(* The element that LOAS refuses has the configuration, or comes after one *)
(* that was refused with it.                                               *)
LEMMA RefusalRepairs ==
    ASSUME IInv, RInv, NEW size \in Sizes, LoasFails(size)
    PROVE  RInv'
  <1>1. /\ writer \in Writer /\ writer' = Written(writer)
        /\ mux' = mux /\ outcome' = "lost" /\ Take(size, "lost")
        /\ config.mux = "loas"
    BY DEF IInv, TypeOK, LoasFails
  <1>2. /\ Len(units) \in Nat /\ Len(units') = Len(units) + 1
        /\ \A k \in 1..Len(units) : units'[k] = units[k]
        /\ units'[Len(units) + 1].fate = "lost"
        /\ config' = config
    BY <1>1, TakeAppends
  <1>3. /\ writer'.layout = writer.layout /\ writer'.period = writer.period
        /\ Repeats(writer) => writer'.since = 1
        /\ ~Repeats(writer) /\ writer.period # 0 =>
              writer'.since = writer.since + 1
    BY <1>1, WrittenCounts DEF IInv, CountIsInPeriod
  <1>4. OnlyLatmIsWritten' /\ RefusalIsRepaired'
    BY <1>1, <1>2 DEF OnlyLatmIsWritten, RefusalIsRepaired, Unread
  <1>5. ASSUME mux # writer.layout
        PROVE  \E k \in 1..Len(units') :
                  /\ units'[k].fate = "lost"
                  /\ writer'.period # 0 => Len(units') - k + 1 = writer'.since
    <2>1. CASE Repeats(writer)
      <3>1. Len(units') \in 1..Len(units') /\ Len(units') - Len(units') + 1 = 1
        BY <1>2
      <3> QED
        BY <1>2, <1>3, <2>1, <3>1
    <2>2. CASE ~Repeats(writer)
      <3>1. PICK k \in 1..Len(units) :
               /\ units[k].fate = "lost"
               /\ writer.period # 0 => Len(units) - k + 1 = writer.since
        BY <1>5, <2>2 DEF RInv, LagsBehindRefusal, Repeats
      <3>2. k \in 1..Len(units') /\ units'[k].fate = "lost"
        BY <1>2, <3>1
      <3>3. writer.period # 0 => Len(units') - k + 1 = writer'.since
        BY <1>2, <1>3, <2>2, <3>1
      <3> QED
        BY <1>3, <3>2, <3>3
    <2> QED
      BY <2>1, <2>2
  <1>6. LagsBehindRefusal'
    BY <1>1, <1>3, <1>5 DEF LagsBehindRefusal
  <1> QED
    BY <1>4, <1>6 DEF RInv

LEMMA RepairStep == IInv /\ RInv /\ [Next]_vars => RInv'
  <1> SUFFICES ASSUME IInv, RInv, [Next]_vars
               PROVE  RInv'
    OBVIOUS
  <1>1. ASSUME UNCHANGED <<config, units, writer, mux, outcome>>
        PROVE  RInv'
    BY <1>1 DEF RInv, LagsBehindRefusal, OnlyLatmIsWritten,
                RefusalIsRepaired, Unread
  <1>2. CASE EncodeFails \/ UNCHANGED vars
    BY <1>1, <1>2 DEF EncodeFails, vars, reader
  <1>3. ASSUME NEW size \in Sizes, Collect(size)
        PROVE  RInv'
    BY <1>1, <1>3 DEF Collect, Encoded, reader
  <1>4. ASSUME NEW size \in Sizes,
               \/ WriteRaw(size) \/ WriteAdif(size)
               \/ WriteAdts(size) \/ AdtsFails(size)
        PROVE  RInv'
    <2>1. /\ UNCHANGED <<config, writer, mux, outcome>>
          /\ config.mux \notin {"latm", "loas"}
      BY <1>4 DEF WriteRaw, WriteAdif, WriteAdts, AdtsFails, Take, Encoded,
                  reader
    <2> QED
      BY <2>1 DEF RInv, LagsBehindRefusal, OnlyLatmIsWritten,
                  RefusalIsRepaired, Unread
  <1>5. ASSUME NEW size \in Sizes, WriteLatm(size) \/ WriteLoas(size)
        PROVE  RInv'
    BY <1>5, DeliverRepairs DEF WriteLatm, WriteLoas
  <1>6. ASSUME NEW size \in Sizes, LoasFails(size)
        PROVE  RInv'
    BY <1>6, RefusalRepairs
  <1> QED
    BY <1>2, <1>3, <1>4, <1>5, <1>6 DEF Next

(* Over a link that loses nothing an element is unreadable only behind a   *)
(* unit that LOAS refused, and fewer than a period of them: the writer     *)
(* holds the refused configuration as sent, and repeats it when it is due. *)
THEOREM RefusalsAreRepaired == Spec => []RefusalIsRepaired
  <1>1. Init => RInv
    BY DEF Init, NewWriter, RInv, LagsBehindRefusal, OnlyLatmIsWritten,
           RefusalIsRepaired, Unread
  <1>2. RInv => RefusalIsRepaired
    BY DEF RInv
  <1> QED
    BY <1>1, <1>2, RepairStep, AlwaysHolds, PTL DEF Spec
=============================================================================
