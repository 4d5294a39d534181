---------------------------- MODULE TransportProofs ---------------------------
(***************************************************************************)
(* Proofs about TransportDecoder and about the observer of TransportAudit, *)
(* for all configurations, contents, damages, bounds and formats.          *)
(*                                                                         *)
(* The calls are functions of the value of the facade, so the lemmas are   *)
(* about those functions: each keeps the type Facades and says what it     *)
(* does to the waiting losses, the delay and the references.  Paths holds  *)
(* the same facts about one concealment path as ConcealmentProofs, which   *)
(* cannot be extended here: it has the variables of Concealment.           *)
(***************************************************************************)
EXTENDS TransportAudit, TLAPS

-----------------------------------------------------------------------------
(* Paths *)

LEMMA SaturatingType ==
    /\ \A n \in 0..UsizeMax : /\ SaturatingInc(n) \in 0..UsizeMax
                              /\ SaturatingInc(n) # 0
    /\ \A m \in 0..U64Max, n \in Nat : SaturatingAdd(m, n) \in 0..U64Max
  BY UsizeAssumption, CounterAssumption
  DEF SaturatingInc, SaturatingAdd, LeastOf

LEMMA ConcealedPathType ==
    ASSUME NEW p \in Path, NEW mute \in BOOLEAN
    PROVE  /\ ConcealedPath(p, mute) \in Path
           /\ ConcealedPath(p, mute).ref = p.ref
           /\ InterpolatedPath(p) \in Path
           /\ InterpolatedPath(p).ref = p.ref
           /\ ConcealedLevel(p, mute) \in 0..Silent
  <1>1. LossState(p.losses, mute) \in States /\ "Single" \in States
    BY DEF LossState, States
  <1>2. SaturatingInc(p.losses) \in 0..UsizeMax /\ 0 \in 0..UsizeMax
    BY SaturatingType, UsizeAssumption DEF Path
  <1>3. ConcealedLevel(p, mute) \in 0..Silent
    BY UsizeAssumption
    DEF Path, ConcealedLevel, LossLevel, FadeOutLosses, Silent
  <1>4. ConcealingPath(p, mute) \in Path /\ ConcealingPath(p, mute).ref = p.ref
    BY <1>1 DEF Path, ConcealingPath
  <1> QED
    BY <1>1, <1>2, <1>3, <1>4 DEF Path, ConcealedPath, InterpolatedPath

LEMMA DecodedPathType ==
    ASSUME NEW p \in Path, NEW content \in Contents, NEW ramps \in BOOLEAN
    PROVE  /\ DecodedPath(p, content, ramps) \in Path
           /\ DecodedPath(p, content, ramps).ref = content
           /\ DecodedLevel(p, ramps) \in 0..Silent
  <1>1. RecoveryFade(p) \in 0..FadeInFrames
    BY UsizeAssumption DEF Path, RecoveryFade, LeastOf, FadeInFrames
  <1>2. RecoveryFade(p) # 0 => RecoveryFade(p) - 1 \in 0..FadeInFrames
    BY <1>1 DEF FadeInFrames
  <1>3. 0 \in 0..FadeInFrames /\ "FadeIn" \in States /\ "Ok" \in States
    BY DEF FadeInFrames, States
  <1>4. FadedPath(p) \in Path
    BY <1>2, <1>3 DEF Path, FadedPath
  <1>5. (IF ramps THEN FadedPath(p) ELSE p) \in Path
    BY <1>4
  <1>6. 0 \in 0..UsizeMax
    BY UsizeAssumption
  <1>7. DecodedLevel(p, ramps) \in 0..Silent
    BY <1>1 DEF DecodedLevel, FadeInFrames, Silent
  <1> QED
    BY <1>5, <1>6, <1>7 DEF Path, DecodedPath

LEMMA FreshPathType == FreshPath \in Path
  BY UsizeAssumption DEF FreshPath, Path, States, FadeInFrames

LEMMA FreshDecoderType ==
    ASSUME NEW c \in Configs
    PROVE  FreshDecoder(c) \in Decoder
  BY FreshPathType DEF FreshDecoder, Decoder

-----------------------------------------------------------------------------
(* The type of the facade, and what each function does to it *)

Facades == [dec : Decoder, mux : Configs \cup {NoMux}, fifo : Delay,
            pending : [Formats -> 0..UsizeMax], stats : Statistics]

Outcomes == [s : Facades, ok : BOOLEAN, slot : Slot]

LEMMA FacadeType == TypeOK => Facade \in Facades
  BY DEF TypeOK, Facade, Facades

LEMMA SlotTypes ==
    /\ NoSlot \in Slot
    /\ Silence \in Slot
    /\ Placeholder \in Slot
  BY DEF NoSlot, Silence, Placeholder, Slot, Silent

(* The statistics are the only thing counting changes. *)
LEMMA CountType ==
    ASSUME NEW s \in Facades, NEW bytes \in Nat, NEW bad \in BOOLEAN
    PROVE  LET t == CountAccessUnit(s, bytes, bad)
           IN /\ t \in Facades
              /\ t.dec = s.dec /\ t.mux = s.mux /\ t.fifo = s.fifo
              /\ t.pending = s.pending
  <1>1. /\ s.stats \in Statistics
        /\ \A m \in 0..U64Max : /\ SaturatingAdd(m, bytes) \in 0..U64Max
                                /\ SaturatingAdd(m, 1) \in 0..U64Max
    BY SaturatingType DEF Facades
  <1> DEFINE t == CountAccessUnit(s, bytes, bad)
  <1>2. t.dec = s.dec /\ t.mux = s.mux /\ t.fifo = s.fifo /\ t.pending = s.pending
    BY DEF CountAccessUnit, Facades
  <1>3. t.stats \in Statistics
    <2>1. CASE bad
      BY <1>1, <2>1 DEF CountAccessUnit, Facades, Statistics
    <2>2. CASE ~bad
      BY <1>1, <2>2 DEF CountAccessUnit, Facades, Statistics
    <2> QED
      BY <2>1, <2>2
  <1>4. t \in Facades
    <2> PICK u : u = t.stats
      OBVIOUS
    <2>1. t = [s EXCEPT !.stats = u]
      BY DEF CountAccessUnit, Facades
    <2>2. u \in Statistics
      BY <1>3
    <2> QED
      BY ONLY s \in Facades, <2>1, <2>2 DEF Facades
  <1> QED
    BY <1>2, <1>4 DEF t

LEMMA RecoveredType ==
    ASSUME NEW s \in Facades
    PROVE  LET t == CountRecovered(s)
           IN /\ t \in Facades
              /\ t.dec = s.dec /\ t.mux = s.mux /\ t.fifo = s.fifo
              /\ t.pending = s.pending
  <1>1. /\ s.stats \in Statistics
        /\ \A m \in 0..U64Max : SaturatingAdd(m, 1) \in 0..U64Max
    BY SaturatingType DEF Facades
  <1> QED
    BY <1>1 DEF CountRecovered, Facades, Statistics

LEMMA ShapeType ==
    ASSUME NEW s \in Facades
    PROVE  /\ ShapeOf(s) \in Shapes
           /\ ShapeOf(s) = NoShape <=> ~Delays(s)
  BY ConfigAssumption, MarkerAssumption
  DEF ShapeOf, Shapes, Facades, Decoder

LEMMA RenderType ==
    ASSUME NEW s \in Facades, NEW slot \in Slot
    PROVE  LET r == Render(s, slot)
           IN /\ r \in Outcomes
              /\ r.ok
              /\ r.s.dec = s.dec /\ r.s.mux = s.mux
              /\ r.s.pending = s.pending
              /\ Delays(s) => r.s.fifo = [shape |-> ShapeOf(s), slot |-> slot]
  BY ShapeType, SlotTypes
  DEF Render, Returned, Outcomes, Facades, Delay, EmptyFifo, Shapes

LEMMA ReplaceType ==
    ASSUME NEW s \in Facades, NEW slot \in Slot
    PROVE  LET t == ReplaceHeld(s, slot)
           IN /\ t \in Facades
              /\ t.dec = s.dec /\ t.mux = s.mux
              /\ t.pending = s.pending
  BY DEF ReplaceHeld, Facades, Delay

(* No reference and no overlap comes from a corrupt access unit. *)
Sound(s) ==
    \A f \in Formats : s.dec.path[f].ref # Junk /\ s.dec.tail[f] # Junk

LEMMA ConcealFrameType ==
    ASSUME NEW s \in Facades, NEW f \in Formats, NEW mute \in BOOLEAN
    PROVE  LET t == ConcealFrame(s, f, mute)
           IN /\ t \in Facades
              /\ t.dec.cfg = s.dec.cfg
              /\ t.mux = s.mux /\ t.fifo = s.fifo /\ t.pending = s.pending
              /\ Sound(s) => Sound(t)
              /\ ConcealedSlot(s, f, mute) \in Slot
  <1> DEFINE t == ConcealFrame(s, f, mute)
             p == s.dec.path[f]
  <1>a. /\ s.dec \in Decoder
        /\ p \in Path
        /\ p.ref \in Contents \cup {NoContent}
    BY DEF Facades, Decoder, Path
  <1>b. NoContent # Junk
    BY MarkerAssumption, ContentAssumption
  <1>1. /\ ConcealedPath(p, mute) \in Path
        /\ ConcealedPath(p, mute).ref = p.ref
        /\ ConcealedLevel(p, mute) \in 0..Silent
    BY <1>a, ConcealedPathType
  <1>2. ConcealedSlot(s, f, mute) \in Slot
    BY <1>1, <1>a DEF ConcealedSlot, Slot
  <1> DEFINE q == [s.dec.path EXCEPT ![f] = ConcealedPath(p, mute)]
             u == [s.dec.tail EXCEPT ![f] =
                     IF ConcealedLevel(p, mute) = Silent
                     THEN NoContent ELSE p.ref]
  <1> DEFINE d == [s.dec EXCEPT !.path = q, !.tail = u]
  <1>3. t = [s EXCEPT !.dec = d]
    BY DEF ConcealFrame, Facades, Decoder
  <1>4. q \in [Formats -> Path] /\ u \in [Formats -> Contents \cup {NoContent}]
    BY <1>1, <1>a DEF Decoder
  <1> HIDE DEF q, u
  <1>5. d \in Decoder /\ d.cfg = s.dec.cfg /\ d.path = q /\ d.tail = u
    BY <1>4, <1>a DEF Decoder
  <1> HIDE DEF d, t
  <1>6. /\ t \in Facades
        /\ t.dec = d
        /\ t.mux = s.mux /\ t.fifo = s.fifo /\ t.pending = s.pending
    BY <1>3, <1>5 DEF Facades
  <1>7. Sound(s) => \A g \in Formats : q[g].ref # Junk /\ u[g] # Junk
    BY <1>1, <1>a, <1>b DEF Sound, Decoder, q, u
  <1> QED
    BY <1>2, <1>5, <1>6, <1>7 DEF Sound, t

LEMMA InterpolateFrameType ==
    ASSUME NEW s \in Facades, NEW f \in Formats
    PROVE  LET t == InterpolateFrame(s, f)
           IN /\ t \in Facades
              /\ t.dec.cfg = s.dec.cfg
              /\ t.mux = s.mux /\ t.fifo = s.fifo /\ t.pending = s.pending
              /\ Sound(s) => Sound(t)
              /\ InterpolatedSlot(s, f) \in Slot
  <1> DEFINE t == InterpolateFrame(s, f)
             p == s.dec.path[f]
             q == [s.dec.path EXCEPT ![f] = InterpolatedPath(p)]
             u == [s.dec.tail EXCEPT ![f] = p.ref]
  <1>a. /\ s.dec \in Decoder
        /\ p \in Path
        /\ p.ref \in Contents \cup {NoContent}
    BY DEF Facades, Decoder, Path
  <1>1. InterpolatedPath(p) \in Path /\ InterpolatedPath(p).ref = p.ref
    BY <1>a, ConcealedPathType
  <1>2. InterpolatedSlot(s, f) \in Slot
    BY <1>a DEF InterpolatedSlot, Slot, Silent
  <1> DEFINE d == [s.dec EXCEPT !.path = q, !.tail = u]
  <1>3. t = [s EXCEPT !.dec = d]
    BY DEF InterpolateFrame, Facades, Decoder
  <1>4. q \in [Formats -> Path] /\ u \in [Formats -> Contents \cup {NoContent}]
    BY <1>1, <1>a DEF Decoder
  <1> HIDE DEF q, u
  <1>5. d \in Decoder /\ d.cfg = s.dec.cfg /\ d.path = q /\ d.tail = u
    BY <1>4, <1>a DEF Decoder
  <1> HIDE DEF d, t
  <1>6. /\ t \in Facades
        /\ t.dec = d
        /\ t.mux = s.mux /\ t.fifo = s.fifo /\ t.pending = s.pending
    BY <1>3, <1>5 DEF Facades
  <1>7. Sound(s) => \A g \in Formats : q[g].ref # Junk /\ u[g] # Junk
    BY <1>1, <1>a DEF Sound, Decoder, q, u
  <1> QED
    BY <1>2, <1>5, <1>6, <1>7 DEF Sound, t

LEMMA DropOtherType ==
    ASSUME NEW s \in Facades, NEW f \in Formats
    PROVE  LET t == DropOther(s, f)
           IN /\ t \in Facades
              /\ t.dec = s.dec /\ t.mux = s.mux /\ t.fifo = s.fifo
              /\ t.pending[f] = s.pending[f]
              /\ \A g \in Formats : t.pending[g] # 0 => g = f
  <1> DEFINE rest == [g \in Formats |-> IF g = f THEN s.pending[g] ELSE 0]
  <1>1. /\ rest \in [Formats -> 0..UsizeMax]
        /\ rest[f] = s.pending[f]
        /\ \A g \in Formats : rest[g] # 0 => g = f
    BY UsizeAssumption DEF Facades
  <1>2. DropOther(s, f) = [s EXCEPT !.pending = rest]
    BY DEF DropOther
  <1> HIDE DEF rest
  <1> QED
    BY <1>1, <1>2 DEF Facades

(* The method, and with it the delay, depends on the configuration only. *)
LEMMA SameDelay ==
    ASSUME NEW s \in Facades, NEW t \in Facades, t.dec.cfg = s.dec.cfg
    PROVE  (Delays(t) <=> Delays(s)) /\ ShapeOf(t) = ShapeOf(s)
  BY DEF Delays, Method, ShapeOf

(* A delayed loss: the losses that wait are all in format f, and the delay *)
(* holds the placeholder of the last one.                                  *)
LEMMA DelayedConcealType ==
    ASSUME NEW s \in Facades, NEW f \in Formats, Delays(s)
    PROVE  LET r == DelayedConceal(s, f)
           IN /\ r \in Outcomes
              /\ r.ok
              /\ r.s.dec.cfg = s.dec.cfg
              /\ r.s.fifo = [shape |-> ShapeOf(s), slot |-> Placeholder]
              /\ \A g \in Formats : r.s.pending[g] # 0 => g = f
              /\ Sound(s) => Sound(r.s)
  <1> DEFINE s1 == DropOther(s, f)
             s2 == IF s1.pending[f] # 0 /\ CanConceal(s1, f)
                   THEN ReplaceHeld(ConcealFrame(s1, f, FALSE),
                                    ConcealedSlot(s1, f, FALSE))
                   ELSE s1
             s3 == [s2 EXCEPT !.pending[f] = SaturatingInc(@)]
  <1>1. /\ s1 \in Facades
        /\ s1.dec = s.dec
        /\ \A g \in Formats : s1.pending[g] # 0 => g = f
    BY DropOtherType
  <1> HIDE DEF s1
  <1>2. /\ s2 \in Facades
        /\ s2.dec.cfg = s.dec.cfg
        /\ s2.pending = s1.pending
        /\ Sound(s) => Sound(s2)
    <2>1. CASE s1.pending[f] # 0 /\ CanConceal(s1, f)
      <3> DEFINE c == ConcealFrame(s1, f, FALSE)
      <3>0. /\ c \in Facades
            /\ c.dec.cfg = s1.dec.cfg
            /\ c.pending = s1.pending
            /\ Sound(s1) => Sound(c)
            /\ ConcealedSlot(s1, f, FALSE) \in Slot
        <4>1. s1 \in Facades /\ FALSE \in BOOLEAN
          BY <1>1
        <4> QED
          BY ONLY <4>1, ConcealFrameType, f \in Formats
      <3>1. /\ c \in Facades
            /\ c.dec.cfg = s.dec.cfg
            /\ c.pending = s1.pending
            /\ Sound(s1) => Sound(c)
            /\ ConcealedSlot(s1, f, FALSE) \in Slot
        BY <1>1, <3>0
      <3> HIDE DEF c
      <3>2. /\ s2 \in Facades
            /\ s2.dec = c.dec
            /\ s2.pending = c.pending
        BY <2>1, <3>1, ReplaceType DEF c
      <3> QED
        BY <1>1, <3>1, <3>2 DEF Sound
    <2>2. CASE ~(s1.pending[f] # 0 /\ CanConceal(s1, f))
      BY <1>1, <2>2 DEF Sound
    <2> QED
      BY <2>1, <2>2
  <1>3. /\ s3 \in Facades
        /\ s3.dec = s2.dec
        /\ \A g \in Formats : s3.pending[g] # 0 => g = f
    <2>1. SaturatingInc(s2.pending[f]) \in 0..UsizeMax
      BY <1>2, SaturatingType DEF Facades
    <2> HIDE DEF s2
    <2>2. /\ s3 \in Facades
          /\ s3.dec = s2.dec
          /\ s3.pending = [s2.pending EXCEPT ![f] = SaturatingInc(@)]
      BY <1>2, <2>1 DEF Facades
    <2> QED
      BY <1>1, <1>2, <2>2 DEF Facades
  <1>4. Delays(s3) /\ ShapeOf(s3) = ShapeOf(s)
    BY <1>2, <1>3, SameDelay
  <1>5. DelayedConceal(s, f) = Render(s3, Placeholder)
    BY DEF DelayedConceal, s1
  <1> HIDE DEF s3
  <1>6. /\ Render(s3, Placeholder) \in Outcomes
        /\ Render(s3, Placeholder).ok
        /\ Render(s3, Placeholder).s.dec = s3.dec
        /\ Render(s3, Placeholder).s.pending = s3.pending
        /\ Render(s3, Placeholder).s.fifo =
              [shape |-> ShapeOf(s3), slot |-> Placeholder]
    BY <1>3, <1>4, SlotTypes, RenderType
  <1> QED
    BY <1>2, <1>3, <1>4, <1>5, <1>6 DEF Sound

LEMMA ConcealNowType ==
    ASSUME NEW s \in Facades, NEW f \in Formats
    PROVE  LET r == ConcealNow(s, f)
           IN /\ r \in Outcomes
              /\ r.ok
              /\ r.s.dec.cfg = s.dec.cfg
              /\ r.s.pending = s.pending
              /\ Sound(s) => Sound(r.s)
  <1> DEFINE mute == Method(s) = "mute"
             c == ConcealFrame(s, f, mute)
  <1>0. mute \in BOOLEAN
    OBVIOUS
  <1> HIDE DEF mute
  <1>1. /\ c \in Facades
        /\ c.dec.cfg = s.dec.cfg
        /\ c.pending = s.pending
        /\ Sound(s) => Sound(c)
        /\ ConcealedSlot(s, f, mute) \in Slot
    BY <1>0, ConcealFrameType
  <1>2. ConcealNow(s, f) = Render(c, ConcealedSlot(s, f, mute))
    BY DEF ConcealNow, mute
  <1> DEFINE slot == ConcealedSlot(s, f, mute)
             r == Render(c, slot)
  <1> HIDE DEF c, slot
  <1>3. /\ r \in Outcomes
        /\ r.ok
        /\ r.s.dec = c.dec
        /\ r.s.pending = c.pending
    BY <1>1, RenderType DEF slot
  <1> QED
    BY <1>1, <1>2, <1>3 DEF Sound, c, slot

-----------------------------------------------------------------------------
(* Decoding *)

LEMMA ConfigureType ==
    ASSUME NEW s \in Facades, NEW au \in AccessUnit
    PROVE  LET t == Configure(s, au)
           IN /\ t \in Facades
              /\ t.pending = s.pending
              /\ Sound(s) => Sound(t)
  <1> DEFINE t == Configure(s, au)
             d == IF SameStream(au.mux, s.dec.cfg) THEN s.dec
                  ELSE FreshDecoder(au.mux)
             m == IF Framing = "latm" THEN au.mux ELSE s.mux
  <1>1. CASE au.fault \in {"framing", "config"} \/ au.mux = SameMux
    BY <1>1 DEF Configure
  <1>2. CASE ~(au.fault \in {"framing", "config"} \/ au.mux = SameMux)
    <2>1. au.mux \in Configs
      BY <1>2 DEF AccessUnit
    <2>2. d \in Decoder /\ m \in Configs \cup {NoMux}
      BY <2>1, FreshDecoderType DEF Facades
    <2>3. \A g \in Formats : /\ FreshDecoder(au.mux).path[g].ref = NoContent
                             /\ FreshDecoder(au.mux).tail[g] = NoContent
      BY DEF FreshDecoder, FreshPath
    <2>4. Sound(s) => \A g \in Formats : d.path[g].ref # Junk /\ d.tail[g] # Junk
      BY <2>3, MarkerAssumption, ContentAssumption DEF Sound
    <2>5. t = [s EXCEPT !.dec = d, !.mux = m]
      BY <1>2 DEF Configure, Facades
    <2> HIDE DEF d, m, t
    <2>6. t \in Facades /\ t.dec = d /\ t.pending = s.pending
      BY <2>2, <2>5 DEF Facades
    <2> QED
      BY <2>4, <2>6 DEF Sound, t
  <1> QED
    BY <1>1, <1>2

LEMMA AbsorbType ==
    ASSUME NEW s \in Facades, NEW f \in Formats, NEW content \in Contents
    PROVE  LET t == Absorb(s, f, content)
           IN /\ t \in Facades
              /\ t.pending = s.pending
              /\ content # Junk /\ Sound(s) => Sound(t)
  <1> DEFINE t == Absorb(s, f, content)
             ramps == RampsIn(s.dec.cfg, f)
             q == [s.dec.path EXCEPT
                     ![f] = DecodedPath(s.dec.path[f], content, ramps)]
             u == [s.dec.tail EXCEPT ![f] = content]
             d == [s.dec EXCEPT !.path = q, !.tail = u]
  <1>a. s.dec \in Decoder /\ s.dec.path[f] \in Path /\ ramps \in BOOLEAN
    BY DEF Facades, Decoder, RampsIn
  <1>1. CASE IsUsac(s.dec.cfg)
    BY <1>1 DEF Absorb
  <1>2. CASE ~IsUsac(s.dec.cfg)
    <2> HIDE DEF ramps
    <2>1. /\ DecodedPath(s.dec.path[f], content, ramps) \in Path
          /\ DecodedPath(s.dec.path[f], content, ramps).ref = content
      BY <1>a, DecodedPathType
    <2>2. /\ q \in [Formats -> Path]
          /\ u \in [Formats -> Contents \cup {NoContent}]
          /\ content # Junk /\ Sound(s) =>
                \A g \in Formats : q[g].ref # Junk /\ u[g] # Junk
      BY <2>1, <1>a DEF Decoder, Sound
    <2>3. t = [s EXCEPT !.dec = d]
      BY <1>2 DEF Absorb, ramps, Facades, Decoder
    <2> HIDE DEF q, u
    <2>4. d \in Decoder /\ d.path = q /\ d.tail = u
      BY <2>2, <1>a DEF Decoder
    <2> HIDE DEF d, t
    <2>5. t \in Facades /\ t.dec = d /\ t.pending = s.pending
      BY <2>3, <2>4 DEF Facades
    <2> QED
      BY <2>2, <2>4, <2>5 DEF Sound, t
  <1> QED
    BY <1>1, <1>2

LEMMA AttemptType ==
    ASSUME NEW s \in Facades, NEW f \in Formats, NEW au \in AccessUnit
    PROVE  LET t == Attempt(s, f, au)
           IN /\ t \in Facades
              /\ t.pending = s.pending
              /\ au.fault # "check" /\ Sound(s) => Sound(t)
  <1> DEFINE c == Configure(s, au)
  <1>1. /\ c \in Facades
        /\ c.pending = s.pending
        /\ Sound(s) => Sound(c)
    BY ConfigureType
  <1>2. au.content \in Contents /\ (au.fault = "none" => au.content # Junk)
    BY DEF AccessUnit
  <1> HIDE DEF c
  <1>3. /\ Absorb(c, f, au.content) \in Facades
        /\ Absorb(c, f, au.content).pending = c.pending
        /\ au.content # Junk /\ Sound(c) => Sound(Absorb(c, f, au.content))
    BY <1>1, <1>2, AbsorbType
  <1>4. Attempt(s, f, au) = IF au.fault \in {"none", "check"}
                            THEN Absorb(c, f, au.content) ELSE c
    BY DEF Attempt, c
  <1> QED
    BY <1>1, <1>2, <1>3, <1>4

LEMMA PlainDecodeType ==
    ASSUME NEW s \in Facades, NEW f \in Formats, NEW au \in AccessUnit
    PROVE  LET r == PlainDecode(s, f, au)
           IN /\ r \in Outcomes
              /\ r.ok <=> au.fault = "none"
              /\ r.s.pending = s.pending
              /\ au.fault # "check" /\ Sound(s) => Sound(r.s)
  <1> DEFINE a == Attempt(s, f, au)
             bad == au.fault # "none"
             tried == CountAccessUnit(a, 1, bad)
             slot == DecodedSlot(Configure(s, au), f, au.content)
             r == PlainDecode(s, f, au)
  <1>1. /\ a \in Facades
        /\ a.pending = s.pending
        /\ au.fault # "check" /\ Sound(s) => Sound(a)
    BY AttemptType
  <1> HIDE DEF a
  <1>2. bad \in BOOLEAN /\ 1 \in Nat
    OBVIOUS
  <1>3. /\ tried \in Facades
        /\ tried.dec = a.dec
        /\ tried.pending = a.pending
    BY <1>1, <1>2, CountType
  <1>4. slot \in Slot
    <2> DEFINE c == Configure(s, au)
               ramps == RampsIn(c.dec.cfg, f)
    <2>1. c \in Facades
      BY ConfigureType
    <2> HIDE DEF c
    <2>2. c.dec.path[f] \in Path /\ ramps \in BOOLEAN
      BY <2>1 DEF Facades, Decoder, RampsIn
    <2> HIDE DEF ramps
    <2>3. DecodedLevel(c.dec.path[f], ramps) \in 0..Silent
      <3>1. PICK content \in Contents : TRUE
        BY MarkerAssumption
      <3> QED
        BY <2>2, <3>1, DecodedPathType
    <2>4. au.content \in Contents /\ 0 \in 0..Silent
      BY DEF AccessUnit, Silent
    <2> QED
      BY <2>3, <2>4 DEF DecodedSlot, Slot, c, ramps
  <1>5. r = IF au.fault = "none" THEN Render(tried, slot) ELSE Failed(tried)
    BY DEF PlainDecode, a
  <1> HIDE DEF tried, slot, r
  <1>6. /\ Render(tried, slot) \in Outcomes
        /\ Render(tried, slot).ok
        /\ Render(tried, slot).s.dec = tried.dec
        /\ Render(tried, slot).s.pending = tried.pending
    BY <1>3, <1>4, RenderType
  <1>7. CASE au.fault = "none"
    BY <1>1, <1>3, <1>5, <1>6, <1>7 DEF Sound, r
  <1>8. CASE au.fault # "none"
    <2>1. /\ Failed(tried) \in Outcomes
          /\ ~Failed(tried).ok
          /\ Failed(tried).s = tried
      BY <1>3, SlotTypes DEF Failed, Outcomes
    <2> QED
      BY <2>1, <1>1, <1>3, <1>5, <1>8 DEF Sound, r
  <1> QED
    BY <1>7, <1>8

LEMMA RecoverHeldType ==
    ASSUME NEW s \in Facades, NEW f \in Formats, NEW au \in AccessUnit
    PROVE  LET t == RecoverHeld(s, f, au)
           IN /\ t \in Facades
              /\ \A g \in Formats :
                    t.pending[g] = IF g = f THEN 0 ELSE s.pending[g]
              /\ Sound(s) => Sound(t)
  <1> DEFINE c1 == ConcealFrame(s, f, FALSE)
             r1 == ReplaceHeld(c1, ConcealedSlot(s, f, FALSE))
             c2 == InterpolateFrame(s, f)
             r2 == ReplaceHeld(c2, InterpolatedSlot(s, f))
  <1>1. /\ c1 \in Facades /\ c1.pending = s.pending
        /\ Sound(s) => Sound(c1)
        /\ ConcealedSlot(s, f, FALSE) \in Slot
    <2>1. FALSE \in BOOLEAN
      OBVIOUS
    <2> QED
      BY <2>1, ConcealFrameType
  <1>2. /\ c2 \in Facades /\ c2.pending = s.pending
        /\ Sound(s) => Sound(c2)
        /\ InterpolatedSlot(s, f) \in Slot
    BY InterpolateFrameType
  <1> HIDE DEF c1, c2
  <1>3. r1 \in Facades /\ r1.pending = s.pending /\ r1.dec = c1.dec
    BY <1>1, ReplaceType
  <1>4. r2 \in Facades /\ r2.pending = s.pending /\ r2.dec = c2.dec
    BY <1>2, ReplaceType
  <1> HIDE DEF r1, r2
  <1>5. PICK v \in {s, r1, r2} :
            RecoverHeld(s, f, au) = [v EXCEPT !.pending[f] = 0]
    BY DEF RecoverHeld, r1, r2, c1, c2
  <1>6. /\ v \in Facades
        /\ v.pending = s.pending
        /\ Sound(s) => Sound(v)
    BY <1>1, <1>2, <1>3, <1>4, <1>5 DEF Sound
  <1>7. [v.pending EXCEPT ![f] = 0] \in [Formats -> 0..UsizeMax]
    BY <1>6, UsizeAssumption DEF Facades
  <1> QED
    BY <1>5, <1>6, <1>7 DEF Facades, Sound

-----------------------------------------------------------------------------
(* The waiting losses, as a property of a facade *)

OneWaits(s) == \A f, g \in Formats : s.pending[f] # 0 /\ s.pending[g] # 0 => f = g

NoneWaits(s) == \A g \in Formats : s.pending[g] = 0

Held(s) ==
    (\E f \in Formats : s.pending[f] # 0) =>
        /\ Delays(s)
        /\ s.fifo.shape = ShapeOf(s)
        /\ s.fifo.slot.kind \notin {"decoded", "concealed", "interpolated"}

(* The placeholder of a waiting loss is in the delay, or what a FLUSH put  *)
(* in its place.                                                           *)
Placed(s, call) ==
    (\E f \in Formats : s.pending[f] # 0) =>
        \/ s.fifo.slot = Placeholder
        \/ /\ call \in {"flush", "clear"}
           /\ s.fifo.slot.kind \in {"flushed", "silence"}

(* An access unit leaves no loss waiting, whether it is decoded or not. *)
LEMMA DecodeInnerType ==
    ASSUME NEW s \in Facades, NEW f \in Formats, NEW au \in AccessUnit
    PROVE  LET r == DecodeInner(s, f, au)
           IN /\ r \in Outcomes
              /\ r.ok <=> au.fault = "none"
              /\ Held(s) => NoneWaits(r.s)
              /\ au.fault # "check" /\ Sound(s) => Sound(r.s)
  <1> DEFINE s1 == DropOther(s, f)
             s2 == IF Delays(s1) /\ s1.pending[f] # 0
                   THEN RecoverHeld(s1, f, au) ELSE s1
  <1>1. /\ s1 \in Facades
        /\ s1.dec = s.dec
        /\ s1.pending[f] = s.pending[f]
        /\ \A g \in Formats : s1.pending[g] # 0 => g = f
    BY DropOtherType
  <1>2. Delays(s1) <=> Delays(s)
    BY <1>1, SameDelay
  <1> HIDE DEF s1
  <1>3. /\ RecoverHeld(s1, f, au) \in Facades
        /\ NoneWaits(RecoverHeld(s1, f, au))
        /\ Sound(s1) => Sound(RecoverHeld(s1, f, au))
    BY <1>1, RecoverHeldType DEF NoneWaits
  <1>4. /\ s2 \in Facades
        /\ Held(s) => NoneWaits(s2)
        /\ Sound(s) => Sound(s2)
    <2>1. CASE Delays(s1) /\ s1.pending[f] # 0
      BY <1>1, <1>3, <2>1 DEF Sound
    <2>2. CASE ~(Delays(s1) /\ s1.pending[f] # 0)
      <3>1. s2 = s1
        BY <2>2
      <3>2. Held(s) => s1.pending[f] = 0
        BY <1>1, <1>2, <2>2 DEF Held
      <3> QED
        BY <1>1, <3>1, <3>2 DEF NoneWaits, Sound
    <2> QED
      BY <2>1, <2>2
  <1>5. DecodeInner(s, f, au) = PlainDecode(s2, f, au)
    BY DEF DecodeInner, s1
  <1> HIDE DEF s2
  <1> QED
    BY <1>4, <1>5, PlainDecodeType DEF NoneWaits

(* The flagged API: after it, one format waits at most, its loss is held,  *)
(* and a corrupt access unit has left no spectra.                          *)
LEMMA DecodeOrConcealType ==
    ASSUME NEW s \in Facades, NEW f \in Formats, NEW au \in AccessUnit
    PROVE  LET r == DecodeOrConceal(s, f, au)
           IN /\ r \in Outcomes
              /\ Held(s) => /\ OneWaits(r.s) /\ Held(r.s)
                             /\ Placed(r.s, "flagged")
              /\ Sound(s) => Sound(r.s)
  <1> DEFINE tried == DecodeInner(s, f, au)
             back  == [tried.s EXCEPT !.dec = s.dec]
             b     == CountRecovered(back)
             r     == DecodeOrConceal(s, f, au)
  <1>1. /\ tried \in Outcomes
        /\ tried.ok <=> au.fault = "none"
        /\ Held(s) => NoneWaits(tried.s)
        /\ au.fault # "check" /\ Sound(s) => Sound(tried.s)
    BY DecodeInnerType
  <1> HIDE DEF tried
  <1>2. /\ back \in Facades
        /\ back.dec = s.dec
        /\ back.pending = tried.s.pending
    BY <1>1 DEF Facades, Outcomes
  <1> HIDE DEF back
  <1>3. /\ b \in Facades
        /\ b.dec = s.dec
        /\ b.pending = tried.s.pending
    BY <1>2, RecoveredType
  <1> HIDE DEF b
  <1>4. Delays(b) <=> Delays(back)
    BY <1>2, <1>3, SameDelay
  <1>5. r = IF tried.ok \/ au.fault = "framing" THEN tried
            ELSE IF Delays(back) THEN DelayedConceal(b, f)
            ELSE IF CanConceal(back, f) THEN ConcealNow(b, f)
            ELSE Failed(back)
    BY DEF DecodeOrConceal, tried, back, b
  <1> HIDE DEF r
  <1>6. CASE tried.ok \/ au.fault = "framing"
    <2>1. r = tried /\ au.fault # "check"
      BY <1>1, <1>5, <1>6
    <2> QED
      BY <1>1, <2>1 DEF OneWaits, NoneWaits, Held, Placed, r
  <1>7. CASE ~(tried.ok \/ au.fault = "framing") /\ Delays(back)
    <2>1. /\ r \in Outcomes
          /\ r.s.dec.cfg = b.dec.cfg
          /\ r.s.fifo = [shape |-> ShapeOf(b), slot |-> Placeholder]
          /\ \A g \in Formats : r.s.pending[g] # 0 => g = f
          /\ Sound(b) => Sound(r.s)
      BY <1>3, <1>4, <1>5, <1>7, DelayedConcealType
    <2>2. r.s \in Facades
      BY <2>1 DEF Outcomes
    <2>3. Delays(r.s) /\ ShapeOf(r.s) = ShapeOf(b)
      BY <1>3, <1>4, <1>7, <2>1, <2>2, SameDelay
    <2>4. OneWaits(r.s) /\ Held(r.s) /\ Placed(r.s, "flagged")
      BY <2>1, <2>3 DEF OneWaits, Held, Placed, Placeholder
    <2> QED
      BY <1>3, <2>1, <2>4 DEF Sound, r
  <1>8. CASE ~(tried.ok \/ au.fault = "framing") /\ ~Delays(back)
    <2>1. /\ ConcealNow(b, f) \in Outcomes
          /\ ConcealNow(b, f).s.pending = b.pending
          /\ Sound(b) => Sound(ConcealNow(b, f).s)
      BY <1>3, ConcealNowType
    <2>2. /\ Failed(back) \in Outcomes
          /\ Failed(back).s = back
      BY <1>2, SlotTypes DEF Failed, Outcomes
    <2>3. /\ r \in Outcomes
          /\ r.s.pending = tried.s.pending
          /\ Sound(s) => Sound(r.s)
      BY <1>2, <1>3, <1>5, <1>8, <2>1, <2>2 DEF Sound
    <2> QED
      BY <1>1, <2>3 DEF OneWaits, NoneWaits, Held, Placed, r
  <1> QED
    BY <1>6, <1>7, <1>8

LEMMA PrepareFlagsType ==
    ASSUME NEW s \in Facades, NEW cut \in BOOLEAN
    PROVE  LET t == PrepareFlags(s, cut)
           IN /\ t \in Facades
              /\ OneWaits(s) => OneWaits(t)
              /\ Held(s) => Held(t)
              /\ Sound(s) => Sound(t)
  <1> DEFINE d == FreshDecoder(s.dec.cfg)
             q == ClearedFifo(s.fifo)
             t == PrepareFlags(s, cut)
  <1>1. CASE cut
    <2>1. /\ d \in Decoder
          /\ \A g \in Formats : d.path[g].ref = NoContent /\ d.tail[g] = NoContent
      BY FreshDecoderType DEF Facades, Decoder, FreshDecoder, FreshPath
    <2>2. q \in Delay
      BY SlotTypes DEF ClearedFifo, Facades, Delay
    <2>3. NoLosses \in [Formats -> 0..UsizeMax] /\ \A g \in Formats : NoLosses[g] = 0
      BY UsizeAssumption DEF NoLosses
    <2>4. t = [s EXCEPT !.dec = d, !.fifo = q, !.pending = NoLosses]
      BY <1>1 DEF PrepareFlags, Facades
    <2> HIDE DEF d, q, t
    <2>5. t \in Facades /\ t.dec = d /\ t.pending = NoLosses
      BY <2>1, <2>2, <2>3, <2>4 DEF Facades
    <2> QED
      BY <2>1, <2>3, <2>5, MarkerAssumption, ContentAssumption
      DEF OneWaits, Held, Sound, t
  <1>2. CASE ~cut
    BY <1>2 DEF PrepareFlags
  <1> QED
    BY <1>1, <1>2

LEMMA ConcealCallType ==
    ASSUME NEW s \in Facades, NEW f \in Formats
    PROVE  LET r == ConcealCall(s, f)
           IN /\ r \in Outcomes
              /\ OneWaits(s) /\ Held(s) => /\ OneWaits(r.s) /\ Held(r.s)
                                           /\ Placed(r.s, "conceal")
              /\ Sound(s) => Sound(r.s)
  <1> DEFINE c == CountConcealed(s)
             r == ConcealCall(s, f)
  <1>1. c \in Facades /\ c.dec = s.dec /\ c.pending = s.pending
    <2> DEFINE a == CountAccessUnit(s, 0, TRUE)
    <2>1. 0 \in Nat /\ TRUE \in BOOLEAN
      OBVIOUS
    <2>2. a \in Facades /\ a.dec = s.dec /\ a.pending = s.pending
      BY <2>1, CountType
    <2> HIDE DEF a
    <2> QED
      BY <2>2, RecoveredType DEF CountConcealed, a
  <1> HIDE DEF c
  <1>2. Delays(c) <=> Delays(s)
    BY <1>1, SameDelay
  <1>3. r = IF Delays(c) THEN DelayedConceal(c, f)
            ELSE IF CanConceal(c, f) THEN ConcealNow(c, f)
            ELSE Render(c, Silence)
    BY DEF ConcealCall, c
  <1> HIDE DEF r
  <1>4. CASE Delays(c)
    <2>1. /\ r \in Outcomes
          /\ r.s.dec.cfg = c.dec.cfg
          /\ r.s.fifo = [shape |-> ShapeOf(c), slot |-> Placeholder]
          /\ \A g \in Formats : r.s.pending[g] # 0 => g = f
          /\ Sound(c) => Sound(r.s)
      BY <1>1, <1>3, <1>4, DelayedConcealType
    <2>2. r.s \in Facades
      BY <2>1 DEF Outcomes
    <2>3. Delays(r.s) /\ ShapeOf(r.s) = ShapeOf(c)
      BY <1>1, <1>4, <2>1, <2>2, SameDelay
    <2>4. OneWaits(r.s) /\ Held(r.s) /\ Placed(r.s, "conceal")
      BY <2>1, <2>3 DEF OneWaits, Held, Placed, Placeholder
    <2> QED
      BY <1>1, <2>1, <2>4 DEF Sound, r
  <1>5. CASE ~Delays(c)
    <2>1. /\ ConcealNow(c, f) \in Outcomes
          /\ ConcealNow(c, f).s.pending = c.pending
          /\ Sound(c) => Sound(ConcealNow(c, f).s)
      BY <1>1, ConcealNowType
    <2>2. /\ Render(c, Silence) \in Outcomes
          /\ Render(c, Silence).s.dec = c.dec
          /\ Render(c, Silence).s.pending = c.pending
      BY <1>1, SlotTypes, RenderType
    <2>3. /\ r \in Outcomes
          /\ r.s.pending = s.pending
          /\ Sound(s) => Sound(r.s)
      BY <1>1, <1>3, <1>5, <2>1, <2>2 DEF Sound
    <2>4. Held(s) => NoneWaits(s)
      BY <1>2, <1>5 DEF Held, NoneWaits
    <2> QED
      BY <2>3, <2>4 DEF OneWaits, NoneWaits, Held, Placed, r
  <1> QED
    BY <1>4, <1>5

LEMMA FlushCallType ==
    ASSUME NEW s \in Facades, NEW f \in Formats
    PROVE  LET r == FlushCall(s, f)
           IN /\ r \in Outcomes
              /\ OneWaits(s) => OneWaits(r.s)
              /\ Held(s) => Held(r.s) /\ Placed(r.s, "flush")
              /\ Sound(s) => Sound(r.s)
  <1> DEFINE overlap == s.dec.tail[f]
             u == [s.dec.tail EXCEPT ![f] = NoContent]
             d == [s.dec EXCEPT !.tail = u]
             e == [s EXCEPT !.dec = d]
             t == CountAccessUnit(e, 0, FALSE)
             slot == IF overlap = NoContent THEN Silence
                     ELSE [kind |-> "flushed", content |-> overlap, level |-> 0]
             r == FlushCall(s, f)
  <1>a. s.dec \in Decoder /\ overlap \in Contents \cup {NoContent}
    BY DEF Facades, Decoder
  <1>1. slot \in Slot /\ slot.kind \in {"silence", "flushed"}
    BY <1>a, SlotTypes DEF Slot, Silence, Silent
  <1>2. /\ u \in [Formats -> Contents \cup {NoContent}]
        /\ Sound(s) => \A g \in Formats : u[g] # Junk
    BY <1>a, MarkerAssumption, ContentAssumption DEF Decoder, Sound
  <1>3. r = Render(t, slot)
    BY DEF FlushCall, Facades, Decoder
  <1> HIDE DEF u, slot
  <1>4. d \in Decoder /\ d.cfg = s.dec.cfg /\ d.path = s.dec.path /\ d.tail = u
    BY <1>a, <1>2 DEF Decoder
  <1> HIDE DEF d
  <1>5. e \in Facades /\ e.dec = d /\ e.pending = s.pending
    BY <1>4 DEF Facades
  <1> HIDE DEF e
  <1>6. t \in Facades /\ t.dec = d /\ t.pending = s.pending
    <2>1. 0 \in Nat /\ FALSE \in BOOLEAN
      OBVIOUS
    <2> QED
      BY <1>5, <2>1, CountType
  <1> HIDE DEF t, r
  <1>7. /\ r \in Outcomes
        /\ r.s.dec = d
        /\ r.s.pending = s.pending
        /\ Delays(t) => r.s.fifo = [shape |-> ShapeOf(t), slot |-> slot]
    BY <1>1, <1>3, <1>6, RenderType
  <1>8. /\ Delays(t) <=> Delays(s)
        /\ Delays(r.s) <=> Delays(s)
        /\ ShapeOf(t) = ShapeOf(r.s)
    <2>1. r.s \in Facades
      BY <1>7 DEF Outcomes
    <2> QED
      BY <2>1, <1>4, <1>6, <1>7, SameDelay
  <1>9. Held(s) => Held(r.s) /\ Placed(r.s, "flush")
    BY <1>1, <1>7, <1>8 DEF Held, Placed
  <1>10. Sound(s) => Sound(r.s)
    BY <1>2, <1>4, <1>7 DEF Sound
  <1> QED
    BY <1>7, <1>9, <1>10 DEF OneWaits, r

-----------------------------------------------------------------------------
(* Calls *)

(* A call that returns r leaves the facade r.s and the method the user set. *)
LEMMA ReturnType ==
    ASSUME TypeOK, NEW call, NEW f \in Formats, NEW cut \in BOOLEAN,
           NEW r \in Outcomes, Return(call, f, cut, r)
    PROVE  /\ TypeOK'
           /\ OneWaits(r.s) => OneFormatWaits'
           /\ Held(r.s) /\ Placed(r.s, call) => WaitingLossIsHeld'
           /\ Sound(r.s) => ReferenceIsSound'
  <1>1. /\ dec' = r.s.dec /\ mux' = r.s.mux /\ fifo' = r.s.fifo
        /\ pending' = r.s.pending /\ stats' = r.s.stats /\ user' = user
        /\ out' = [call |-> call, format |-> f, cut |-> cut,
                   ok |-> r.ok, slot |-> r.slot]
        /\ call \in EntryPoints
    BY DEF Return
  <1>2. TypeOK'
    <2>1. r.s \in Facades /\ r.ok \in BOOLEAN /\ r.slot \in Slot
      BY DEF Outcomes
    <2>2. out' \in Outcome
      BY <1>1, <2>1, EntryPointAssumption, FormatsAssumption
      DEF Outcome, CallNames
    <2> QED
      BY <1>1, <2>1, <2>2 DEF TypeOK, Facades
  <1>3. OneWaits(r.s) => OneFormatWaits'
    BY <1>1 DEF OneWaits, OneFormatWaits
  <1>4. Held(r.s) /\ Placed(r.s, call) => WaitingLossIsHeld'
    BY <1>1
    DEF Held, Placed, WaitingLossIsHeld, Delays, Method, ShapeOf, Facade
  <1>5. Sound(r.s) => ReferenceIsSound'
    BY <1>1 DEF Sound, ReferenceIsSound
  <1> QED
    BY <1>2, <1>3, <1>4, <1>5

LEMMA FacadeFacts ==
    ASSUME TypeOK
    PROVE  /\ Facade \in Facades
           /\ OneFormatWaits => OneWaits(Facade)
           /\ WaitingLossIsHeld => Held(Facade)
           /\ ReferenceIsSound => Sound(Facade)
  BY FacadeType
  DEF Facade, OneFormatWaits, OneWaits, WaitingLossIsHeld, Held,
      Placeholder, ReferenceIsSound, Sound

(* The two calls that return no frame. *)
LEMMA QuietCalls ==
    ASSUME TypeOK
    PROVE  /\ \A method \in Methods : SetConcealMethod(method) =>
                 /\ TypeOK' /\ OneFormatWaits' /\ WaitingLossIsHeld'
                 /\ ReferenceIsSound => ReferenceIsSound'
           /\ \A all \in BOOLEAN : ClearTransport(all) =>
                 /\ TypeOK'
                 /\ OneFormatWaits => OneFormatWaits'
                 /\ WaitingLossIsHeld => WaitingLossIsHeld'
                 /\ ReferenceIsSound => ReferenceIsSound'
  <1>a. NoLosses \in [Formats -> 0..UsizeMax] /\ \A g \in Formats : NoLosses[g] = 0
    BY UsizeAssumption DEF NoLosses
  <1>b. Quiet("set") \in Outcome /\ Quiet("clear") \in Outcome
    BY SlotTypes DEF Quiet, Outcome, CallNames
  <1>c. NoStatistics \in Statistics /\ 0 \in 0..U64Max
    BY CounterAssumption DEF NoStatistics, Statistics
  <1>1. ASSUME NEW method \in Methods, SetConcealMethod(method)
        PROVE  /\ TypeOK' /\ OneFormatWaits' /\ WaitingLossIsHeld'
               /\ ReferenceIsSound => ReferenceIsSound'
    <2>1. /\ user' = method
          /\ fifo' = ClearedFifo(fifo)
          /\ pending' = NoLosses
          /\ out' = Quiet("set")
          /\ dec' = dec /\ mux' = mux /\ stats' = stats
      BY <1>1 DEF SetConcealMethod
    <2>2. fifo' \in Delay
      BY <2>1, SlotTypes DEF TypeOK, ClearedFifo, Delay
    <2>3. TypeOK'
      BY <2>1, <2>2, <1>a, <1>b DEF TypeOK
    <2> QED
      BY <2>1, <2>3, <1>a
      DEF OneFormatWaits, WaitingLossIsHeld, ReferenceIsSound
  <1>2. ASSUME NEW all \in BOOLEAN, ClearTransport(all)
        PROVE  /\ TypeOK'
               /\ OneFormatWaits => OneFormatWaits'
               /\ WaitingLossIsHeld => WaitingLossIsHeld'
               /\ ReferenceIsSound => ReferenceIsSound'
    <2>1. /\ stats' = IF all THEN NoStatistics
                      ELSE [stats EXCEPT !.total_bytes = 0, !.bad_bytes = 0]
          /\ out' = Quiet("clear")
          /\ dec' = dec /\ mux' = mux /\ fifo' = fifo
          /\ pending' = pending /\ user' = user
      BY <1>2 DEF ClearTransport
    <2>2. stats' \in Statistics
      BY <2>1, <1>c DEF TypeOK, Statistics
    <2>3. TypeOK'
      BY <2>1, <2>2, <1>b DEF TypeOK
    <2> QED
      BY <2>1, <2>3
      DEF OneFormatWaits, WaitingLossIsHeld, ReferenceIsSound,
          Delays, Method, ShapeOf, Facade, Quiet
  <1> QED
    BY <1>1, <1>2

(* What every step keeps, by entry point. *)
LEMMA StepHolds ==
    ASSUME TypeOK, [Next]_vars
    PROVE  /\ TypeOK'
           /\ /\ "named" \notin EntryPoints
              /\ OneFormatWaits /\ WaitingLossIsHeld
              => OneFormatWaits' /\ WaitingLossIsHeld'
           /\ /\ EntryPoints \cap {"decode", "named"} = {}
              /\ ReferenceIsSound
              => ReferenceIsSound'
  <1> DEFINE Kept ==
           /\ TypeOK'
           /\ /\ "named" \notin EntryPoints
              /\ OneFormatWaits /\ WaitingLossIsHeld
              => OneFormatWaits' /\ WaitingLossIsHeld'
           /\ /\ EntryPoints \cap {"decode", "named"} = {}
              /\ ReferenceIsSound
              => ReferenceIsSound'
  <1> SUFFICES Kept
    OBVIOUS
  <1>1. ASSUME NEW f \in Formats, NEW au \in AccessUnit, Decode(f, au)
        PROVE  Kept
    <2> DEFINE r == DecodeInner(Facade, f, au)
    <2>1. r \in Outcomes /\ (Held(Facade) => NoneWaits(r.s))
      BY FacadeFacts, DecodeInnerType
    <2>2. NoneWaits(r.s) =>
              OneWaits(r.s) /\ Held(r.s) /\ Placed(r.s, "decode")
      BY DEF NoneWaits, OneWaits, Held, Placed
    <2>3. Return("decode", f, FALSE, r) /\ "decode" \in EntryPoints
      BY <1>1 DEF Decode, Return
    <2> HIDE DEF r
    <2> QED
      BY <2>1, <2>2, <2>3, FacadeFacts, ReturnType
  <1>2. ASSUME NEW f \in Formats, NEW au \in AccessUnit, NEW cut \in BOOLEAN,
               DecodeWithFlags(f, au, cut)
        PROVE  Kept
    <2> DEFINE s == PrepareFlags(Facade, cut)
               r == DecodeOrConceal(s, f, au)
    <2>1. /\ s \in Facades
          /\ Held(Facade) => Held(s)
          /\ Sound(Facade) => Sound(s)
      BY FacadeFacts, PrepareFlagsType
    <2>2. Return("flagged", f, cut, r)
      BY <1>2 DEF DecodeWithFlags
    <2> HIDE DEF s
    <2>3. /\ r \in Outcomes
          /\ Held(s) => /\ OneWaits(r.s) /\ Held(r.s)
                         /\ Placed(r.s, "flagged")
          /\ Sound(s) => Sound(r.s)
      BY <2>1, DecodeOrConcealType
    <2> HIDE DEF r
    <2> QED
      BY <2>1, <2>2, <2>3, FacadeFacts, ReturnType
  <1>3. ASSUME NEW f \in Formats, NEW au \in AccessUnit, DecodeNamed(f, au)
        PROVE  Kept
    <2> DEFINE r == PlainDecode(Facade, f, au)
    <2>1. r \in Outcomes
      BY FacadeFacts, PlainDecodeType
    <2>2. Return("named", f, FALSE, r) /\ "named" \in EntryPoints
      BY <1>3 DEF DecodeNamed, Return
    <2> HIDE DEF r
    <2> QED
      BY <2>1, <2>2, ReturnType
  <1>4. ASSUME NEW f \in Formats, NEW cut \in BOOLEAN, ConcealFlag(f, cut)
        PROVE  Kept
    <2> DEFINE s == PrepareFlags(Facade, cut)
               r == ConcealCall(s, f)
    <2>1. /\ s \in Facades
          /\ OneWaits(Facade) => OneWaits(s)
          /\ Held(Facade) => Held(s)
          /\ Sound(Facade) => Sound(s)
      BY FacadeFacts, PrepareFlagsType
    <2>2. Return("conceal", f, cut, r)
      BY <1>4 DEF ConcealFlag
    <2> HIDE DEF s
    <2>3. /\ r \in Outcomes
          /\ OneWaits(s) /\ Held(s) => /\ OneWaits(r.s) /\ Held(r.s)
                                       /\ Placed(r.s, "conceal")
          /\ Sound(s) => Sound(r.s)
      BY <2>1, ConcealCallType
    <2> HIDE DEF r
    <2> QED
      BY <2>1, <2>2, <2>3, FacadeFacts, ReturnType
  <1>5. ASSUME NEW f \in Formats, NEW cut \in BOOLEAN, FlushFlag(f, cut)
        PROVE  Kept
    <2> DEFINE s == PrepareFlags(Facade, cut)
               r == FlushCall(s, f)
    <2>1. /\ s \in Facades
          /\ OneWaits(Facade) => OneWaits(s)
          /\ Held(Facade) => Held(s)
          /\ Sound(Facade) => Sound(s)
      BY FacadeFacts, PrepareFlagsType
    <2>2. Return("flush", f, cut, r)
      BY <1>5 DEF FlushFlag
    <2> HIDE DEF s
    <2>3. /\ r \in Outcomes
          /\ OneWaits(s) => OneWaits(r.s)
          /\ Held(s) => Held(r.s) /\ Placed(r.s, "flush")
          /\ Sound(s) => Sound(r.s)
      BY <2>1, FlushCallType
    <2> HIDE DEF r
    <2> QED
      BY <2>1, <2>2, <2>3, FacadeFacts, ReturnType
  <1>6. CASE \/ \E method \in Methods : SetConcealMethod(method)
             \/ \E all \in BOOLEAN : ClearTransport(all)
    BY <1>6, QuietCalls
  <1>7. CASE UNCHANGED vars
    BY <1>7
    DEF vars, TypeOK, OneFormatWaits, WaitingLossIsHeld, ReferenceIsSound,
        Delays, Method, ShapeOf, Facade
  <1> HIDE DEF Kept
  <1> QED
    BY <1>1, <1>2, <1>3, <1>4, <1>5, <1>6, <1>7 DEF Next

LEMMA InitHolds ==
    Init => TypeOK /\ OneFormatWaits /\ WaitingLossIsHeld /\ ReferenceIsSound
  <1> SUFFICES ASSUME NEW c \in Configs,
                      dec = FreshDecoder(c),
                      mux = IF Framing = "latm" THEN c ELSE NoMux,
                      fifo = EmptyFifo, pending = NoLosses,
                      user = "default", stats = NoStatistics,
                      out = Quiet("new")
               PROVE  /\ TypeOK /\ OneFormatWaits /\ WaitingLossIsHeld
                      /\ ReferenceIsSound
    BY DEF Init
  <1>1. /\ dec \in Decoder
        /\ \A g \in Formats : dec.path[g].ref = NoContent /\ dec.tail[g] = NoContent
    BY FreshDecoderType DEF FreshDecoder, FreshPath
  <1>2. fifo \in Delay
    BY SlotTypes DEF EmptyFifo, Delay, Shapes
  <1>3. pending \in [Formats -> 0..UsizeMax] /\ \A g \in Formats : pending[g] = 0
    BY UsizeAssumption DEF NoLosses
  <1>4. stats \in Statistics
    BY CounterAssumption DEF NoStatistics, Statistics
  <1>5. out \in Outcome
    BY SlotTypes DEF Quiet, Outcome, CallNames
  <1>6. TypeOK
    BY <1>1, <1>2, <1>3, <1>4, <1>5 DEF TypeOK
  <1> QED
    BY <1>1, <1>3, <1>6, MarkerAssumption, ContentAssumption
    DEF OneFormatWaits, WaitingLossIsHeld, ReferenceIsSound

-----------------------------------------------------------------------------
(* What each function does beyond its type: the statistics count an access *)
(* unit once, contents come from the facade the function is given, and a   *)
(* frame that the delay holds is played next.                              *)

Drawn(s, C) ==
    /\ s.fifo.slot.content \in C
    /\ \A g \in Formats : s.dec.path[g].ref \in C /\ s.dec.tail[g] \in C

(* An overlap is what the reference left behind, and a frame that was      *)
(* concealed as silence leaves none.                                       *)
Tidy(d) ==
    \A g \in Formats :
        \/ ~HasReference(d.path[g])
        \/ d.path[g].losses > FadeOutLosses + 1
        => d.tail[g] = NoContent

(* A delay that is off holds silence. *)
Off(s) == s.fifo.shape = NoShape => s.fifo.slot = Silence

(* A call that keeps the shape of the delay plays what the delay held. *)
Plays(s, r) ==
    s.fifo.shape # NoShape /\ r.s.fifo.shape = s.fifo.shape
        => r.slot = s.fifo.slot

Synthesized(slot) == slot.kind \in {"concealed", "interpolated"}

(* The statistics a and b are those before and after one access unit. *)
Counted(a, b, ok, damaged) ==
    /\ b.total_access_units = IF ok THEN SaturatingAdd(a.total_access_units, 1)
                              ELSE a.total_access_units
    /\ b.bad_access_units = IF damaged THEN SaturatingAdd(a.bad_access_units, 1)
                            ELSE a.bad_access_units
    /\ a.bad_bytes <= a.total_bytes => b.bad_bytes <= b.total_bytes

LEMMA CountFacts ==
    ASSUME NEW s \in Facades, NEW bytes \in Nat, NEW bad \in BOOLEAN
    PROVE  Counted(s.stats, CountAccessUnit(s, bytes, bad).stats, ~bad, bad)
  <1> PICK a : a = s.stats
    OBVIOUS
  <1>1. /\ a \in Statistics
        /\ CountAccessUnit(s, bytes, bad).stats =
             [a EXCEPT
                !.total_bytes = SaturatingAdd(@, bytes),
                !.bad_bytes = IF bad THEN SaturatingAdd(@, bytes) ELSE @,
                !.bad_access_units = IF bad THEN SaturatingAdd(@, 1) ELSE @,
                !.total_access_units =
                    IF bad THEN @ ELSE SaturatingAdd(@, 1)]
    BY DEF CountAccessUnit, Facades, Statistics
  <1>2. \A m, n \in 0..U64Max : m <= n =>
            /\ m <= SaturatingAdd(n, bytes)
            /\ SaturatingAdd(m, bytes) <= SaturatingAdd(n, bytes)
    BY CounterAssumption DEF SaturatingAdd, LeastOf
  <1>3. a.total_bytes \in 0..U64Max /\ a.bad_bytes \in 0..U64Max
    BY <1>1 DEF Statistics
  <1>4. CASE bad
    BY <1>1, <1>2, <1>3, <1>4 DEF Counted, Statistics
  <1>5. CASE ~bad
    BY <1>1, <1>2, <1>3, <1>5 DEF Counted, Statistics
  <1> QED
    BY <1>4, <1>5

LEMMA RecoveredFacts ==
    ASSUME NEW s \in Facades
    PROVE  Counted(s.stats, CountRecovered(s).stats, TRUE, FALSE)
  BY DEF CountRecovered, Facades, Statistics, Counted

LEMMA CountedTwice ==
    ASSUME NEW a, NEW b, NEW c,
           Counted(a, b, FALSE, TRUE), Counted(b, c, TRUE, FALSE)
    PROVE  Counted(a, c, TRUE, TRUE)
  BY DEF Counted

LEMMA RenderFacts ==
    ASSUME NEW s \in Facades, NEW slot \in Slot
    PROVE  LET r == Render(s, slot)
           IN /\ r.s.stats = s.stats
              /\ Off(r.s)
              /\ Plays(s, r)
              /\ ~Delays(s) => r.slot = slot
              /\ Delays(s) => r.slot = IF s.fifo.shape = ShapeOf(s)
                                       THEN s.fifo.slot ELSE Silence
              /\ \A C : /\ NoContent \in C /\ slot.content \in C
                        /\ Drawn(s, C)
                        => Drawn(r.s, C) /\ r.slot.content \in C
  <1> DEFINE r == Render(s, slot)
  <1>1. CASE ~Delays(s)
    <2>1. r = [s |-> [s EXCEPT !.fifo = EmptyFifo], ok |-> TRUE, slot |-> slot]
      BY <1>1, ShapeType DEF Render, Returned
    <2>2. /\ r.s.fifo = EmptyFifo /\ r.s.dec = s.dec /\ r.s.stats = s.stats
          /\ r.slot = slot
      BY <2>1 DEF Facades
    <2>3. /\ EmptyFifo.shape = NoShape /\ EmptyFifo.slot = Silence
          /\ Silence.content = NoContent
      BY DEF EmptyFifo, Silence
    <2> HIDE DEF r
    <2> QED
      BY <1>1, <2>2, <2>3 DEF Off, Plays, Drawn, r
  <1>2. CASE Delays(s)
    <2>1. r = [s    |-> [s EXCEPT !.fifo = [shape |-> ShapeOf(s), slot |-> slot]],
               ok   |-> TRUE,
               slot |-> IF s.fifo.shape = ShapeOf(s) THEN s.fifo.slot
                        ELSE Silence]
      BY <1>2, ShapeType DEF Render, Returned
    <2>2. /\ r.s.fifo = [shape |-> ShapeOf(s), slot |-> slot]
          /\ r.s.dec = s.dec /\ r.s.stats = s.stats
          /\ r.slot = IF s.fifo.shape = ShapeOf(s) THEN s.fifo.slot
                      ELSE Silence
      BY <2>1 DEF Facades
    <2>3. Silence.content = NoContent /\ ShapeOf(s) # NoShape
      BY <1>2, ShapeType DEF Silence
    <2> HIDE DEF r
    <2> QED
      BY <1>2, <2>2, <2>3 DEF Off, Plays, Drawn, r
  <1> QED
    BY <1>1, <1>2

LEMMA ReplaceFacts ==
    ASSUME NEW s \in Facades, NEW slot \in Slot
    PROVE  LET t == ReplaceHeld(s, slot)
           IN /\ t.stats = s.stats
              /\ t.fifo.shape = s.fifo.shape
              /\ t.fifo.slot = IF Delays(s) /\ s.fifo.shape = ShapeOf(s)
                               THEN slot ELSE s.fifo.slot
              /\ Off(s) => Off(t)
              /\ \A C : slot.content \in C /\ Drawn(s, C) => Drawn(t, C)
  <1> DEFINE t == ReplaceHeld(s, slot)
  <1>1. CASE Delays(s) /\ s.fifo.shape = ShapeOf(s)
    <2>1. t = [s EXCEPT !.fifo = [s.fifo EXCEPT !.slot = slot]]
      BY <1>1 DEF ReplaceHeld, Facades
    <2>2. /\ t.stats = s.stats /\ t.dec = s.dec
          /\ t.fifo.shape = s.fifo.shape /\ t.fifo.slot = slot
      BY <2>1 DEF Facades, Delay
    <2> HIDE DEF t
    <2> QED
      BY <1>1, <2>2, ShapeType DEF Off, Drawn, t
  <1>2. CASE ~(Delays(s) /\ s.fifo.shape = ShapeOf(s))
    BY <1>2 DEF ReplaceHeld
  <1> QED
    BY <1>1, <1>2

LEMMA ConcealFrameFacts ==
    ASSUME NEW s \in Facades, NEW f \in Formats, NEW mute \in BOOLEAN
    PROVE  LET t == ConcealFrame(s, f, mute)
               p == s.dec.path[f]
           IN /\ t.stats = s.stats
              /\ t.dec.path[f] = ConcealedPath(p, mute)
              /\ t.dec.tail[f] = IF ConcealedLevel(p, mute) = Silent
                                 THEN NoContent ELSE p.ref
              /\ Synthesized(ConcealedSlot(s, f, mute))
              /\ Tidy(s.dec) => Tidy(t.dec)
              /\ \A C : NoContent \in C /\ Drawn(s, C)
                        => /\ Drawn(t, C)
                           /\ ConcealedSlot(s, f, mute).content \in C
  <1> DEFINE t == ConcealFrame(s, f, mute)
             p == s.dec.path[f]
             q == [s.dec.path EXCEPT ![f] = ConcealedPath(p, mute)]
             u == [s.dec.tail EXCEPT ![f] =
                     IF ConcealedLevel(p, mute) = Silent
                     THEN NoContent ELSE p.ref]
  <1>1. /\ p \in Path
        /\ s.dec.path \in [Formats -> Path]
        /\ s.dec.tail \in [Formats -> Contents \cup {NoContent}]
    BY DEF Facades, Decoder
  <1>2. ConcealedPath(p, mute).ref = p.ref
    BY <1>1, ConcealedPathType
  <1>3. /\ t.dec.path = q /\ t.dec.tail = u
        /\ t.fifo = s.fifo /\ t.stats = s.stats
    BY DEF ConcealFrame, Facades, Decoder
  <1> HIDE DEF t
  <1>4. /\ q[f] = ConcealedPath(p, mute)
        /\ \A g \in Formats : q[g].ref = s.dec.path[g].ref
    BY <1>1, <1>2
  <1>5. /\ u[f] = IF ConcealedLevel(p, mute) = Silent THEN NoContent ELSE p.ref
        /\ \A g \in Formats : u[g] \in {NoContent, p.ref, s.dec.tail[g]}
    BY <1>1
  <1>6. /\ ConcealedSlot(s, f, mute).content = p.ref
        /\ Synthesized(ConcealedSlot(s, f, mute))
    BY DEF ConcealedSlot, Synthesized
  <1> HIDE DEF q, u
  <1>7. ASSUME NEW C, NoContent \in C, Drawn(s, C)
        PROVE  Drawn(t, C) /\ p.ref \in C
    <2>1. p.ref \in C
      BY <1>7 DEF Drawn
    <2> QED
      BY <1>3, <1>4, <1>5, <1>7, <2>1 DEF Drawn
  <1>8. ASSUME Tidy(s.dec)
        PROVE  Tidy(t.dec)
    <2>1. ConcealedPath(p, mute).losses > FadeOutLosses + 1
            => ConcealedLevel(p, mute) = Silent
      BY <1>1, UsizeAssumption
      DEF ConcealedPath, ConcealingPath, SaturatingInc, LeastOf, Path,
          ConcealedLevel, LossLevel, FadeOutLosses
    <2>2. /\ ~HasReference(q[f]) \/ q[f].losses > FadeOutLosses + 1
            => u[f] = NoContent
      BY <1>2, <1>4, <1>5, <2>1 DEF HasReference
    <2>3. \A g \in Formats : g # f => q[g] = s.dec.path[g] /\ u[g] = s.dec.tail[g]
      BY <1>1 DEF q, u
    <2> QED
      BY <1>3, <1>8, <2>2, <2>3 DEF Tidy
  <1> QED
    BY <1>3, <1>4, <1>5, <1>6, <1>7, <1>8 DEF t

LEMMA InterpolateFrameFacts ==
    ASSUME NEW s \in Facades, NEW f \in Formats
    PROVE  LET t == InterpolateFrame(s, f)
               p == s.dec.path[f]
           IN /\ t.stats = s.stats
              /\ t.dec.path[f] = InterpolatedPath(p)
              /\ t.dec.tail[f] = p.ref
              /\ Synthesized(InterpolatedSlot(s, f))
              /\ Tidy(s.dec) => Tidy(t.dec)
              /\ \A C : Drawn(s, C)
                        => Drawn(t, C) /\ InterpolatedSlot(s, f).content \in C
  <1> DEFINE t == InterpolateFrame(s, f)
             p == s.dec.path[f]
             q == [s.dec.path EXCEPT ![f] = InterpolatedPath(p)]
             u == [s.dec.tail EXCEPT ![f] = p.ref]
  <1>1. /\ p \in Path
        /\ s.dec.path \in [Formats -> Path]
        /\ s.dec.tail \in [Formats -> Contents \cup {NoContent}]
    BY DEF Facades, Decoder
  <1>2. InterpolatedPath(p).ref = p.ref
    BY <1>1, ConcealedPathType
  <1>3. /\ t.dec.path = q /\ t.dec.tail = u
        /\ t.fifo = s.fifo /\ t.stats = s.stats
    BY DEF InterpolateFrame, Facades, Decoder
  <1> HIDE DEF t
  <1>4. /\ q[f] = InterpolatedPath(p)
        /\ \A g \in Formats : q[g].ref = s.dec.path[g].ref
    BY <1>1, <1>2
  <1>5. u[f] = p.ref /\ \A g \in Formats : u[g] \in {p.ref, s.dec.tail[g]}
    BY <1>1
  <1>6. /\ InterpolatedSlot(s, f).content = p.ref
        /\ Synthesized(InterpolatedSlot(s, f))
    BY DEF InterpolatedSlot, Synthesized
  <1> HIDE DEF q, u
  <1>7. ASSUME NEW C, Drawn(s, C)
        PROVE  Drawn(t, C) /\ p.ref \in C
    <2>1. p.ref \in C
      BY <1>7 DEF Drawn
    <2> QED
      BY <1>3, <1>4, <1>5, <1>7, <2>1 DEF Drawn
  <1>8. ASSUME Tidy(s.dec)
        PROVE  Tidy(t.dec)
    <2>1. InterpolatedPath(p).losses = 0 /\ ~(0 > FadeOutLosses + 1)
      BY <1>1 DEF InterpolatedPath, Path, FadeOutLosses
    <2>2. /\ ~HasReference(q[f]) \/ q[f].losses > FadeOutLosses + 1
            => u[f] = NoContent
      BY <1>2, <1>4, <1>5, <2>1 DEF HasReference
    <2>3. \A g \in Formats : g # f => q[g] = s.dec.path[g] /\ u[g] = s.dec.tail[g]
      BY <1>1 DEF q, u
    <2> QED
      BY <1>3, <1>8, <2>2, <2>3 DEF Tidy
  <1> QED
    BY <1>3, <1>4, <1>5, <1>6, <1>7, <1>8 DEF t

(* What the functions below a call leave alone. *)
Keeps(s, t) ==
    /\ t.mux = s.mux /\ t.dec.cfg = s.dec.cfg /\ t.stats = s.stats
    /\ Off(s) => Off(t)
    /\ Tidy(s.dec) => Tidy(t.dec)
    /\ \A C : NoContent \in C /\ Drawn(s, C) => Drawn(t, C)

LEMMA KeepsOn ==
    ASSUME NEW s, NEW t, NEW u, Keeps(s, t), Keeps(t, u)
    PROVE  Keeps(s, u)
  BY DEF Keeps

LEMMA DropOtherFacts ==
    ASSUME NEW s \in Facades, NEW f \in Formats
    PROVE  LET t == DropOther(s, f)
           IN /\ Keeps(s, t)
              /\ t.dec = s.dec /\ t.fifo = s.fifo
              /\ t.pending[f] = s.pending[f]
              /\ NoneWaits(s) => NoneWaits(t)
  <1> DEFINE t == DropOther(s, f)
  <1>1. /\ t.dec = s.dec /\ t.fifo = s.fifo /\ t.mux = s.mux
        /\ t.stats = s.stats
    BY DEF DropOther, Facades
  <1>2. /\ t.pending[f] = s.pending[f]
        /\ \A g \in Formats : t.pending[g] # 0 => g = f
    BY DropOtherType
  <1> HIDE DEF t
  <1>3. Keeps(s, t)
    BY <1>1 DEF Keeps, Off, Drawn
  <1> QED
    BY <1>1, <1>2, <1>3 DEF NoneWaits, t

(* The frame that is held, concealed from the past or interpolated. *)
HeldConcealed(s, f) ==
    ReplaceHeld(ConcealFrame(s, f, FALSE), ConcealedSlot(s, f, FALSE))
HeldInterpolated(s, f) ==
    ReplaceHeld(InterpolateFrame(s, f), InterpolatedSlot(s, f))

(* The delay holds a frame in the shape of the decoder. *)
Fits(s) == Delays(s) /\ s.fifo.shape = ShapeOf(s)

LEMMA HeldConcealedFacts ==
    ASSUME NEW s \in Facades, NEW f \in Formats
    PROVE  LET t == HeldConcealed(s, f)
               p == s.dec.path[f]
           IN /\ t \in Facades
              /\ Keeps(s, t)
              /\ t.pending = s.pending
              /\ t.fifo.shape = s.fifo.shape
              /\ t.fifo.slot = IF Fits(s) THEN ConcealedSlot(s, f, FALSE)
                               ELSE s.fifo.slot
              /\ t.dec.path[f] = ConcealedPath(p, FALSE)
              /\ t.dec.tail[f] = IF ConcealedLevel(p, FALSE) = Silent
                                 THEN NoContent ELSE p.ref
  <1> PICK slot : slot = ConcealedSlot(s, f, FALSE)
    OBVIOUS
  <1> PICK c : c = ConcealFrame(s, f, FALSE)
    OBVIOUS
  <1>a. FALSE \in BOOLEAN
    OBVIOUS
  <1>1. /\ c \in Facades
        /\ c.dec.cfg = s.dec.cfg
        /\ c.mux = s.mux /\ c.fifo = s.fifo /\ c.pending = s.pending
        /\ slot \in Slot
    BY <1>a, ConcealFrameType
  <1>2. /\ c.stats = s.stats
        /\ c.dec.path[f] = ConcealedPath(s.dec.path[f], FALSE)
        /\ c.dec.tail[f] = IF ConcealedLevel(s.dec.path[f], FALSE) = Silent
                           THEN NoContent ELSE s.dec.path[f].ref
        /\ Tidy(s.dec) => Tidy(c.dec)
        /\ \A C : NoContent \in C /\ Drawn(s, C)
                  => Drawn(c, C) /\ slot.content \in C
    BY <1>a, ConcealFrameFacts
  <1> PICK t : t = ReplaceHeld(c, slot)
    OBVIOUS
  <1>3. /\ t \in Facades
        /\ t.dec = c.dec /\ t.mux = c.mux /\ t.pending = c.pending
    BY <1>1, ReplaceType
  <1>4. /\ t.stats = c.stats
        /\ t.fifo.shape = c.fifo.shape
        /\ t.fifo.slot = IF Delays(c) /\ c.fifo.shape = ShapeOf(c)
                         THEN slot ELSE c.fifo.slot
        /\ Off(c) => Off(t)
        /\ \A C : slot.content \in C /\ Drawn(c, C) => Drawn(t, C)
    BY <1>1, ReplaceFacts
  <1>5. Fits(s) <=> Delays(c) /\ c.fifo.shape = ShapeOf(c)
    BY <1>1, SameDelay DEF Fits
  <1>6. Off(s) => Off(c)
    BY <1>1 DEF Off
  <1>7. Keeps(s, t)
    BY <1>1, <1>2, <1>3, <1>4, <1>6 DEF Keeps
  <1> QED
    BY <1>1, <1>2, <1>3, <1>4, <1>5, <1>7 DEF HeldConcealed

LEMMA HeldInterpolatedFacts ==
    ASSUME NEW s \in Facades, NEW f \in Formats
    PROVE  LET t == HeldInterpolated(s, f)
           IN /\ t \in Facades
              /\ Keeps(s, t)
              /\ t.pending = s.pending
              /\ t.fifo.shape = s.fifo.shape
              /\ t.fifo.slot = IF Fits(s) THEN InterpolatedSlot(s, f)
                               ELSE s.fifo.slot
              /\ t.dec.path[f] = InterpolatedPath(s.dec.path[f])
              /\ t.dec.tail[f] = s.dec.path[f].ref
  <1> PICK slot : slot = InterpolatedSlot(s, f)
    OBVIOUS
  <1> PICK c : c = InterpolateFrame(s, f)
    OBVIOUS
  <1>1. /\ c \in Facades
        /\ c.dec.cfg = s.dec.cfg
        /\ c.mux = s.mux /\ c.fifo = s.fifo /\ c.pending = s.pending
        /\ slot \in Slot
    BY InterpolateFrameType
  <1>2. /\ c.stats = s.stats
        /\ c.dec.path[f] = InterpolatedPath(s.dec.path[f])
        /\ c.dec.tail[f] = s.dec.path[f].ref
        /\ Tidy(s.dec) => Tidy(c.dec)
        /\ \A C : Drawn(s, C) => Drawn(c, C) /\ slot.content \in C
    BY InterpolateFrameFacts
  <1> PICK t : t = ReplaceHeld(c, slot)
    OBVIOUS
  <1>3. /\ t \in Facades
        /\ t.dec = c.dec /\ t.mux = c.mux /\ t.pending = c.pending
    BY <1>1, ReplaceType
  <1>4. /\ t.stats = c.stats
        /\ t.fifo.shape = c.fifo.shape
        /\ t.fifo.slot = IF Delays(c) /\ c.fifo.shape = ShapeOf(c)
                         THEN slot ELSE c.fifo.slot
        /\ Off(c) => Off(t)
        /\ \A C : slot.content \in C /\ Drawn(c, C) => Drawn(t, C)
    BY <1>1, ReplaceFacts
  <1>5. Fits(s) <=> Delays(c) /\ c.fifo.shape = ShapeOf(c)
    BY <1>1, SameDelay DEF Fits
  <1>6. Off(s) => Off(c)
    BY <1>1 DEF Off
  <1>7. Keeps(s, t)
    BY <1>1, <1>2, <1>3, <1>4, <1>6 DEF Keeps
  <1> QED
    BY <1>1, <1>2, <1>3, <1>4, <1>5, <1>7 DEF HeldInterpolated

(* What a call that works on s in format f, and ends as r, does: "fresh"   *)
(* are the contents it may bring in beside those of s.                     *)
Ends(s, r, fresh) ==
    /\ Off(s) => Off(r.s)
    /\ Tidy(s.dec) => Tidy(r.s.dec)
    /\ \A C : NoContent \in C /\ fresh \subseteq C /\ Drawn(s, C)
              => Drawn(r.s, C) /\ r.slot.content \in C

(* A loss that waits in format f and can be concealed. *)
Resolves(s, f) == s.pending[f] # 0 /\ CanConceal(s, f)

LEMMA DelayedConcealFacts ==
    ASSUME NEW s \in Facades, NEW f \in Formats, Delays(s)
    PROVE  LET r == DelayedConceal(s, f)
               p == s.dec.path[f]
           IN /\ Ends(s, r, {})
              /\ r.s.mux = s.mux /\ r.s.stats = s.stats
              /\ r.s.pending[f] = SaturatingInc(s.pending[f])
              /\ r.slot = IF s.fifo.shape # ShapeOf(s) THEN Silence
                          ELSE IF Resolves(s, f)
                          THEN ConcealedSlot(s, f, FALSE)
                          ELSE s.fifo.slot
              /\ r.s.dec.path[f] = IF Resolves(s, f)
                                   THEN ConcealedPath(p, FALSE) ELSE p
              /\ r.s.dec.tail[f] = IF ~Resolves(s, f) THEN s.dec.tail[f]
                                   ELSE IF ConcealedLevel(p, FALSE) = Silent
                                   THEN NoContent ELSE p.ref
  <1> PICK r : r = DelayedConceal(s, f)
    OBVIOUS
  <1> PICK d : d = DropOther(s, f)
    OBVIOUS
  <1>1. /\ d \in Facades /\ Keeps(s, d)
        /\ d.dec = s.dec /\ d.fifo = s.fifo
        /\ d.pending[f] = s.pending[f]
    BY DropOtherType, DropOtherFacts
  <1>2. Resolves(d, f) <=> Resolves(s, f)
    BY <1>1 DEF Resolves, CanConceal
  <1>3. ConcealedSlot(d, f, FALSE) = ConcealedSlot(s, f, FALSE)
    BY <1>1 DEF ConcealedSlot
  <1>4. (Fits(d) <=> Fits(s)) /\ ShapeOf(d) = ShapeOf(s)
    BY <1>1, SameDelay DEF Fits
  <1> PICK e : e = IF Resolves(d, f) THEN HeldConcealed(d, f) ELSE d
    OBVIOUS
  <1>5. /\ e \in Facades /\ Keeps(d, e) /\ e.pending = d.pending
        /\ e.fifo.shape = d.fifo.shape
        /\ e.fifo.slot = IF Resolves(d, f) /\ Fits(d)
                         THEN ConcealedSlot(d, f, FALSE) ELSE d.fifo.slot
        /\ e.dec.path[f] = IF Resolves(d, f)
                           THEN ConcealedPath(d.dec.path[f], FALSE)
                           ELSE d.dec.path[f]
        /\ e.dec.tail[f] = IF ~Resolves(d, f) THEN d.dec.tail[f]
                           ELSE IF ConcealedLevel(d.dec.path[f], FALSE)
                                   = Silent
                           THEN NoContent ELSE d.dec.path[f].ref
    <2>1. CASE Resolves(d, f)
      BY <1>1, <2>1, HeldConcealedFacts
    <2>2. CASE ~Resolves(d, f)
      BY <1>1, <2>2 DEF Keeps
    <2> QED
      BY <2>1, <2>2
  <1>6. Keeps(s, e)
    BY <1>1, <1>5, KeepsOn
  <1> PICK n : n = SaturatingInc(d.pending[f])
    OBVIOUS
  <1> PICK w : w = [e EXCEPT !.pending = [e.pending EXCEPT ![f] = n]]
    OBVIOUS
  <1>7. r = Render(w, Placeholder)
    BY <1>5 DEF DelayedConceal, Resolves, HeldConcealed, Facades
  <1>8. /\ w \in Facades
        /\ w.dec = e.dec /\ w.fifo = e.fifo /\ w.mux = e.mux
        /\ w.stats = e.stats /\ w.pending[f] = n
    <2>1. n \in 0..UsizeMax
      BY <1>1, SaturatingType DEF Facades
    <2>2. e.pending \in [Formats -> 0..UsizeMax]
      BY <1>5 DEF Facades
    <2> QED
      BY <1>5, <2>1, <2>2 DEF Facades
  <1>9. Keeps(s, w)
    BY <1>6, <1>8 DEF Keeps, Off, Drawn
  <1>10. Delays(w) /\ ShapeOf(w) = ShapeOf(s)
    BY <1>8, <1>9, SameDelay DEF Keeps
  <1>11. /\ r.s.dec = w.dec /\ r.s.mux = w.mux /\ r.s.pending = w.pending
         /\ r.s.stats = w.stats
         /\ Off(r.s)
         /\ r.slot = IF w.fifo.shape = ShapeOf(w) THEN w.fifo.slot ELSE Silence
         /\ \A C : /\ NoContent \in C /\ Placeholder.content \in C
                   /\ Drawn(w, C)
                   => Drawn(r.s, C) /\ r.slot.content \in C
    <2>1. Placeholder \in Slot /\ w \in Facades
      BY <1>8, SlotTypes
    <2>2. r.s.dec = w.dec /\ r.s.mux = w.mux /\ r.s.pending = w.pending
      BY ONLY <1>7, <2>1, RenderType
    <2> QED
      BY ONLY <1>7, <1>10, <2>1, <2>2, RenderFacts
  <1>12. Ends(s, r, {})
    BY <1>9, <1>11 DEF Ends, Keeps, Placeholder
  <1>13. r.slot = IF s.fifo.shape # ShapeOf(s) THEN Silence
                  ELSE IF Resolves(s, f) THEN ConcealedSlot(s, f, FALSE)
                  ELSE s.fifo.slot
    <2>1. w.fifo.shape = s.fifo.shape
      BY <1>1, <1>5, <1>8
    <2>2. w.fifo.slot = IF Resolves(s, f) /\ Fits(s)
                        THEN ConcealedSlot(s, f, FALSE) ELSE s.fifo.slot
      BY <1>1, <1>2, <1>3, <1>4, <1>5, <1>8
    <2> QED
      BY <1>10, <1>11, <2>1, <2>2 DEF Fits
  <1>14. /\ r.s.dec.path[f] = IF Resolves(s, f)
                              THEN ConcealedPath(s.dec.path[f], FALSE)
                              ELSE s.dec.path[f]
         /\ r.s.dec.tail[f] = IF ~Resolves(s, f) THEN s.dec.tail[f]
                              ELSE IF ConcealedLevel(s.dec.path[f], FALSE)
                                      = Silent
                              THEN NoContent ELSE s.dec.path[f].ref
    BY <1>1, <1>2, <1>5, <1>8, <1>11
  <1>15. r.s.mux = s.mux /\ r.s.stats = s.stats
    BY <1>9, <1>11 DEF Keeps
  <1>16. r.s.pending[f] = SaturatingInc(s.pending[f])
    BY <1>1, <1>8, <1>11
  <1> QED
    BY <1>12, <1>13, <1>14, <1>15, <1>16

LEMMA ConcealNowFacts ==
    ASSUME NEW s \in Facades, NEW f \in Formats
    PROVE  LET r == ConcealNow(s, f)
               mute == Method(s) = "mute"
               p == s.dec.path[f]
           IN /\ Ends(s, r, {}) /\ Plays(s, r)
              /\ r.s.mux = s.mux /\ r.s.stats = s.stats
              /\ ~Delays(s) => r.slot = ConcealedSlot(s, f, mute)
              /\ r.s.dec.path[f] = ConcealedPath(p, mute)
              /\ r.s.dec.tail[f] = IF ConcealedLevel(p, mute) = Silent
                                   THEN NoContent ELSE p.ref
  <1> PICK mute \in BOOLEAN : mute = (Method(s) = "mute")
    OBVIOUS
  <1> PICK c : c = ConcealFrame(s, f, mute)
    OBVIOUS
  <1> PICK slot : slot = ConcealedSlot(s, f, mute)
    OBVIOUS
  <1>1. /\ c \in Facades
        /\ c.dec.cfg = s.dec.cfg
        /\ c.mux = s.mux /\ c.fifo = s.fifo
        /\ slot \in Slot
    BY ConcealFrameType
  <1>2. /\ c.stats = s.stats
        /\ c.dec.path[f] = ConcealedPath(s.dec.path[f], mute)
        /\ c.dec.tail[f] = IF ConcealedLevel(s.dec.path[f], mute) = Silent
                           THEN NoContent ELSE s.dec.path[f].ref
        /\ Tidy(s.dec) => Tidy(c.dec)
        /\ \A C : NoContent \in C /\ Drawn(s, C)
                  => Drawn(c, C) /\ slot.content \in C
    BY ConcealFrameFacts
  <1> PICK r : r = ConcealNow(s, f)
    OBVIOUS
  <1>3. r = Render(c, slot)
    BY DEF ConcealNow
  <1>4. /\ r.s.dec = c.dec /\ r.s.mux = c.mux /\ r.s.stats = c.stats
        /\ Off(r.s) /\ Plays(c, r)
        /\ ~Delays(c) => r.slot = slot
        /\ \A C : /\ NoContent \in C /\ slot.content \in C
                  /\ Drawn(c, C)
                  => Drawn(r.s, C) /\ r.slot.content \in C
    <2>1. r.s.dec = c.dec /\ r.s.mux = c.mux
      BY ONLY <1>1, <1>3, RenderType
    <2> QED
      BY ONLY <1>1, <1>3, <2>1, RenderFacts
  <1>5. Delays(c) <=> Delays(s)
    BY <1>1, SameDelay
  <1>6. Ends(s, r, {})
    BY <1>2, <1>4 DEF Ends
  <1>7. Plays(s, r)
    BY <1>1, <1>4 DEF Plays
  <1> QED
    BY <1>1, <1>2, <1>4, <1>5, <1>6, <1>7

-----------------------------------------------------------------------------
(* What decoding does beyond its type *)

(* The configuration of the multiplex is the one of the decoder. *)
Matches(s) ==
    /\ s.mux # NoMux => s.mux = s.dec.cfg
    /\ Framing # "latm" => s.mux = NoMux

(* No two configurations differ in the frame length alone. *)
StreamsDiffer == \A c, d \in Configs : SameStream(c, d) => c = d

LEMMA FreshFacts ==
    ASSUME NEW c
    PROVE  /\ \A g \in Formats : /\ FreshDecoder(c).path[g].ref = NoContent
                                 /\ FreshDecoder(c).path[g].losses = 0
                                 /\ FreshDecoder(c).tail[g] = NoContent
           /\ FreshDecoder(c).cfg = c
           /\ Tidy(FreshDecoder(c))
  BY DEF FreshDecoder, FreshPath, Tidy

LEMMA ConfigureFacts ==
    ASSUME NEW s \in Facades, NEW au \in AccessUnit
    PROVE  LET t == Configure(s, au)
           IN /\ t.stats = s.stats /\ t.fifo = s.fifo
              /\ t.dec = s.dec \/ t.dec = FreshDecoder(au.mux)
              /\ au.fault = "framing" => t = s
              /\ Tidy(s.dec) => Tidy(t.dec)
              /\ StreamsDiffer /\ Matches(s) => Matches(t)
              /\ \A C : NoContent \in C /\ Drawn(s, C) => Drawn(t, C)
  <1> PICK t : t = Configure(s, au)
    OBVIOUS
  <1>1. CASE au.fault \in {"framing", "config"} \/ au.mux = SameMux
    <2>1. t = s
      BY <1>1 DEF Configure
    <2> QED
      BY <2>1
  <1>2. CASE ~(au.fault \in {"framing", "config"} \/ au.mux = SameMux)
    <2>1. /\ t.stats = s.stats /\ t.fifo = s.fifo
          /\ t.dec = IF SameStream(au.mux, s.dec.cfg) THEN s.dec
                     ELSE FreshDecoder(au.mux)
          /\ t.mux = IF Framing = "latm" THEN au.mux ELSE s.mux
      BY <1>2 DEF Configure, Facades
    <2>2. /\ \A g \in Formats : /\ FreshDecoder(au.mux).path[g].ref = NoContent
                                /\ FreshDecoder(au.mux).tail[g] = NoContent
          /\ FreshDecoder(au.mux).cfg = au.mux
          /\ Tidy(FreshDecoder(au.mux))
      BY FreshFacts
    <2>3. ASSUME NEW C, NoContent \in C, Drawn(s, C)
          PROVE  Drawn(t, C)
      BY <2>1, <2>2, <2>3 DEF Drawn
    <2>4. ASSUME StreamsDiffer, Matches(s)
          PROVE  Matches(t)
      <3>1. au.mux \in Configs /\ s.dec.cfg \in Configs
        BY <1>2 DEF AccessUnit, Facades, Decoder
      <3>2. SameStream(au.mux, s.dec.cfg) => au.mux = s.dec.cfg
        BY <2>4, <3>1 DEF StreamsDiffer
      <3>3. t.dec.cfg = au.mux
        BY <2>1, <2>2, <3>2
      <3> QED
        BY <2>1, <2>4, <3>3 DEF Matches
    <2>5. t.dec = s.dec \/ t.dec = FreshDecoder(au.mux)
      BY <2>1
    <2>6. Tidy(s.dec) => Tidy(t.dec)
      BY <2>2, <2>5
    <2>7. au.fault # "framing"
      BY <1>2
    <2> QED
      BY <2>1, <2>3, <2>4, <2>5, <2>6, <2>7
  <1> QED
    BY <1>1, <1>2

LEMMA AbsorbFacts ==
    ASSUME NEW s \in Facades, NEW f \in Formats, NEW content \in Contents
    PROVE  LET t == Absorb(s, f, content)
           IN /\ t.stats = s.stats /\ t.fifo = s.fifo /\ t.mux = s.mux
              /\ t.dec.cfg = s.dec.cfg
              /\ Tidy(s.dec) => Tidy(t.dec)
              /\ \A C : content \in C /\ Drawn(s, C) => Drawn(t, C)
  <1> PICK t : t = Absorb(s, f, content)
    OBVIOUS
  <1>1. CASE IsUsac(s.dec.cfg)
    BY <1>1 DEF Absorb
  <1>2. CASE ~IsUsac(s.dec.cfg)
    <2> PICK ramps \in BOOLEAN : ramps = RampsIn(s.dec.cfg, f)
      BY DEF RampsIn
    <2> PICK p : p = DecodedPath(s.dec.path[f], content, ramps)
      OBVIOUS
    <2>1. /\ s.dec.path \in [Formats -> Path]
          /\ s.dec.tail \in [Formats -> Contents \cup {NoContent}]
      BY DEF Facades, Decoder
    <2>2. p \in Path /\ p.ref = content
      BY <2>1, DecodedPathType
    <2>3. p.losses = 0
      <3> PICK q : q = IF ramps THEN FadedPath(s.dec.path[f])
                       ELSE s.dec.path[f]
        OBVIOUS
      <3>1. p = [q EXCEPT !.ref = content, !.losses = 0]
        BY DEF DecodedPath
      <3>2. DOMAIN p = DOMAIN q /\ "losses" \in DOMAIN p
        BY <2>2, <3>1 DEF Path
      <3> QED
        BY <3>1, <3>2
    <2>4. /\ t.stats = s.stats /\ t.fifo = s.fifo /\ t.mux = s.mux
          /\ t.dec.cfg = s.dec.cfg
          /\ t.dec.path = [s.dec.path EXCEPT ![f] = p]
          /\ t.dec.tail = [s.dec.tail EXCEPT ![f] = content]
      BY <1>2 DEF Absorb, Facades, Decoder
    <2>5. /\ t.dec.path[f] = p /\ t.dec.tail[f] = content
          /\ \A g \in Formats : g # f => /\ t.dec.path[g] = s.dec.path[g]
                                         /\ t.dec.tail[g] = s.dec.tail[g]
      BY <2>1, <2>4
    <2>6. ASSUME NEW C, content \in C, Drawn(s, C)
          PROVE  Drawn(t, C)
      BY <2>2, <2>4, <2>5, <2>6 DEF Drawn
    <2>7. Tidy(s.dec) => Tidy(t.dec)
      <3>1. HasReference(p) /\ ~(p.losses > FadeOutLosses + 1)
        BY <2>2, <2>3, ContentAssumption DEF HasReference, FadeOutLosses
      <3> QED
        BY <2>5, <3>1 DEF Tidy
    <2> QED
      BY <2>4, <2>6, <2>7
  <1> QED
    BY <1>1, <1>2

(* The contents that an access unit brings in. *)
Fresh(au) == IF au.fault \in {"none", "check"} THEN {au.content} ELSE {}

LEMMA AttemptFacts ==
    ASSUME NEW s \in Facades, NEW f \in Formats, NEW au \in AccessUnit
    PROVE  LET t == Attempt(s, f, au)
           IN /\ t.stats = s.stats /\ t.fifo = s.fifo
              /\ au.fault = "framing" => t.dec = s.dec
              /\ Tidy(s.dec) => Tidy(t.dec)
              /\ StreamsDiffer /\ Matches(s) => Matches(t)
              /\ \A C : /\ NoContent \in C /\ Fresh(au) \subseteq C
                        /\ Drawn(s, C)
                        => Drawn(t, C)
  <1> PICK c : c = Configure(s, au)
    OBVIOUS
  <1>1. /\ c \in Facades
        /\ c.stats = s.stats /\ c.fifo = s.fifo
        /\ au.fault = "framing" => c = s
        /\ Tidy(s.dec) => Tidy(c.dec)
        /\ StreamsDiffer /\ Matches(s) => Matches(c)
        /\ \A C : NoContent \in C /\ Drawn(s, C) => Drawn(c, C)
    BY ConfigureType, ConfigureFacts
  <1>2. au.content \in Contents
    BY DEF AccessUnit
  <1> PICK t : t = Attempt(s, f, au)
    OBVIOUS
  <1>3. CASE au.fault \in {"none", "check"}
    <2>1. t = Absorb(c, f, au.content)
      BY <1>3 DEF Attempt
    <2>2. /\ t.stats = c.stats /\ t.fifo = c.fifo /\ t.mux = c.mux
          /\ t.dec.cfg = c.dec.cfg
          /\ Tidy(c.dec) => Tidy(t.dec)
          /\ \A C : au.content \in C /\ Drawn(c, C) => Drawn(t, C)
      BY ONLY <1>1, <1>2, <2>1, AbsorbFacts, f \in Formats
    <2>3. Matches(c) => Matches(t)
      BY <2>2 DEF Matches
    <2>4. Fresh(au) = {au.content} /\ au.fault # "framing"
      BY <1>3 DEF Fresh
    <2> QED
      BY <1>1, <2>2, <2>3, <2>4
  <1>4. CASE au.fault \notin {"none", "check"}
    <2>1. t = c
      BY <1>4 DEF Attempt
    <2> QED
      BY <1>1, <2>1
  <1> QED
    BY <1>3, <1>4

LEMMA DecodedSlotType ==
    ASSUME NEW s \in Facades, NEW f \in Formats, NEW content \in Contents
    PROVE  /\ DecodedSlot(s, f, content) \in Slot
           /\ DecodedSlot(s, f, content).content = content
  <1> PICK ramps \in BOOLEAN : ramps = RampsIn(s.dec.cfg, f)
    BY DEF RampsIn
  <1>1. s.dec.path[f] \in Path
    BY DEF Facades, Decoder
  <1>2. DecodedLevel(s.dec.path[f], ramps) \in 0..Silent
    BY <1>1, DecodedPathType
  <1> QED
    BY <1>2 DEF DecodedSlot, Slot, Silent

LEMMA PlainDecodeFacts ==
    ASSUME NEW s \in Facades, NEW f \in Formats, NEW au \in AccessUnit
    PROVE  LET r == PlainDecode(s, f, au)
           IN /\ Ends(s, r, Fresh(au))
              /\ Counted(s.stats, r.s.stats, r.ok, au.fault # "none")
              /\ StreamsDiffer /\ Matches(s) => Matches(r.s)
              /\ r.ok => Plays(s, r)
              /\ ~r.ok => r.slot = NoSlot /\ r.s.fifo = s.fifo
              /\ au.fault = "framing" => r.s.dec = s.dec
  <1> PICK r : r = PlainDecode(s, f, au)
    OBVIOUS
  <1> PICK a : a = Attempt(s, f, au)
    OBVIOUS
  <1> PICK bad \in BOOLEAN : bad = (au.fault # "none")
    OBVIOUS
  <1> PICK c : c = Configure(s, au)
    OBVIOUS
  <1> PICK slot : slot = DecodedSlot(c, f, au.content)
    OBVIOUS
  <1> PICK t : t = CountAccessUnit(a, 1, bad)
    OBVIOUS
  <1>1. /\ a.stats = s.stats /\ a.fifo = s.fifo
        /\ au.fault = "framing" => a.dec = s.dec
        /\ Tidy(s.dec) => Tidy(a.dec)
        /\ StreamsDiffer /\ Matches(s) => Matches(a)
        /\ \A C : NoContent \in C /\ Fresh(au) \subseteq C /\ Drawn(s, C)
                  => Drawn(a, C)
    BY AttemptFacts
  <1>2. a \in Facades
    BY AttemptType
  <1>3. /\ t \in Facades
        /\ t.dec = a.dec /\ t.mux = a.mux /\ t.fifo = a.fifo
        /\ Counted(s.stats, t.stats, ~bad, bad)
    <2>1. 1 \in Nat
      OBVIOUS
    <2>2. /\ t \in Facades
          /\ t.dec = a.dec /\ t.mux = a.mux /\ t.fifo = a.fifo
      BY ONLY <1>2, <2>1, CountType, t = CountAccessUnit(a, 1, bad),
              bad \in BOOLEAN
    <2>3. Counted(a.stats, t.stats, ~bad, bad)
      BY ONLY <1>2, <2>1, CountFacts, t = CountAccessUnit(a, 1, bad),
              bad \in BOOLEAN
    <2> QED
      BY <1>1, <2>2, <2>3
  <1>4. slot \in Slot /\ slot.content = au.content
    <2>1. c \in Facades /\ au.content \in Contents
      BY ConfigureType DEF AccessUnit
    <2> QED
      BY <2>1, DecodedSlotType
  <1>5. /\ Tidy(s.dec) => Tidy(t.dec)
        /\ StreamsDiffer /\ Matches(s) => Matches(t)
        /\ \A C : NoContent \in C /\ Fresh(au) \subseteq C /\ Drawn(s, C)
                  => Drawn(t, C)
        /\ Off(s) => Off(t)
        /\ au.fault = "framing" => t.dec = s.dec
    BY <1>1, <1>3 DEF Matches, Drawn, Off
  <1>6. r = IF bad THEN Failed(t) ELSE Render(t, slot)
    BY DEF PlainDecode
  <1>7. CASE bad
    <2>1. r.s = t /\ ~r.ok /\ r.slot = NoSlot
      BY <1>6, <1>7 DEF Failed
    <2>2. NoSlot.content = NoContent
      BY DEF NoSlot
    <2>3. Ends(s, r, Fresh(au))
      BY <1>5, <2>1, <2>2 DEF Ends
    <2>4. Counted(s.stats, r.s.stats, r.ok, au.fault # "none")
      BY ONLY <1>3, <1>7, <2>1, bad = (au.fault # "none") DEF Counted
    <2> QED
      BY <1>1, <1>3, <1>5, <2>1, <2>3, <2>4
  <1>8. CASE ~bad
    <2>1. r = Render(t, slot)
      BY <1>6, <1>8
    <2>2. r.ok /\ r.s.dec = t.dec /\ r.s.mux = t.mux
      BY ONLY <1>3, <1>4, <2>1, RenderType
    <2>3. /\ r.s.stats = t.stats /\ Off(r.s) /\ Plays(t, r)
          /\ \A C : /\ NoContent \in C /\ slot.content \in C
                    /\ Drawn(t, C)
                    => Drawn(r.s, C) /\ r.slot.content \in C
      BY ONLY <1>3, <1>4, <2>1, RenderFacts
    <2>4. Fresh(au) = {au.content} /\ au.fault # "framing"
      BY <1>8 DEF Fresh
    <2>5. Ends(s, r, Fresh(au))
      <3>1. ASSUME NEW C, NoContent \in C, Fresh(au) \subseteq C, Drawn(s, C)
            PROVE  Drawn(r.s, C) /\ r.slot.content \in C
        BY ONLY <1>4, <1>5, <2>3, <2>4, <3>1
      <3>2. Tidy(s.dec) => Tidy(r.s.dec)
        BY <1>5, <2>2
      <3> QED
        BY ONLY <2>3, <3>1, <3>2 DEF Ends
    <2>6. Counted(s.stats, r.s.stats, r.ok, au.fault # "none")
      BY ONLY <1>3, <1>8, <2>2, <2>3, bad = (au.fault # "none") DEF Counted
    <2>7. Plays(s, r)
      BY <1>1, <1>3, <2>3 DEF Plays
    <2>8. StreamsDiffer /\ Matches(s) => Matches(r.s)
      BY <1>5, <2>2 DEF Matches
    <2> QED
      BY <2>2, <2>4, <2>5, <2>6, <2>7, <2>8
  <1> QED
    BY <1>7, <1>8

LEMMA RecoverHeldFacts ==
    ASSUME NEW s \in Facades, NEW f \in Formats, NEW au \in AccessUnit
    PROVE  LET t == RecoverHeld(s, f, au)
           IN /\ Keeps(s, t)
              /\ t.fifo.shape = s.fifo.shape
              /\ ~CanConceal(s, f) => t.fifo = s.fifo /\ t.dec = s.dec
              /\ CanConceal(s, f) /\ Fits(s) => Synthesized(t.fifo.slot)
              /\ CanConceal(s, f) /\ au.fault # "none" =>
                    /\ t.dec.path[f] = ConcealedPath(s.dec.path[f], FALSE)
                    /\ Fits(s) => t.fifo.slot = ConcealedSlot(s, f, FALSE)
  <1> PICK v : v = IF ~CanConceal(s, f) THEN s
                   ELSE IF /\ s.pending[f] = 1
                           /\ PlainDecode([s EXCEPT !.pending[f] = 0], f, au).ok
                           /\ HasReference(PlainDecode(
                                [s EXCEPT !.pending[f] = 0], f, au).s.dec.path[f])
                           /\ PlainDecode([s EXCEPT !.pending[f] = 0],
                                f, au).s.dec.cfg.channels = s.dec.cfg.channels
                           /\ PlainDecode([s EXCEPT !.pending[f] = 0],
                                f, au).s.dec.cfg.frame = s.dec.cfg.frame
                   THEN HeldInterpolated(s, f) ELSE HeldConcealed(s, f)
    OBVIOUS
  <1> PICK t : t = RecoverHeld(s, f, au)
    OBVIOUS
  <1>1. t = [v EXCEPT !.pending[f] = 0]
    BY DEF RecoverHeld, HeldInterpolated, HeldConcealed
  <1>2. ~PlainDecode([s EXCEPT !.pending[f] = 0], f, au).ok
            \/ au.fault = "none"
    <2>1. [s EXCEPT !.pending[f] = 0] \in Facades
      BY UsizeAssumption DEF Facades
    <2> QED
      BY <2>1, PlainDecodeType
  <1>3. /\ ~CanConceal(s, f) => v = s
        /\ CanConceal(s, f) => v \in {HeldInterpolated(s, f), HeldConcealed(s, f)}
        /\ CanConceal(s, f) /\ au.fault # "none" => v = HeldConcealed(s, f)
    BY <1>2
  <1>4. Synthesized(ConcealedSlot(s, f, FALSE))
        /\ Synthesized(InterpolatedSlot(s, f))
    BY DEF Synthesized, ConcealedSlot, InterpolatedSlot
  <1>5. /\ v \in Facades /\ Keeps(s, v)
        /\ v.fifo.shape = s.fifo.shape
        /\ CanConceal(s, f) /\ Fits(s) => Synthesized(v.fifo.slot)
        /\ CanConceal(s, f) /\ au.fault # "none" =>
              /\ v.dec.path[f] = ConcealedPath(s.dec.path[f], FALSE)
              /\ Fits(s) => v.fifo.slot = ConcealedSlot(s, f, FALSE)
    <2>1. CASE ~CanConceal(s, f)
      BY <1>3, <2>1 DEF Keeps
    <2>2. CASE CanConceal(s, f) /\ v = HeldConcealed(s, f)
      <3>1. /\ v \in Facades /\ Keeps(s, v)
            /\ v.fifo.shape = s.fifo.shape
            /\ Fits(s) => v.fifo.slot = ConcealedSlot(s, f, FALSE)
            /\ v.dec.path[f] = ConcealedPath(s.dec.path[f], FALSE)
        BY ONLY <2>2, HeldConcealedFacts, s \in Facades, f \in Formats
      <3> QED
        BY ONLY <1>4, <3>1
    <2>3. CASE CanConceal(s, f) /\ v = HeldInterpolated(s, f) /\ au.fault = "none"
      <3>1. /\ v \in Facades /\ Keeps(s, v)
            /\ v.fifo.shape = s.fifo.shape
            /\ Fits(s) => v.fifo.slot = InterpolatedSlot(s, f)
        BY ONLY <2>3, HeldInterpolatedFacts, s \in Facades, f \in Formats
      <3> QED
        BY ONLY <1>4, <2>3, <3>1
    <2> QED
      BY <1>3, <2>1, <2>2, <2>3
  <1>6. /\ t.dec = v.dec /\ t.fifo = v.fifo /\ t.mux = v.mux
        /\ t.stats = v.stats
    BY <1>1, <1>5 DEF Facades
  <1>7. Keeps(s, t)
    BY <1>5, <1>6 DEF Keeps, Off, Drawn
  <1> QED
    BY <1>3, <1>5, <1>6, <1>7

(* The facade an access unit is decoded on: the losses of the other format *)
(* are dropped, and the held loss of this one is resolved.                 *)
Ready(s, f, au) ==
    LET d == DropOther(s, f)
    IN IF Delays(d) /\ d.pending[f] # 0 THEN RecoverHeld(d, f, au) ELSE d

LEMMA ReadyFacts ==
    ASSUME NEW s \in Facades, NEW f \in Formats, NEW au \in AccessUnit
    PROVE  LET u == Ready(s, f, au)
           IN /\ u \in Facades
              /\ Keeps(s, u)
              /\ Held(s) => NoneWaits(u)
              /\ u.fifo.shape = s.fifo.shape
              /\ ~Resolves(s, f) => u.fifo = s.fifo /\ u.dec = s.dec
              /\ Resolves(s, f) /\ Fits(s) => Synthesized(u.fifo.slot)
              /\ Resolves(s, f) /\ Fits(s) /\ au.fault # "none" =>
                    /\ u.dec.path[f] = ConcealedPath(s.dec.path[f], FALSE)
                    /\ u.fifo.slot = ConcealedSlot(s, f, FALSE)
  <1> PICK d : d = DropOther(s, f)
    OBVIOUS
  <1>1. /\ d \in Facades /\ Keeps(s, d)
        /\ d.dec = s.dec /\ d.fifo = s.fifo
        /\ d.pending[f] = s.pending[f]
        /\ \A g \in Formats : d.pending[g] # 0 => g = f
    BY DropOtherType, DropOtherFacts
  <1>2. /\ Delays(d) <=> Delays(s)
        /\ Fits(d) <=> Fits(s)
        /\ CanConceal(d, f) <=> CanConceal(s, f)
        /\ ConcealedSlot(d, f, FALSE) = ConcealedSlot(s, f, FALSE)
    BY <1>1, SameDelay DEF Fits, CanConceal, ConcealedSlot
  <1> PICK u : u = Ready(s, f, au)
    OBVIOUS
  <1>3. CASE Delays(d) /\ d.pending[f] # 0
    <2>1. u = RecoverHeld(d, f, au)
      BY <1>3 DEF Ready
    <2>2. u \in Facades /\ NoneWaits(u)
      BY <1>1, <2>1, RecoverHeldType DEF NoneWaits
    <2>3. /\ Keeps(d, u)
          /\ u.fifo.shape = d.fifo.shape
          /\ ~CanConceal(d, f) => u.fifo = d.fifo /\ u.dec = d.dec
          /\ CanConceal(d, f) /\ Fits(d) => Synthesized(u.fifo.slot)
          /\ CanConceal(d, f) /\ au.fault # "none" =>
                /\ u.dec.path[f] = ConcealedPath(d.dec.path[f], FALSE)
                /\ Fits(d) => u.fifo.slot = ConcealedSlot(d, f, FALSE)
      BY ONLY <1>1, <2>1, RecoverHeldFacts, f \in Formats,
              au \in AccessUnit
    <2>4. Keeps(s, u)
      BY <1>1, <2>3, KeepsOn
    <2>5. Resolves(s, f) <=> CanConceal(s, f)
      BY <1>1, <1>3 DEF Resolves
    <2> QED
      BY <1>1, <1>2, <2>2, <2>3, <2>4, <2>5
  <1>4. CASE ~(Delays(d) /\ d.pending[f] # 0)
    <2>1. u = d
      BY <1>4 DEF Ready
    <2>2. Held(s) => d.pending[f] = 0
      BY <1>1, <1>2, <1>4 DEF Held
    <2>3. ~(Resolves(s, f) /\ Fits(s))
      BY <1>1, <1>2, <1>4 DEF Resolves, Fits
    <2>4. Held(s) => NoneWaits(u)
      BY <1>1, <2>1, <2>2 DEF NoneWaits
    <2> QED
      BY <1>1, <2>1, <2>3, <2>4
  <1> QED
    BY <1>3, <1>4

(* What the caller gets from an access unit that was decoded. *)
LEMMA DecodeInnerFacts ==
    ASSUME NEW s \in Facades, NEW f \in Formats, NEW au \in AccessUnit
    PROVE  LET r == DecodeInner(s, f, au)
           IN /\ Ends(s, r, Fresh(au))
              /\ Counted(s.stats, r.s.stats, r.ok, au.fault # "none")
              /\ StreamsDiffer /\ Matches(s) => Matches(r.s)
              /\ r.ok => Plays(Ready(s, f, au), r)
              /\ ~r.ok => /\ r.slot = NoSlot
                          /\ r.s.fifo = Ready(s, f, au).fifo
              /\ au.fault = "framing" => r.s.dec = Ready(s, f, au).dec
  <1> PICK u : u = Ready(s, f, au)
    OBVIOUS
  <1> PICK r : r = DecodeInner(s, f, au)
    OBVIOUS
  <1>1. r = PlainDecode(u, f, au)
    BY DEF DecodeInner, Ready
  <1>2. u \in Facades /\ Keeps(s, u)
    BY ReadyFacts
  <1>3. /\ Ends(u, r, Fresh(au))
        /\ Counted(u.stats, r.s.stats, r.ok, au.fault # "none")
        /\ StreamsDiffer /\ Matches(u) => Matches(r.s)
        /\ r.ok => Plays(u, r)
        /\ ~r.ok => r.slot = NoSlot /\ r.s.fifo = u.fifo
        /\ au.fault = "framing" => r.s.dec = u.dec
    BY <1>1, <1>2, PlainDecodeFacts
  <1>4. /\ Ends(s, r, Fresh(au))
        /\ u.stats = s.stats
        /\ Matches(s) => Matches(u)
    BY <1>2, <1>3 DEF Ends, Keeps, Matches
  <1> QED
    BY <1>3, <1>4

(* What the application is promised of a call in format f that works on s: *)
(* a frame that is held is played, a loss that waits is concealed, and a   *)
(* call that fails leaves the one or the other in the delay.               *)
Serves(s, r, f) ==
    /\ Off(s) /\ NoneWaits(s) =>
          /\ r.ok => Plays(s, r)
          /\ ~r.ok => r.slot = NoSlot /\ r.s.fifo = s.fifo
    /\ Resolves(s, f) /\ Fits(s) =>
          /\ r.ok /\ r.s.fifo.shape = s.fifo.shape => Synthesized(r.slot)
          /\ ~r.ok => r.slot = NoSlot /\ Synthesized(r.s.fifo.slot)

LEMMA ServesNext ==
    ASSUME NEW s \in Facades, NEW u, NEW r, NEW f \in Formats,
           u.fifo.shape = s.fifo.shape,
           ~Resolves(s, f) => u.fifo = s.fifo,
           Resolves(s, f) /\ Fits(s) => Synthesized(u.fifo.slot),
           r.ok => Plays(u, r),
           ~r.ok => r.slot = NoSlot /\ r.s.fifo = u.fifo
    PROVE  Serves(s, r, f)
  <1>1. NoneWaits(s) => ~Resolves(s, f)
    BY DEF NoneWaits, Resolves
  <1>2. Fits(s) => s.fifo.shape # NoShape
    BY ShapeType DEF Fits
  <1> QED
    BY <1>1, <1>2 DEF Serves, Plays

LEMMA DecodeInnerServes ==
    ASSUME NEW s \in Facades, NEW f \in Formats, NEW au \in AccessUnit
    PROVE  Serves(s, DecodeInner(s, f, au), f)
  <1> PICK u : u = Ready(s, f, au)
    OBVIOUS
  <1>1. /\ u.fifo.shape = s.fifo.shape
        /\ ~Resolves(s, f) => u.fifo = s.fifo
        /\ Resolves(s, f) /\ Fits(s) => Synthesized(u.fifo.slot)
    BY ReadyFacts
  <1>2. /\ DecodeInner(s, f, au).ok => Plays(u, DecodeInner(s, f, au))
        /\ ~DecodeInner(s, f, au).ok =>
              /\ DecodeInner(s, f, au).slot = NoSlot
              /\ DecodeInner(s, f, au).s.fifo = u.fifo
    BY DecodeInnerFacts
  <1> QED
    BY <1>1, <1>2, ServesNext

(* A call that conceals keeps the statistics and brings nothing in. *)
LEMMA DelayedConcealServes ==
    ASSUME NEW s \in Facades, NEW f \in Formats, Delays(s)
    PROVE  Serves(s, DelayedConceal(s, f), f)
  <1> PICK r : r = DelayedConceal(s, f)
    OBVIOUS
  <1>1. /\ r.ok
        /\ r.s.fifo.shape = ShapeOf(s)
        /\ r.slot = IF s.fifo.shape # ShapeOf(s) THEN Silence
                    ELSE IF Resolves(s, f) THEN ConcealedSlot(s, f, FALSE)
                    ELSE s.fifo.slot
    <2>1. r.ok /\ r.s.fifo = [shape |-> ShapeOf(s), slot |-> Placeholder]
      BY DelayedConcealType
    <2>2. r.slot = IF s.fifo.shape # ShapeOf(s) THEN Silence
                   ELSE IF Resolves(s, f) THEN ConcealedSlot(s, f, FALSE)
                   ELSE s.fifo.slot
      BY DelayedConcealFacts
    <2> QED
      BY ONLY <2>1, <2>2
  <1>2. Synthesized(ConcealedSlot(s, f, FALSE))
    BY DEF Synthesized, ConcealedSlot
  <1>3. NoneWaits(s) => ~Resolves(s, f)
    BY DEF NoneWaits, Resolves
  <1> QED
    BY <1>1, <1>2, <1>3 DEF Serves, Plays, Fits

(* The contents a call may leave behind that puts the decoder back. *)
Heard(au) == IF au.fault = "none" THEN {au.content} ELSE {}

LEMMA DecodeOrConcealFacts ==
    ASSUME NEW s \in Facades, NEW f \in Formats, NEW au \in AccessUnit
    PROVE  LET r == DecodeOrConceal(s, f, au)
           IN /\ Ends(s, r, Heard(au))
              /\ Counted(s.stats, r.s.stats, r.ok, au.fault # "none")
              /\ Held(s) => Serves(s, r, f)
  <1> PICK u : u = Ready(s, f, au)
    OBVIOUS
  <1> PICK tried : tried = DecodeInner(s, f, au)
    OBVIOUS
  <1> PICK back : back = [tried.s EXCEPT !.dec = s.dec]
    OBVIOUS
  <1> PICK b : b = CountRecovered(back)
    OBVIOUS
  <1> PICK r : r = DecodeOrConceal(s, f, au)
    OBVIOUS
  <1>1. /\ tried \in Outcomes
        /\ tried.ok <=> au.fault = "none"
        /\ Held(s) => NoneWaits(tried.s)
    BY DecodeInnerType
  <1>2. /\ Ends(s, tried, Fresh(au))
        /\ Counted(s.stats, tried.s.stats, tried.ok, au.fault # "none")
        /\ ~tried.ok => tried.s.fifo = u.fifo
    BY DecodeInnerFacts
  <1>3. /\ u.fifo.shape = s.fifo.shape
        /\ ~Resolves(s, f) => u.fifo = s.fifo
        /\ Resolves(s, f) /\ Fits(s) => Synthesized(u.fifo.slot)
        /\ Keeps(s, u)
    BY ReadyFacts
  <1>4. /\ back \in Facades
        /\ back.dec = s.dec /\ back.fifo = tried.s.fifo
        /\ back.pending = tried.s.pending /\ back.stats = tried.s.stats
    BY <1>1 DEF Facades, Outcomes
  <1>5. /\ b \in Facades
        /\ b.dec = s.dec /\ b.fifo = tried.s.fifo
        /\ b.pending = tried.s.pending
        /\ Counted(tried.s.stats, b.stats, TRUE, FALSE)
    BY <1>4, RecoveredType, RecoveredFacts
  <1>6. r = IF tried.ok \/ au.fault = "framing" THEN tried
            ELSE IF Delays(back) THEN DelayedConceal(b, f)
            ELSE IF CanConceal(back, f) THEN ConcealNow(b, f)
            ELSE Failed(back)
    BY DEF DecodeOrConceal
  <1>7. CASE tried.ok \/ au.fault = "framing"
    <2>1. r = tried
      BY <1>6, <1>7
    <2>2. Heard(au) = Fresh(au)
      BY <1>1, <1>7 DEF Heard, Fresh
    <2> QED
      BY <1>2, <2>1, <2>2, DecodeInnerServes
  <1>8. CASE ~(tried.ok \/ au.fault = "framing")
    <2>1. /\ Off(s) => Off(back) /\ Off(b)
          /\ \A C : NoContent \in C /\ Drawn(s, C)
                    => Drawn(back, C) /\ Drawn(b, C)
      BY <1>2, <1>3, <1>4, <1>5, <1>8 DEF Keeps, Off, Drawn
    <2>2. Counted(s.stats, tried.s.stats, FALSE, TRUE)
      BY <1>1, <1>2, <1>8 DEF Counted
    <2>3. Counted(s.stats, b.stats, TRUE, TRUE)
      BY <1>5, <2>2, CountedTwice
    <2>4. Delays(b) <=> Delays(back)
      BY <1>4, <1>5, SameDelay
    <2>5. CASE Delays(back)
      <3>1. r = DelayedConceal(b, f) /\ Delays(b)
        BY <1>6, <1>8, <2>4, <2>5
      <3>2. r.ok /\ r.s.fifo = [shape |-> ShapeOf(b), slot |-> Placeholder]
        BY <1>5, <3>1, DelayedConcealType
      <3>3. /\ Ends(b, r, {})
            /\ r.s.stats = b.stats
            /\ r.slot = IF b.fifo.shape # ShapeOf(b) THEN Silence
                        ELSE IF Resolves(b, f)
                        THEN ConcealedSlot(b, f, FALSE)
                        ELSE b.fifo.slot
        BY ONLY <1>5, <3>1, DelayedConcealFacts, f \in Formats
      <3>4. Held(s) => ~Resolves(b, f)
        BY <1>1, <1>5 DEF NoneWaits, Resolves
      <3>5. Held(s) => Plays(b, r)
        BY <3>2, <3>3, <3>4 DEF Plays
      <3>6. Held(s) => Plays(u, r)
        BY <1>2, <1>5, <1>8, <3>5 DEF Plays
      <3>7. Held(s) => Serves(s, r, f)
        BY <1>3, <3>2, <3>6, ServesNext
      <3>8. Ends(s, r, Heard(au))
        BY <1>5, <2>1, <3>3 DEF Ends
      <3> QED
        BY <1>1, <1>8, <2>3, <3>2, <3>3, <3>7, <3>8 DEF Counted
    <2>6. CASE ~Delays(back) /\ CanConceal(back, f)
      <3>1. r = ConcealNow(b, f)
        BY <1>6, <1>8, <2>6
      <3>2. r.ok /\ Ends(b, r, {}) /\ r.s.stats = b.stats /\ Plays(b, r)
        BY <1>5, <3>1, ConcealNowType, ConcealNowFacts
      <3>3. Plays(u, r)
        BY <1>2, <1>5, <1>8, <3>2 DEF Plays
      <3>4. Serves(s, r, f)
        BY <1>3, <3>2, <3>3, ServesNext
      <3>5. Ends(s, r, Heard(au))
        BY <1>5, <2>1, <3>2 DEF Ends
      <3> QED
        BY <1>1, <1>8, <2>3, <3>2, <3>4, <3>5 DEF Counted
    <2>7. CASE ~Delays(back) /\ ~CanConceal(back, f)
      <3>1. /\ r.s = back /\ ~r.ok /\ r.slot = NoSlot
            /\ r.slot.content = NoContent
        BY <1>6, <1>8, <2>7 DEF Failed, NoSlot
      <3>2. Ends(s, r, Heard(au))
        BY <1>4, <2>1, <3>1 DEF Ends
      <3>4. r.s.fifo = u.fifo
        BY <1>1, <1>2, <1>4, <1>8, <3>1
      <3>3. Serves(s, r, f)
        BY <1>3, <3>1, <3>4, ServesNext
      <3> QED
        BY <1>1, <1>4, <1>8, <2>2, <3>1, <3>2, <3>3 DEF Counted
    <2> QED
      BY <2>5, <2>6, <2>7
  <1> QED
    BY <1>7, <1>8

(* A cut leaves nothing of what was decoded before it. *)
LEMMA PrepareFlagsFacts ==
    ASSUME NEW s \in Facades, NEW cut \in BOOLEAN
    PROVE  LET t == PrepareFlags(s, cut)
           IN /\ Keeps(s, t)
              /\ ~cut => t = s
              /\ cut => /\ t.dec = FreshDecoder(s.dec.cfg)
                        /\ t.fifo.slot = Silence
                        /\ t.pending = NoLosses
                        /\ \A C : NoContent \in C => Drawn(t, C)
  <1> PICK t : t = PrepareFlags(s, cut)
    OBVIOUS
  <1>1. CASE cut
    <2>1. /\ t.dec = FreshDecoder(s.dec.cfg) /\ t.fifo = ClearedFifo(s.fifo)
          /\ t.pending = NoLosses /\ t.mux = s.mux /\ t.stats = s.stats
      BY <1>1 DEF PrepareFlags, Facades
    <2>2. t.fifo.slot = Silence /\ Silence.content = NoContent
      BY <2>1 DEF ClearedFifo, Facades, Delay, Silence
    <2>3. /\ \A g \in Formats : /\ t.dec.path[g].ref = NoContent
                                /\ t.dec.tail[g] = NoContent
          /\ t.dec.cfg = s.dec.cfg
          /\ Tidy(t.dec)
      BY <2>1, FreshFacts
    <2>4. \A C : NoContent \in C => Drawn(t, C)
      BY <2>2, <2>3 DEF Drawn
    <2>5. Keeps(s, t)
      BY <2>1, <2>2, <2>3, <2>4 DEF Keeps, Off
    <2> QED
      BY <1>1, <2>1, <2>2, <2>4, <2>5
  <1>2. CASE ~cut
    <2>1. t = s
      BY <1>2 DEF PrepareFlags
    <2> QED
      BY <1>2, <2>1 DEF Keeps
  <1> QED
    BY <1>1, <1>2

LEMMA ConcealCallFacts ==
    ASSUME NEW s \in Facades, NEW f \in Formats
    PROVE  LET r == ConcealCall(s, f)
           IN /\ r.ok
              /\ Ends(s, r, {})
              /\ Counted(s.stats, r.s.stats, TRUE, TRUE)
              /\ Matches(s) => Matches(r.s)
              /\ Serves(s, r, f)
  <1> PICK a : a = CountAccessUnit(s, 0, TRUE)
    OBVIOUS
  <1> PICK c : c = CountConcealed(s)
    OBVIOUS
  <1> PICK r : r = ConcealCall(s, f)
    OBVIOUS
  <1>1. /\ a \in Facades
        /\ a.dec = s.dec /\ a.mux = s.mux /\ a.fifo = s.fifo
        /\ a.pending = s.pending
        /\ Counted(s.stats, a.stats, FALSE, TRUE)
    <2>1. 0 \in Nat /\ TRUE \in BOOLEAN
      OBVIOUS
    <2>2. Counted(s.stats, a.stats, ~TRUE, TRUE)
      BY <2>1, CountFacts
    <2>3. Counted(s.stats, a.stats, FALSE, TRUE)
      BY <2>2 DEF Counted
    <2> QED
      BY <2>1, <2>3, CountType
  <1>2. /\ c \in Facades
        /\ c.dec = s.dec /\ c.mux = s.mux /\ c.fifo = s.fifo
        /\ c.pending = s.pending
        /\ Counted(s.stats, c.stats, TRUE, TRUE)
    <2>1. c = CountRecovered(a)
      BY DEF CountConcealed
    <2>2. Counted(a.stats, c.stats, TRUE, FALSE)
      BY <1>1, <2>1, RecoveredFacts
    <2>3. Counted(s.stats, c.stats, TRUE, TRUE)
      BY ONLY <1>1, <2>2, CountedTwice
    <2>4. /\ c \in Facades
          /\ c.dec = a.dec /\ c.mux = a.mux /\ c.fifo = a.fifo
          /\ c.pending = a.pending
      BY ONLY <1>1, <2>1, RecoveredType
    <2> QED
      BY ONLY <1>1, <2>3, <2>4
  <1>3. /\ Off(s) => Off(c)
        /\ \A C : Drawn(s, C) => Drawn(c, C)
        /\ Matches(s) => Matches(c)
        /\ Resolves(c, f) <=> Resolves(s, f)
        /\ Fits(c) <=> Fits(s)
        /\ NoneWaits(c) <=> NoneWaits(s)
    BY <1>2, SameDelay
    DEF Off, Drawn, Matches, Resolves, CanConceal, Fits, NoneWaits
  <1>4. r = IF Delays(c) THEN DelayedConceal(c, f)
            ELSE IF CanConceal(c, f) THEN ConcealNow(c, f)
            ELSE Render(c, Silence)
    BY DEF ConcealCall
  <1>5. /\ r.ok /\ Ends(c, r, {}) /\ r.s.stats = c.stats
        /\ r.s.mux = c.mux /\ r.s.dec.cfg = c.dec.cfg
        /\ Serves(c, r, f)
    <2>1. CASE Delays(c)
      <3>1. r = DelayedConceal(c, f)
        BY <1>4, <2>1
      <3>2. r.ok /\ r.s.dec.cfg = c.dec.cfg
        BY ONLY <1>2, <2>1, <3>1, DelayedConcealType, f \in Formats
      <3>3. Ends(c, r, {}) /\ r.s.stats = c.stats /\ r.s.mux = c.mux
        BY ONLY <1>2, <2>1, <3>1, DelayedConcealFacts, f \in Formats
      <3> QED
        BY <1>2, <2>1, <3>1, <3>2, <3>3, DelayedConcealServes
    <2>2. CASE ~Delays(c) /\ CanConceal(c, f)
      <3>1. r = ConcealNow(c, f)
        BY <1>4, <2>2
      <3>2. r.ok /\ r.s.dec.cfg = c.dec.cfg
        BY <1>2, <3>1, ConcealNowType
      <3>3. /\ Ends(c, r, {}) /\ r.s.stats = c.stats /\ r.s.mux = c.mux
            /\ Plays(c, r)
        BY ONLY <1>2, <3>1, ConcealNowFacts, f \in Formats
      <3> QED
        BY <2>2, <3>2, <3>3 DEF Serves, Fits
    <2>3. CASE ~Delays(c) /\ ~CanConceal(c, f)
      <3>1. r = Render(c, Silence)
        BY <1>4, <2>3
      <3>2. r.ok /\ r.s.dec = c.dec /\ r.s.mux = c.mux
        BY ONLY <1>2, <3>1, SlotTypes, RenderType
      <3>3. /\ r.s.stats = c.stats /\ Off(r.s) /\ Plays(c, r)
            /\ \A C : /\ NoContent \in C /\ Silence.content \in C
                      /\ Drawn(c, C)
                      => Drawn(r.s, C) /\ r.slot.content \in C
        BY ONLY <1>2, <3>1, SlotTypes, RenderFacts
      <3>4. Silence.content = NoContent
        BY DEF Silence
      <3>5. Ends(c, r, {})
        BY ONLY <3>2, <3>3, <3>4 DEF Ends
      <3> QED
        BY <2>3, <3>2, <3>3, <3>5 DEF Serves, Fits
    <2> QED
      BY <2>1, <2>2, <2>3
  <1>6. Ends(s, r, {})
    BY <1>2, <1>3, <1>5 DEF Ends
  <1>7. Serves(s, r, f)
    BY <1>2, <1>3, <1>5 DEF Serves, Plays
  <1>8. Matches(s) => Matches(r.s)
    BY <1>2, <1>5 DEF Matches
  <1> QED
    BY <1>2, <1>5, <1>6, <1>7, <1>8

LEMMA FlushCallFacts ==
    ASSUME NEW s \in Facades, NEW f \in Formats
    PROVE  LET r == FlushCall(s, f)
           IN /\ r.ok
              /\ Ends(s, r, {})
              /\ Counted(s.stats, r.s.stats, TRUE, FALSE)
              /\ Matches(s) => Matches(r.s)
              /\ Plays(s, r)
              /\ r.s.dec.cfg = s.dec.cfg /\ r.s.dec.path = s.dec.path
              /\ r.s.dec.tail[f] = NoContent
              /\ r.s.pending = s.pending
              /\ s.dec.tail[f] = NoContent =>
                    /\ ~Delays(s) => r.slot = Silence
                    /\ Delays(s) => r.s.fifo.slot = Silence
              /\ Delays(s) => r.slot = IF s.fifo.shape = ShapeOf(s)
                                       THEN s.fifo.slot ELSE Silence
  <1> PICK overlap : overlap = s.dec.tail[f]
    OBVIOUS
  <1> PICK e : e = [s EXCEPT !.dec.tail[f] = NoContent]
    OBVIOUS
  <1> PICK t : t = CountAccessUnit(e, 0, FALSE)
    OBVIOUS
  <1> PICK slot : slot = IF overlap = NoContent THEN Silence
                         ELSE [kind |-> "flushed", content |-> overlap,
                               level |-> 0]
    OBVIOUS
  <1> PICK r : r = FlushCall(s, f)
    OBVIOUS
  <1>1. /\ s.dec \in Decoder
        /\ s.dec.tail \in [Formats -> Contents \cup {NoContent}]
        /\ overlap \in Contents \cup {NoContent}
    BY DEF Facades, Decoder
  <1>2. slot \in Slot /\ slot.content = overlap
    BY <1>1, SlotTypes DEF Slot, Silence, Silent
  <1>3. r = Render(t, slot)
    BY DEF FlushCall
  <1> PICK u : u = [s.dec.tail EXCEPT ![f] = NoContent]
    OBVIOUS
  <1>4. /\ u \in [Formats -> Contents \cup {NoContent}]
        /\ u[f] = NoContent
        /\ \A g \in Formats : u[g] \in {NoContent, s.dec.tail[g]}
    BY <1>1
  <1>5. /\ e.dec = [s.dec EXCEPT !.tail = u]
        /\ e.fifo = s.fifo /\ e.mux = s.mux
        /\ e.pending = s.pending /\ e.stats = s.stats
        /\ e = [s EXCEPT !.dec = [s.dec EXCEPT !.tail = u]]
    BY DEF Facades, Decoder
  <1>6. /\ e.dec \in Decoder
        /\ e.dec.cfg = s.dec.cfg /\ e.dec.path = s.dec.path /\ e.dec.tail = u
    BY <1>1, <1>4, <1>5 DEF Decoder
  <1>7. e \in Facades
    BY <1>5, <1>6 DEF Facades
  <1>8. /\ t \in Facades
        /\ t.dec = e.dec /\ t.mux = e.mux /\ t.fifo = e.fifo
        /\ t.pending = e.pending
        /\ Counted(s.stats, t.stats, TRUE, FALSE)
    <2>1. 0 \in Nat /\ FALSE \in BOOLEAN
      OBVIOUS
    <2>2. Counted(e.stats, t.stats, ~FALSE, FALSE)
      BY <1>7, <2>1, CountFacts
    <2>3. Counted(s.stats, t.stats, TRUE, FALSE)
      BY <1>5, <2>2 DEF Counted
    <2> QED
      BY <1>7, <2>1, <2>3, CountType
  <1>9. r.ok /\ r.s.dec = t.dec /\ r.s.mux = t.mux /\ r.s.pending = t.pending
    BY ONLY <1>2, <1>3, <1>8, RenderType
  <1>10. /\ r.s.stats = t.stats /\ Off(r.s) /\ Plays(t, r)
         /\ ~Delays(t) => r.slot = slot
         /\ Delays(t) => r.slot = IF t.fifo.shape = ShapeOf(t)
                                  THEN t.fifo.slot ELSE Silence
         /\ \A C : /\ NoContent \in C /\ slot.content \in C
                   /\ Drawn(t, C)
                   => Drawn(r.s, C) /\ r.slot.content \in C
    BY ONLY <1>2, <1>3, <1>8, RenderFacts
  <1>11. Delays(t) => r.s.fifo.slot = slot
    <2>1. Delays(t) => r.s.fifo = [shape |-> ShapeOf(t), slot |-> slot]
      BY ONLY <1>2, <1>3, <1>8, RenderType
    <2> QED
      BY ONLY <2>1
  <1>12. (Delays(t) <=> Delays(s)) /\ ShapeOf(t) = ShapeOf(s)
    BY <1>6, <1>8, SameDelay
  <1>13. Ends(s, r, {})
    <2>1. ASSUME NEW C, NoContent \in C, Drawn(s, C)
          PROVE  Drawn(r.s, C) /\ r.slot.content \in C
      <3>1. overlap \in C
        BY <2>1 DEF Drawn
      <3>2. /\ t.dec.path = s.dec.path /\ t.dec.tail = u
            /\ t.fifo = s.fifo
        BY ONLY <1>5, <1>6, <1>8
      <3>3. Drawn(t, C)
        BY ONLY <1>4, <2>1, <3>2 DEF Drawn
      <3> QED
        BY ONLY <1>2, <1>10, <2>1, <3>1, <3>3
    <2>2. ASSUME Tidy(s.dec)
          PROVE  Tidy(r.s.dec)
      BY <1>4, <1>6, <1>8, <1>9, <2>2 DEF Tidy
    <2> QED
      BY <1>10, <2>1, <2>2 DEF Ends
  <1>14. Plays(s, r)
    BY ONLY <1>5, <1>8, <1>10 DEF Plays
  <1>15. Matches(s) => Matches(r.s)
    BY <1>5, <1>6, <1>8, <1>9 DEF Matches
  <1>16. overlap = NoContent => slot = Silence
    OBVIOUS
  <1>17. Counted(s.stats, r.s.stats, TRUE, FALSE)
    BY <1>8, <1>10
  <1>18. /\ r.s.dec.cfg = s.dec.cfg /\ r.s.dec.path = s.dec.path
         /\ r.s.dec.tail[f] = NoContent /\ r.s.pending = s.pending
    BY <1>4, <1>5, <1>6, <1>8, <1>9
  <1>19. /\ ~Delays(s) => r.slot = slot
         /\ Delays(s) => /\ r.s.fifo.slot = slot
                         /\ r.slot = IF s.fifo.shape = ShapeOf(s)
                                     THEN s.fifo.slot ELSE Silence
    <2>1. t.fifo = s.fifo
      BY ONLY <1>5, <1>8
    <2> QED
      BY ONLY <1>10, <1>11, <1>12, <2>1
  <1> QED
    BY <1>9, <1>13, <1>14, <1>15, <1>16, <1>17, <1>18, <1>19

-----------------------------------------------------------------------------
(* What a call does, and who observes it *)

(* A call through an entry point in format f ends as r. It brings in the   *)
(* contents "fresh", and its access unit was damaged or missing or not.    *)
Called(call, f, cut, r, fresh, damaged) ==
    LET s == PrepareFlags(Facade, cut)
    IN /\ Return(call, f, cut, r)
       /\ Ends(s, r, fresh)
       /\ Counted(s.stats, r.s.stats, r.ok, damaged)
       /\ "flagged" \notin EntryPoints /\ StreamsDiffer /\ Matches(s)
            => Matches(r.s)
       /\ call \notin {"flush", "named"} /\ Held(s) => Serves(s, r, f)
       /\ call = "flush" => Plays(s, r)
       /\ call = "flush" => r = FlushCall(s, f) /\ ~damaged
       /\ call = "conceal" => r = ConcealCall(s, f) /\ damaged
       /\ call = "flagged" => \E au \in AccessUnit :
             /\ r = DecodeOrConceal(s, f, au)
             /\ damaged <=> au.fault # "none"

LEMMA DecodeCalled ==
    ASSUME TypeOK, NEW f \in Formats, NEW au \in AccessUnit, Decode(f, au)
    PROVE  \E r \in Outcomes :
               Called("decode", f, FALSE, r, Fresh(au), au.fault # "none")
  <1> PICK r : r = DecodeInner(Facade, f, au)
    OBVIOUS
  <1>1. Facade \in Facades
    BY FacadeType
  <1>2. PrepareFlags(Facade, FALSE) = Facade
    BY DEF PrepareFlags
  <1>3. r \in Outcomes
    BY <1>1, DecodeInnerType
  <1>4. /\ Ends(Facade, r, Fresh(au))
        /\ Counted(Facade.stats, r.s.stats, r.ok, au.fault # "none")
        /\ StreamsDiffer /\ Matches(Facade) => Matches(r.s)
    BY <1>1, DecodeInnerFacts
  <1>5. Serves(Facade, r, f)
    BY <1>1, DecodeInnerServes
  <1>6. Return("decode", f, FALSE, r)
    BY DEF Decode
  <1> QED
    BY <1>2, <1>3, <1>4, <1>5, <1>6 DEF Called

LEMMA FlaggedCalled ==
    ASSUME TypeOK, NEW f \in Formats, NEW au \in AccessUnit,
           NEW cut \in BOOLEAN, DecodeWithFlags(f, au, cut)
    PROVE  \E r \in Outcomes :
               Called("flagged", f, cut, r, Fresh(au), au.fault # "none")
  <1> PICK s : s = PrepareFlags(Facade, cut)
    OBVIOUS
  <1> PICK r : r = DecodeOrConceal(s, f, au)
    OBVIOUS
  <1>1. s \in Facades
    BY FacadeType, PrepareFlagsType
  <1>2. r \in Outcomes
    BY <1>1, DecodeOrConcealType
  <1>3. /\ Ends(s, r, Heard(au))
        /\ Counted(s.stats, r.s.stats, r.ok, au.fault # "none")
        /\ Held(s) => Serves(s, r, f)
    BY <1>1, DecodeOrConcealFacts
  <1>4. Heard(au) \subseteq Fresh(au)
    BY DEF Heard, Fresh
  <1>5. Ends(s, r, Fresh(au))
    BY <1>3, <1>4 DEF Ends
  <1>6. Return("flagged", f, cut, r) /\ "flagged" \in EntryPoints
    BY DEF DecodeWithFlags, Return
  <1> QED
    BY <1>2, <1>3, <1>5, <1>6 DEF Called

LEMMA NamedCalled ==
    ASSUME TypeOK, NEW f \in Formats, NEW au \in AccessUnit,
           DecodeNamed(f, au)
    PROVE  \E r \in Outcomes :
               Called("named", f, FALSE, r, Fresh(au), au.fault # "none")
  <1> PICK r : r = PlainDecode(Facade, f, au)
    OBVIOUS
  <1>1. Facade \in Facades
    BY FacadeType
  <1>2. PrepareFlags(Facade, FALSE) = Facade
    BY DEF PrepareFlags
  <1>3. r \in Outcomes
    BY <1>1, PlainDecodeType
  <1>4. /\ Ends(Facade, r, Fresh(au))
        /\ Counted(Facade.stats, r.s.stats, r.ok, au.fault # "none")
        /\ StreamsDiffer /\ Matches(Facade) => Matches(r.s)
    BY <1>1, PlainDecodeFacts
  <1>5. Return("named", f, FALSE, r)
    BY DEF DecodeNamed
  <1> QED
    BY <1>2, <1>3, <1>4, <1>5 DEF Called

LEMMA ConcealCalled ==
    ASSUME TypeOK, NEW f \in Formats, NEW cut \in BOOLEAN,
           ConcealFlag(f, cut)
    PROVE  \E r \in Outcomes : Called("conceal", f, cut, r, {}, TRUE)
  <1> PICK s : s = PrepareFlags(Facade, cut)
    OBVIOUS
  <1> PICK r : r = ConcealCall(s, f)
    OBVIOUS
  <1>1. s \in Facades
    BY FacadeType, PrepareFlagsType
  <1>2. r \in Outcomes
    BY <1>1, ConcealCallType
  <1>3. /\ r.ok /\ Ends(s, r, {})
        /\ Counted(s.stats, r.s.stats, TRUE, TRUE)
        /\ Matches(s) => Matches(r.s)
        /\ Serves(s, r, f)
    BY <1>1, ConcealCallFacts
  <1>4. Counted(s.stats, r.s.stats, r.ok, TRUE)
    BY <1>3 DEF Counted
  <1>5. Return("conceal", f, cut, r)
    BY DEF ConcealFlag
  <1> QED
    BY <1>2, <1>3, <1>4, <1>5 DEF Called

LEMMA FlushCalled ==
    ASSUME TypeOK, NEW f \in Formats, NEW cut \in BOOLEAN, FlushFlag(f, cut)
    PROVE  \E r \in Outcomes : Called("flush", f, cut, r, {}, FALSE)
  <1> PICK s : s = PrepareFlags(Facade, cut)
    OBVIOUS
  <1> PICK r : r = FlushCall(s, f)
    OBVIOUS
  <1>1. s \in Facades
    BY FacadeType, PrepareFlagsType
  <1>2. r \in Outcomes
    BY <1>1, FlushCallType
  <1>3. /\ r.ok /\ Ends(s, r, {})
        /\ Counted(s.stats, r.s.stats, TRUE, FALSE)
        /\ Matches(s) => Matches(r.s)
        /\ Plays(s, r)
    BY <1>1, FlushCallFacts
  <1>4. Counted(s.stats, r.s.stats, r.ok, FALSE)
    BY <1>3 DEF Counted
  <1>5. Return("flush", f, cut, r)
    BY DEF FlushFlag
  <1> QED
    BY <1>2, <1>3, <1>4, <1>5 DEF Called

(* The observer watches the facade and does not change it. *)
LEMMA AuditSteps == AuditSpec => Spec
  <1>1. AuditInit => Init
    BY DEF AuditInit
  <1>2. [AuditNext]_avars => [Next]_vars
    BY DEF AuditNext, Next, avars
  <1> QED
    BY <1>1, <1>2, PTL DEF AuditSpec, Spec

(* Every step of the audited facade is a call that is observed as what it  *)
(* was, or one of the two calls that return no frame.                      *)
LEMMA ObservedStep ==
    ASSUME TypeOK, AuditNext
    PROVE  \/ \E call \in EntryPoints, f \in Formats, cut \in BOOLEAN,
                 r \in Outcomes, fresh \in SUBSET Contents,
                 damaged \in BOOLEAN :
                     /\ Called(call, f, cut, r, fresh, damaged)
                     /\ Observe(fresh, damaged)
           \/ /\ \E method \in Methods : SetConcealMethod(method)
              /\ lost' = 0 /\ corrupt' = FALSE /\ drains' = 0
              /\ UNCHANGED <<since, tally>>
           \/ \E all \in BOOLEAN :
                 /\ ClearTransport(all)
                 /\ tally' = IF all THEN NoTally ELSE tally
                 /\ drains' = 0
                 /\ UNCHANGED <<since, lost, corrupt>>
  <1> DEFINE Observed ==
        \E call \in EntryPoints, f \in Formats, cut \in BOOLEAN,
           r \in Outcomes, fresh \in SUBSET Contents, damaged \in BOOLEAN :
               /\ Called(call, f, cut, r, fresh, damaged)
               /\ Observe(fresh, damaged)
  <1>a. ASSUME NEW call, NEW f \in Formats, NEW cut \in BOOLEAN,
               NEW r \in Outcomes, NEW fresh \in SUBSET Contents,
               NEW damaged \in BOOLEAN,
               Called(call, f, cut, r, fresh, damaged),
               Observe(fresh, damaged)
        PROVE  Observed
    <2>1. call \in EntryPoints
      BY <1>a DEF Called, Return
    <2> QED
      BY <1>a, <2>1
  <1> HIDE DEF Observed
  <1>1. ASSUME NEW f \in Formats, NEW au \in AccessUnit,
               \/ Decode(f, au)
               \/ \E cut \in BOOLEAN : DecodeWithFlags(f, au, cut)
               \/ DecodeNamed(f, au),
               ObserveUnit(au)
        PROVE  Observed
    <2>1. Fresh(au) \in SUBSET Contents
      BY DEF Fresh, AccessUnit
    <2>2. PICK damaged \in BOOLEAN : damaged = (au.fault # "none")
      OBVIOUS
    <2>3. Observe(Fresh(au), damaged)
      BY <1>1, <2>2 DEF ObserveUnit, Fresh
    <2>4. CASE Decode(f, au)
      <3>1. PICK r \in Outcomes :
                Called("decode", f, FALSE, r, Fresh(au), damaged)
        BY <2>2, <2>4, DecodeCalled
      <3> QED
        BY <1>a, <2>1, <2>3, <3>1
    <2>5. CASE \E cut \in BOOLEAN : DecodeWithFlags(f, au, cut)
      <3>1. PICK cut \in BOOLEAN : DecodeWithFlags(f, au, cut)
        BY <2>5
      <3>2. PICK r \in Outcomes :
                Called("flagged", f, cut, r, Fresh(au), damaged)
        BY <2>2, <3>1, FlaggedCalled
      <3> QED
        BY <1>a, <2>1, <2>3, <3>2
    <2>6. CASE DecodeNamed(f, au)
      <3>1. PICK r \in Outcomes :
                Called("named", f, FALSE, r, Fresh(au), damaged)
        BY <2>2, <2>6, NamedCalled
      <3> QED
        BY <1>a, <2>1, <2>3, <3>1
    <2> QED
      BY <1>1, <2>4, <2>5, <2>6
  <1>2. ASSUME NEW f \in Formats, NEW cut \in BOOLEAN,
               ConcealFlag(f, cut), Observe({}, TRUE)
        PROVE  Observed
    <2>1. PICK r \in Outcomes : Called("conceal", f, cut, r, {}, TRUE)
      BY <1>2, ConcealCalled
    <2> QED
      BY <1>a, <1>2, <2>1
  <1>3. ASSUME NEW f \in Formats, NEW cut \in BOOLEAN,
               FlushFlag(f, cut), Observe({}, FALSE)
        PROVE  Observed
    <2>1. PICK r \in Outcomes : Called("flush", f, cut, r, {}, FALSE)
      BY <1>3, FlushCalled
    <2> QED
      BY <1>a, <1>3, <2>1
  <1> QED
    BY <1>1, <1>2, <1>3 DEF AuditNext, Observed

(* The same without the observer. *)
LEMMA CalledStep ==
    ASSUME TypeOK, Next
    PROVE  \/ \E call \in EntryPoints, f \in Formats, cut \in BOOLEAN,
                 r \in Outcomes, fresh \in SUBSET Contents,
                 damaged \in BOOLEAN :
                     Called(call, f, cut, r, fresh, damaged)
           \/ \E method \in Methods : SetConcealMethod(method)
           \/ \E all \in BOOLEAN : ClearTransport(all)
  <1> DEFINE Made ==
        \E call \in EntryPoints, f \in Formats, cut \in BOOLEAN,
           r \in Outcomes, fresh \in SUBSET Contents, damaged \in BOOLEAN :
               Called(call, f, cut, r, fresh, damaged)
  <1>a. ASSUME NEW call, NEW f \in Formats, NEW cut \in BOOLEAN,
               NEW r \in Outcomes, NEW fresh \in SUBSET Contents,
               NEW damaged \in BOOLEAN,
               Called(call, f, cut, r, fresh, damaged)
        PROVE  Made
    <2>1. call \in EntryPoints
      BY <1>a DEF Called, Return
    <2> QED
      BY <1>a, <2>1
  <1> HIDE DEF Made
  <1>b. /\ {} \in SUBSET Contents
        /\ \A au \in AccessUnit : Fresh(au) \in SUBSET Contents
    BY DEF Fresh, AccessUnit
  <1>1. ASSUME NEW f \in Formats, NEW au \in AccessUnit, Decode(f, au)
        PROVE  Made
    BY <1>a, <1>b, <1>1, DecodeCalled
  <1>2. ASSUME NEW f \in Formats, NEW au \in AccessUnit,
               NEW cut \in BOOLEAN, DecodeWithFlags(f, au, cut)
        PROVE  Made
    BY <1>a, <1>b, <1>2, FlaggedCalled
  <1>3. ASSUME NEW f \in Formats, NEW au \in AccessUnit, DecodeNamed(f, au)
        PROVE  Made
    BY <1>a, <1>b, <1>3, NamedCalled
  <1>4. ASSUME NEW f \in Formats, NEW cut \in BOOLEAN, ConcealFlag(f, cut)
        PROVE  Made
    BY <1>a, <1>b, <1>4, ConcealCalled
  <1>5. ASSUME NEW f \in Formats, NEW cut \in BOOLEAN, FlushFlag(f, cut)
        PROVE  Made
    BY <1>a, <1>b, <1>5, FlushCalled
  <1> QED
    BY <1>1, <1>2, <1>3, <1>4, <1>5 DEF Next, Made

(* What a call returned, as the next state of the facade. *)
LEMMA CalledState ==
    ASSUME NEW call, NEW f, NEW cut, NEW r, NEW fresh, NEW damaged,
           Called(call, f, cut, r, fresh, damaged)
    PROVE  /\ dec' = r.s.dec /\ mux' = r.s.mux /\ fifo' = r.s.fifo
           /\ pending' = r.s.pending /\ stats' = r.s.stats
           /\ user' = user
           /\ out'.call = call /\ out'.format = f /\ out'.cut = cut
           /\ out'.ok = r.ok /\ out'.slot = r.slot
  BY DEF Called, Return

LEMMA FacadeFields ==
    /\ Facade.dec = dec /\ Facade.mux = mux /\ Facade.fifo = fifo
    /\ Facade.pending = pending /\ Facade.stats = stats
  BY DEF Facade

-----------------------------------------------------------------------------
(* Theorems *)

(* Type correctness, whatever the application calls: no counter leaves its *)
(* width, and what the delay holds always has a place in a stream.         *)
THEOREM TypeCorrect == Spec => []TypeOK
  <1>1. TypeOK /\ [Next]_vars => TypeOK'
    BY StepHolds
  <1> QED
    BY <1>1, InitHolds, PTL DEF Spec

(* An application that keeps to the operational API never has losses       *)
(* waiting in both formats.                                                *)
THEOREM OneFormat ==
    ASSUME "named" \notin EntryPoints
    PROVE  Spec => []OneFormatWaits
  <1>1. /\ TypeOK /\ OneFormatWaits /\ WaitingLossIsHeld
        /\ [Next]_vars
        => (OneFormatWaits /\ WaitingLossIsHeld)'
    BY StepHolds
  <1> QED
    BY <1>1, InitHolds, TypeCorrect, PTL DEF Spec

(* An application that keeps to the operational API always finds the       *)
(* placeholder of a waiting loss in the delay, in the shape of the frame   *)
(* that will replace it, or what a FLUSH put there after playing it.       *)
THEOREM LossIsHeld ==
    ASSUME "named" \notin EntryPoints
    PROVE  Spec => []WaitingLossIsHeld
  <1>1. /\ TypeOK /\ OneFormatWaits /\ WaitingLossIsHeld
        /\ [Next]_vars
        => (OneFormatWaits /\ WaitingLossIsHeld)'
    BY StepHolds
  <1> QED
    BY <1>1, InitHolds, TypeCorrect, PTL DEF Spec

(* The flagged API never keeps the spectra of a corrupt access unit,       *)
(* wherever its decoding stopped and whatever waited when it came.         *)
THEOREM SoundReference ==
    ASSUME EntryPoints \cap {"decode", "named"} = {}
    PROVE  Spec => []ReferenceIsSound
  <1>1. TypeOK /\ ReferenceIsSound /\ [Next]_vars => ReferenceIsSound'
    BY StepHolds
  <1> QED
    BY <1>1, InitHolds, TypeCorrect, PTL DEF Spec

-----------------------------------------------------------------------------
(* The delay *)

(* A delay that is off holds nothing that was to be played. *)
DelayIsOff == fifo.shape = NoShape => fifo.slot = Silence

LEMMA DelayOffStep ==
    ASSUME TypeOK, DelayIsOff, [Next]_vars
    PROVE  DelayIsOff'
  <1>1. ASSUME NEW call, NEW f, NEW cut \in BOOLEAN, NEW r, NEW fresh,
               NEW damaged, Called(call, f, cut, r, fresh, damaged)
        PROVE  DelayIsOff'
    <2> PICK s : s = PrepareFlags(Facade, cut)
      OBVIOUS
    <2>1. Off(Facade)
      BY FacadeFields DEF DelayIsOff, Off
    <2>2. Off(s)
      BY <2>1, FacadeType, PrepareFlagsFacts DEF Keeps
    <2>3. Off(r.s)
      BY <1>1, <2>2 DEF Called, Ends
    <2> QED
      BY <1>1, <2>3, CalledState DEF Off, DelayIsOff
  <1>2. ASSUME NEW method \in Methods, SetConcealMethod(method)
        PROVE  DelayIsOff'
    BY <1>2 DEF SetConcealMethod, ClearedFifo, DelayIsOff, TypeOK, Delay
  <1>3. CASE \E all \in BOOLEAN : ClearTransport(all)
    BY <1>3 DEF ClearTransport, DelayIsOff
  <1>4. CASE UNCHANGED vars
    BY <1>4 DEF vars, DelayIsOff
  <1> QED
    BY <1>1, <1>2, <1>3, <1>4, CalledStep

LEMMA DelayOffInit == Init => DelayIsOff
  BY DEF Init, EmptyFifo, DelayIsOff

(* As long as the application keeps to the operational API, a decoded      *)
(* frame in the delay stays there over the calls that return none and is   *)
(* what the next one plays: only a cut, a change of shape and a change of  *)
(* the concealment method give it up.                                      *)
THEOREM HeldFrame ==
    ASSUME "named" \notin EntryPoints
    PROVE  Spec => HeldFrameIsPlayed
  <1> DEFINE Played ==
        /\ fifo.slot.kind = "decoded"
        /\ ~out'.cut /\ out'.call # "set"
        /\ fifo'.shape = fifo.shape
        => IF out'.slot # NoSlot THEN out'.slot = fifo.slot
           ELSE fifo'.slot = fifo.slot
  <1>1. ASSUME TypeOK, WaitingLossIsHeld, DelayIsOff, [Next]_vars
        PROVE  [Played]_vars
    <2>1. ASSUME NEW call \in EntryPoints, NEW f \in Formats,
                 NEW cut \in BOOLEAN, NEW r, NEW fresh, NEW damaged,
                 Called(call, f, cut, r, fresh, damaged)
          PROVE  Played
      <3> SUFFICES ASSUME fifo.slot.kind = "decoded",
                          ~out'.cut, fifo'.shape = fifo.shape
                   PROVE  IF out'.slot # NoSlot THEN out'.slot = fifo.slot
                          ELSE fifo'.slot = fifo.slot
        OBVIOUS
      <3>1. PrepareFlags(Facade, cut) = Facade
        BY ONLY <2>1, ~out'.cut, CalledState DEF PrepareFlags
      <3>2. /\ call # "flush" /\ Held(Facade) => Serves(Facade, r, f)
            /\ call = "flush" => Plays(Facade, r)
        BY <2>1, <3>1 DEF Called
      <3>3. Held(Facade) /\ NoneWaits(Facade)
        BY <1>1, FacadeFacts, FacadeFields
        DEF WaitingLossIsHeld, NoneWaits, Placeholder
      <3>4. fifo.shape # NoShape /\ Off(Facade)
        BY <1>1, FacadeFields DEF DelayIsOff, Silence, Off
      <3>5. /\ r.s.fifo.shape = fifo.shape /\ out'.slot = r.slot
            /\ fifo' = r.s.fifo
        BY ONLY <2>1, fifo'.shape = fifo.shape, CalledState
      <3>7. call = "flush" => r.ok
        <4>1. call = "flush" => r = FlushCall(Facade, f)
          BY ONLY <2>1, <3>1 DEF Called
        <4>2. Facade \in Facades
          BY <1>1, FacadeFacts
        <4>3. FlushCall(Facade, f).ok
          BY ONLY <4>2, FlushCallFacts, f \in Formats
        <4> QED
          BY ONLY <4>1, <4>3
      <3>8. CASE r.ok
        <4>1. Plays(Facade, r)
          BY <3>2, <3>3, <3>4, <3>8 DEF Serves
        <4>2. out'.slot = fifo.slot
          BY <3>4, <3>5, <4>1, FacadeFields DEF Plays
        <4> QED
          BY <4>2 DEF NoSlot
      <3>9. CASE ~r.ok
        <4>1. r.slot = NoSlot /\ r.s.fifo = fifo
          BY <3>2, <3>3, <3>4, <3>7, <3>9, FacadeFields DEF Serves
        <4> QED
          BY <3>5, <4>1
      <3> QED
        BY <3>8, <3>9
    <2>2. CASE \/ \E method \in Methods : SetConcealMethod(method)
               \/ \E all \in BOOLEAN : ClearTransport(all)
      BY <2>2 DEF SetConcealMethod, ClearTransport, Quiet
    <2> QED
      BY <1>1, <2>1, <2>2, CalledStep
  <1>2. TypeOK /\ DelayIsOff /\ [Next]_vars => DelayIsOff'
    BY DelayOffStep
  <1> HIDE DEF Played
  <1>3. Spec => [][Played]_vars
    BY <1>1, <1>2, DelayOffInit, TypeCorrect, LossIsHeld, PTL DEF Spec
  <1> QED
    BY <1>3 DEF HeldFrameIsPlayed, Played

(* Under the same assumption the call that decodes or conceals after a     *)
(* loss plays a synthesized frame in its place wherever there is something *)
(* to synthesize it from, or fails and leaves that frame in the delay.     *)
THEOREM LossConcealed ==
    ASSUME "named" \notin EntryPoints
    PROVE  Spec => WaitingLossIsConcealed
  <1> DEFINE Covered ==
        /\ out'.call \notin {"flush", "set", "clear"} /\ ~out'.cut
        /\ pending[out'.format] # 0
        /\ HasReference(dec.path[out'.format])
        /\ fifo'.shape = fifo.shape
        => (IF out'.slot # NoSlot THEN out'.slot ELSE fifo'.slot).kind
              \in {"concealed", "interpolated"}
  <1>1. ASSUME TypeOK, WaitingLossIsHeld, [Next]_vars
        PROVE  [Covered]_vars
    <2>1. ASSUME NEW call \in EntryPoints, NEW f \in Formats,
                 NEW cut \in BOOLEAN, NEW r, NEW fresh, NEW damaged,
                 Called(call, f, cut, r, fresh, damaged)
          PROVE  Covered
      <3> SUFFICES ASSUME ~out'.cut, out'.call # "flush",
                          pending[out'.format] # 0,
                          HasReference(dec.path[out'.format]),
                          fifo'.shape = fifo.shape
                   PROVE  (IF out'.slot # NoSlot THEN out'.slot
                           ELSE fifo'.slot).kind
                              \in {"concealed", "interpolated"}
        OBVIOUS
      <3>0. /\ out'.call = call /\ out'.format = f /\ ~cut
            /\ r.s.fifo.shape = fifo.shape /\ out'.slot = r.slot
            /\ fifo' = r.s.fifo
        BY ONLY <2>1, ~out'.cut, fifo'.shape = fifo.shape, CalledState
      <3>1. PrepareFlags(Facade, cut) = Facade
        BY <3>0 DEF PrepareFlags
      <3>2. Held(Facade)
        BY <1>1, FacadeFacts
      <3>3. Serves(Facade, r, f)
        BY <2>1, <3>0, <3>1, <3>2 DEF Called
      <3>4. Resolves(Facade, f)
        BY <3>0, FacadeFields DEF Resolves, CanConceal
      <3>5. Fits(Facade)
        BY <3>2, <3>4 DEF Resolves, Held, Fits
      <3>6. CASE r.ok
        <4>1. Synthesized(out'.slot)
          BY <3>0, <3>3, <3>4, <3>5, <3>6, FacadeFields DEF Serves
        <4> QED
          BY <4>1 DEF Synthesized, NoSlot
      <3>7. CASE ~r.ok
        <4>1. out'.slot = NoSlot /\ Synthesized(fifo'.slot)
          BY <3>0, <3>3, <3>4, <3>5, <3>7 DEF Serves
        <4> QED
          BY <4>1 DEF Synthesized
      <3> QED
        BY <3>6, <3>7
    <2>2. CASE \/ \E method \in Methods : SetConcealMethod(method)
               \/ \E all \in BOOLEAN : ClearTransport(all)
      BY <2>2 DEF SetConcealMethod, ClearTransport, Quiet
    <2> QED
      BY <1>1, <2>1, <2>2, CalledStep
  <1> HIDE DEF Covered
  <1>2. Spec => [][Covered]_vars
    BY <1>1, TypeCorrect, LossIsHeld, PTL DEF Spec
  <1> QED
    BY <1>2 DEF WaitingLossIsConcealed, Covered

-----------------------------------------------------------------------------
(* Configurations, counts and contents *)

(* An element without a configuration is decoded under the configuration   *)
(* its multiplex was given last, for an application that does not use the  *)
(* flagged calls, which put the decoder back and not the multiplex, and    *)
(* for streams that never change the frame length alone.                   *)
THEOREM MuxFollows ==
    ASSUME "flagged" \notin EntryPoints, StreamsDiffer
    PROVE  Spec => []MuxMatchesDecoder
  <1> DEFINE Following == Matches(Facade)
  <1>1. Init => Following
    BY FacadeFields DEF Init, FreshDecoder, Matches
  <1>2. ASSUME TypeOK, Following, [Next]_vars
        PROVE  Following'
    <2>1. ASSUME NEW call, NEW f, NEW cut \in BOOLEAN, NEW r, NEW fresh,
                 NEW damaged, Called(call, f, cut, r, fresh, damaged)
          PROVE  Following'
      <3>1. Matches(PrepareFlags(Facade, cut))
        BY <1>2, FacadeType, PrepareFlagsFacts DEF Keeps, Matches
      <3>2. Matches(r.s)
        BY <2>1, <3>1 DEF Called
      <3>3. mux' = r.s.mux /\ dec' = r.s.dec
        BY ONLY <2>1, CalledState
      <3> QED
        BY <3>2, <3>3 DEF Matches, Facade
    <2>2. ASSUME UNCHANGED <<dec, mux>>
          PROVE  Following'
      BY <1>2, <2>2 DEF Matches, Facade
    <2>3. CASE \/ \E method \in Methods : SetConcealMethod(method)
               \/ \E all \in BOOLEAN : ClearTransport(all)
               \/ UNCHANGED vars
      BY <2>2, <2>3 DEF SetConcealMethod, ClearTransport, vars
    <2> QED
      BY <1>2, <2>1, <2>3, CalledStep
  <1>3. Following => MuxMatchesDecoder
    BY FacadeFields DEF Matches, MuxMatchesDecoder
  <1> HIDE DEF Following
  <1> QED
    BY <1>1, <1>2, <1>3, TypeCorrect, PTL DEF Spec

(* Every access unit is counted once, through whatever call it came and    *)
(* however often it was decoded, put back or concealed.                    *)
THEOREM UnitsCountedOnce == AuditSpec => []CountedOnce
  <1>1. AuditInit => CountedOnce
    BY DEF AuditInit, Init, NoStatistics, NoTally, CountedOnce
  <1>2. ASSUME TypeOK, CountedOnce, [AuditNext]_avars
        PROVE  CountedOnce'
    <2>1. ASSUME NEW call, NEW f, NEW cut \in BOOLEAN, NEW r, NEW fresh,
                 NEW damaged \in BOOLEAN,
                 Called(call, f, cut, r, fresh, damaged),
                 Observe(fresh, damaged)
          PROVE  CountedOnce'
      <3> PICK s : s = PrepareFlags(Facade, cut)
        OBVIOUS
      <3>1. s.stats = stats
        BY FacadeType, FacadeFields, PrepareFlagsFacts, <1>2 DEF Keeps
      <3>2. Counted(stats, r.s.stats, r.ok, damaged)
        BY <2>1, <3>1 DEF Called
      <3>3. stats' = r.s.stats /\ out'.ok = r.ok
        BY ONLY <2>1, CalledState
      <3>4. tally' =
              [processed |-> IF r.ok THEN SaturatingAdd(tally.processed, 1)
                             ELSE tally.processed,
               bad |-> IF damaged THEN SaturatingAdd(tally.bad, 1)
                       ELSE tally.bad]
        BY <2>1, <3>3 DEF Observe
      <3> QED
        BY <1>2, <3>2, <3>3, <3>4 DEF Counted, CountedOnce
    <2>2. CASE /\ \E method \in Methods : SetConcealMethod(method)
               /\ UNCHANGED tally
      BY <1>2, <2>2 DEF SetConcealMethod, CountedOnce
    <2>3. ASSUME NEW all \in BOOLEAN, ClearTransport(all),
                 tally' = IF all THEN NoTally ELSE tally
          PROVE  CountedOnce'
      <3>1. CASE all
        BY <2>3, <3>1
        DEF ClearTransport, NoStatistics, NoTally, CountedOnce
      <3>2. CASE ~all
        <4>1. /\ stats' = [stats EXCEPT !.total_bytes = 0, !.bad_bytes = 0]
              /\ tally' = tally
          BY <2>3, <3>2 DEF ClearTransport
        <4>2. stats \in Statistics
          BY <1>2 DEF TypeOK
        <4>3. /\ stats'.total_access_units = stats.total_access_units
              /\ stats'.bad_access_units = stats.bad_access_units
              /\ stats'.total_bytes = 0 /\ stats'.bad_bytes = 0
          BY <4>1, <4>2 DEF Statistics
        <4> QED
          BY <1>2, <4>1, <4>3 DEF CountedOnce
      <3> QED
        BY <3>1, <3>2
    <2>4. CASE UNCHANGED avars
      BY <1>2, <2>4 DEF avars, vars, CountedOnce
    <2> QED
      BY <1>2, <2>1, <2>2, <2>3, <2>4, ObservedStep
  <1> QED
    BY <1>1, <1>2, AuditSteps, TypeCorrect, PTL DEF AuditSpec

(* No sample crosses an interruption, through any entry point, with any    *)
(* damage and in any format.                                               *)
THEOREM NothingCrosses == AuditSpec => []NothingCrossesInterruption
  <1> DEFINE Recent == since \cup {NoContent}
             Clean == Drawn(Facade, Recent) /\ out.slot.content \in Recent
  <1>1. AuditInit => Clean
    BY FacadeFields
    DEF AuditInit, Init, FreshDecoder, FreshPath, EmptyFifo, Silence, Quiet,
        NoSlot, Drawn
  <1>2. ASSUME TypeOK, Clean, [AuditNext]_avars
        PROVE  Clean'
    <2>1. ASSUME NEW call, NEW f, NEW cut \in BOOLEAN, NEW r,
                 NEW fresh \in SUBSET Contents, NEW damaged \in BOOLEAN,
                 Called(call, f, cut, r, fresh, damaged),
                 Observe(fresh, damaged)
          PROVE  Clean'
      <3> PICK s : s = PrepareFlags(Facade, cut)
        OBVIOUS
      <3> PICK C : C = Recent'
        OBVIOUS
      <3>1. out'.cut = cut /\ out'.slot = r.slot
            /\ dec' = r.s.dec /\ fifo' = r.s.fifo
        BY ONLY <2>1, CalledState
      <3>2. since' = (IF cut THEN {} ELSE since) \cup fresh
        BY <2>1, <3>1 DEF Observe
      <3>3. NoContent \in C /\ fresh \subseteq C
        BY <3>2
      <3>4. Drawn(s, C)
        <4>1. CASE cut
          BY <1>2, <3>3, <4>1, FacadeType, PrepareFlagsFacts
        <4>2. CASE ~cut
          <5>1. s = Facade
            BY <4>2 DEF PrepareFlags
          <5>2. Recent \subseteq C
            BY <3>2, <4>2
          <5> QED
            BY <1>2, <5>1, <5>2 DEF Drawn
        <4> QED
          BY <4>1, <4>2
      <3>5. Drawn(r.s, C) /\ r.slot.content \in C
        BY <2>1, <3>3, <3>4 DEF Called, Ends
      <3>6. Drawn(Facade, Recent)'
        BY <3>1, <3>5 DEF Drawn, Facade
      <3> QED
        BY <3>1, <3>5, <3>6
    <2>2. CASE /\ \E method \in Methods : SetConcealMethod(method)
               /\ UNCHANGED since
      <3>1. /\ dec' = dec /\ fifo' = ClearedFifo(fifo) /\ since' = since
            /\ out'.slot.content = NoContent
        BY <2>2 DEF SetConcealMethod, Quiet, NoSlot
      <3>2. fifo'.slot.content = NoContent
        BY <1>2, <3>1 DEF ClearedFifo, TypeOK, Delay, Silence
      <3> QED
        BY <1>2, <3>1, <3>2 DEF Drawn, Facade
    <2>3. CASE /\ \E all \in BOOLEAN : ClearTransport(all)
               /\ UNCHANGED since
      <3>1. /\ dec' = dec /\ fifo' = fifo /\ since' = since
            /\ out'.slot.content = NoContent
        BY <2>3 DEF ClearTransport, Quiet, NoSlot
      <3> QED
        BY <1>2, <3>1 DEF Drawn, Facade
    <2>4. CASE UNCHANGED avars
      BY <1>2, <2>4 DEF avars, vars, Drawn, Facade
    <2> HIDE DEF Clean
    <2> QED
      BY <1>2, <2>1, <2>2, <2>3, <2>4, ObservedStep
  <1>3. Clean => NothingCrossesInterruption
    BY FacadeFields DEF Drawn, NothingCrossesInterruption
  <1> HIDE DEF Clean
  <1> QED
    BY <1>1, <1>2, <1>3, AuditSteps, TypeCorrect, PTL DEF AuditSpec

-----------------------------------------------------------------------------
(* Draining *)

(* The application asks for samples in one format. *)
OneSampleFormat == \A f, g \in Formats : f = g

(* One FLUSH has emptied the overlaps, two have emptied the delay. *)
Drained ==
    /\ drains \in 0..DrainBound
    /\ drains # 0 => \A g \in Formats : dec.tail[g] = NoContent
    /\ drains > 1 /\ Delays(Facade) => fifo.slot = Silence
    /\ DrainingEnds

LEMMA FlushDrains ==
    ASSUME OneSampleFormat, TypeOK, Drained,
           NEW f \in Formats, NEW cut \in BOOLEAN, NEW r, NEW fresh,
           NEW damaged,
           Called("flush", f, cut, r, fresh, damaged),
           Observe(fresh, damaged)
    PROVE  Drained'
  <1> PICK s : s = PrepareFlags(Facade, cut)
    OBVIOUS
  <1>1. s \in Facades /\ Keeps(Facade, s)
    BY FacadeType, PrepareFlagsType, PrepareFlagsFacts
  <1>2. r = FlushCall(s, f)
    BY DEF Called
  <1>3. /\ r.s.dec.cfg = s.dec.cfg /\ r.s.dec.tail[f] = NoContent
        /\ s.dec.tail[f] = NoContent =>
              /\ ~Delays(s) => r.slot = Silence
              /\ Delays(s) => r.s.fifo.slot = Silence
        /\ Delays(s) => r.slot = IF s.fifo.shape = ShapeOf(s)
                                 THEN s.fifo.slot ELSE Silence
    BY ONLY <1>1, <1>2, FlushCallFacts, f \in Formats
  <1>4. /\ dec' = r.s.dec /\ fifo' = r.s.fifo /\ user' = user
        /\ out'.call = "flush" /\ out'.cut = cut /\ out'.slot = r.slot
    BY CalledState
  <1>5. drains' = IF cut THEN 1 ELSE LeastOf(drains + 1, DrainBound)
    BY <1>4 DEF Observe
  <1>6. (Delays(Facade)' <=> Delays(s)) /\ (Delays(Facade) <=> Delays(s))
    BY <1>1, <1>3, <1>4 DEF Keeps, Delays, Method, Facade
  <1>7. ~cut => s.fifo = fifo /\ s.dec = dec
    BY FacadeFields DEF PrepareFlags
  <1>8. \A g \in Formats : dec'.tail[g] = NoContent
    BY <1>3, <1>4 DEF OneSampleFormat
  <1> PICK n \in 0..3 : n = drains
    BY DEF Drained, DrainBound
  <1>9. /\ drains' \in 0..3
        /\ drains' > 1 => ~cut /\ n # 0
        /\ drains' > 2 => n > 1
    BY <1>5 DEF LeastOf, DrainBound
  <1>10. drains' > 1 => s.dec.tail[f] = NoContent
    BY <1>7, <1>9 DEF Drained
  <1>11. drains' > 1 /\ Delays(s) => fifo'.slot = Silence
    BY <1>3, <1>4, <1>10
  <1>12. drains' > 2 /\ Delays(s) => r.slot = Silence
    <2> SUFFICES ASSUME drains' > 2, Delays(s)
                 PROVE  r.slot = Silence
      OBVIOUS
    <2>1. drains' > 1 /\ drains > 1
      BY <1>9
    <2>2. s.fifo.slot = Silence
      BY <1>6, <1>7, <1>9, <2>1 DEF Drained
    <2> QED
      BY <1>3, <2>2
  <1>13. DrainingEnds'
    <2>1. CASE Delays(s)
      <3>1. drains' >= 3 => drains' > 2
        BY <1>9
      <3> QED
        BY <1>4, <1>6, <1>12, <2>1, <3>1 DEF DrainingEnds
    <2>2. CASE ~Delays(s)
      <3>1. drains' >= 2 => drains' > 1
        BY <1>9
      <3> QED
        BY <1>3, <1>4, <1>6, <1>10, <2>2, <3>1 DEF DrainingEnds
    <2> QED
      BY <2>1, <2>2
  <1> QED
    BY <1>6, <1>8, <1>9, <1>11, <1>13 DEF Drained, DrainBound

(* An application that uses one sample format hears silence after it has   *)
(* drained the overlap and the delay.  With two formats there are two      *)
(* overlaps, and each takes a FLUSH of its own.                            *)
THEOREM DrainEnds ==
    ASSUME OneSampleFormat
    PROVE  AuditSpec => []DrainingEnds
  <1>1. AuditInit => Drained
    BY DEF AuditInit, Drained, DrainingEnds, DrainBound
  <1>2. ASSUME drains' = 0
        PROVE  Drained'
    BY <1>2 DEF Drained, DrainingEnds, DrainBound
  <1>3. ASSUME TypeOK, Drained, [AuditNext]_avars
        PROVE  Drained'
    <2>1. ASSUME NEW call, NEW f \in Formats, NEW cut \in BOOLEAN, NEW r,
                 NEW fresh, NEW damaged,
                 Called(call, f, cut, r, fresh, damaged),
                 Observe(fresh, damaged)
          PROVE  Drained'
      <3>1. CASE call = "flush"
        BY <1>3, <2>1, <3>1, FlushDrains
      <3>2. CASE call # "flush"
        <4>1. out'.call = call
          BY ONLY <2>1, CalledState
        <4>2. drains' = 0
          BY <2>1, <3>2, <4>1 DEF Observe
        <4> QED
          BY <1>2, <4>2
      <3> QED
        BY <3>1, <3>2
    <2>2. CASE UNCHANGED avars
      BY <1>3, <2>2
      DEF avars, vars, Drained, DrainingEnds, Delays, Method, Facade
    <2> QED
      BY <1>2, <1>3, <2>1, <2>2, ObservedStep
  <1>4. Drained => DrainingEnds
    BY DEF Drained
  <1> QED
    BY <1>1, <1>3, <1>4, AuditSteps, TypeCorrect, PTL DEF AuditSpec

-----------------------------------------------------------------------------
(* Long bursts *)

(* A slot that a caller hears as silence. *)
Faded(slot) == slot.level = Silent \/ slot \in {Silence, Placeholder}

(* The loss that is in the delay is not counted by the path yet. *)
InDelay(s, f) == IF s.pending[f] # 0 THEN 1 ELSE 0

(* After n losses in a row the paths have counted as many, except for the  *)
(* one in the delay, and what the delay holds is silent if the burst is.   *)
(* This fails when access units are corrupt and the losses are delayed:    *)
(* putting the decoder back forgets the losses that were concealed.        *)
Fades(s, n, corrupted) ==
    ~(corrupted /\ Delays(s)) =>
        \A g \in Formats :
            /\ HasReference(s.dec.path[g])
                  => n <= s.dec.path[g].losses + InDelay(s, g)
            /\ Delays(s) /\ n # 0 =>
                  /\ ~HasReference(s.dec.path[g])
                        => s.fifo.slot \in {Silence, Placeholder}
                  /\ s.pending[g] = 0
                     /\ s.dec.path[g].losses > FadeOutLosses + 1
                        => Faded(s.fifo.slot)

LEMMA LossSteps ==
    ASSUME UsizeMax >= LostBound, NEW p \in Path, NEW mute \in BOOLEAN,
           NEW n \in 0..LostBound
    PROVE  LET q == ConcealedPath(p, mute)
               m == LeastOf(n + 1, LostBound)
           IN /\ m \in 0..LostBound
              /\ HasReference(q) <=> HasReference(p)
              /\ q.losses \in Nat /\ p.losses \in Nat
              /\ n <= p.losses => n <= q.losses /\ m <= q.losses
              /\ n <= p.losses + 1 => n <= q.losses /\ m <= q.losses + 1
              /\ q.losses > FadeOutLosses + 1 => ConcealedLevel(p, mute) = Silent
              /\ m = LostBound /\ n <= p.losses + 1
                    => ConcealedLevel(p, mute) = Silent
              /\ m = LostBound /\ n <= p.losses => p.losses > FadeOutLosses + 1
  <1>1. p.losses \in 0..UsizeMax
    BY DEF Path
  <1>2. ConcealedPath(p, mute).losses = LeastOf(p.losses + 1, UsizeMax)
    BY DEF ConcealedPath, ConcealingPath, SaturatingInc, Path
  <1>3. ConcealedPath(p, mute).ref = p.ref
    BY ConcealedPathType
  <1>4. p.losses > FadeOutLosses => ConcealedLevel(p, mute) = Silent
    BY <1>1, UsizeAssumption DEF ConcealedLevel, LossLevel, FadeOutLosses
  <1>5. HasReference(ConcealedPath(p, mute)) <=> HasReference(p)
    BY <1>3 DEF HasReference
  <1> PICK l \in 0..UsizeMax : l = p.losses
    BY <1>1
  <1> PICK k : k = ConcealedPath(p, mute).losses
    OBVIOUS
  <1> PICK m : m = LeastOf(n + 1, LostBound)
    OBVIOUS
  <1>6. /\ k = IF l + 1 <= UsizeMax THEN l + 1 ELSE UsizeMax
        /\ m = IF n + 1 <= 9 THEN n + 1 ELSE 9
        /\ n \in 0..9 /\ UsizeMax >= 9 /\ UsizeMax \in Nat
    BY <1>2, UsizeAssumption DEF LeastOf, LostBound, FadeOutLosses
  <1>7. /\ m \in 0..9 /\ k \in Nat
        /\ n <= l => n <= k /\ m <= k
        /\ n <= l + 1 => n <= k /\ m <= k + 1
        /\ k > 7 => l > 6
        /\ m = 9 /\ n <= l + 1 => l > 6
        /\ m = 9 /\ n <= l => l > 7
    BY ONLY <1>6, l \in 0..UsizeMax
  <1> QED
    BY ONLY <1>4, <1>5, <1>7, l \in 0..UsizeMax, l = p.losses,
            k = ConcealedPath(p, mute).losses, UsizeAssumption,
            m = LeastOf(n + 1, LostBound)
       DEF LostBound, FadeOutLosses

(* No loss, no promise. *)
LEMMA FadesFromStart ==
    ASSUME NEW s \in Facades, NEW corrupted
    PROVE  Fades(s, 0, corrupted)
  <1>1. \A g \in Formats : s.dec.path[g].losses \in Nat
    BY UsizeAssumption DEF Facades, Decoder, Path
  <1>2. \A g \in Formats : InDelay(s, g) \in {0, 1}
    BY DEF InDelay
  <1>3. \A g \in Formats : 0 <= s.dec.path[g].losses + InDelay(s, g)
    BY <1>1, <1>2
  <1> QED
    BY <1>3 DEF Fades

(* A reported loss is one more, and the ninth is not heard. *)
LEMMA ConcealFades ==
    ASSUME OneSampleFormat, UsizeMax >= LostBound,
           NEW s \in Facades, NEW f \in Formats, NEW n \in 0..LostBound,
           NEW corrupted \in BOOLEAN, Held(s), Fades(s, n, corrupted),
           ~(corrupted /\ Delays(s))
    PROVE  LET r == ConcealCall(s, f)
               m == LeastOf(n + 1, LostBound)
           IN /\ r.s.dec.cfg = s.dec.cfg
              /\ Fades(r.s, m, corrupted)
              /\ m = LostBound => Faded(r.slot)
  <1> PICK c : c = CountConcealed(s)
    OBVIOUS
  <1> PICK r : r = ConcealCall(s, f)
    OBVIOUS
  <1> PICK m : m = LeastOf(n + 1, LostBound)
    OBVIOUS
  <1> PICK p : p = s.dec.path[f]
    OBVIOUS
  <1>1. /\ c \in Facades
        /\ c.dec = s.dec /\ c.fifo = s.fifo /\ c.pending = s.pending
    <2> PICK a : a = CountAccessUnit(s, 0, TRUE)
      OBVIOUS
    <2>1. /\ a \in Facades
          /\ a.dec = s.dec /\ a.fifo = s.fifo /\ a.pending = s.pending
      <3>1. 0 \in Nat /\ TRUE \in BOOLEAN
        OBVIOUS
      <3> QED
        BY <3>1, CountType
    <2>2. c = CountRecovered(a)
      BY DEF CountConcealed
    <2> QED
      BY <2>1, <2>2, RecoveredType
  <1>2. /\ Delays(c) <=> Delays(s)
        /\ ShapeOf(c) = ShapeOf(s)
        /\ Resolves(c, f) <=> Resolves(s, f)
        /\ CanConceal(c, f) <=> HasReference(p)
    BY <1>1, SameDelay DEF Resolves, CanConceal
  <1>3. r = IF Delays(c) THEN DelayedConceal(c, f)
            ELSE IF CanConceal(c, f) THEN ConcealNow(c, f)
            ELSE Render(c, Silence)
    BY DEF ConcealCall
  <1>4. p \in Path /\ p.losses \in Nat
    BY UsizeAssumption DEF Facades, Decoder, Path
  <1>5. /\ HasReference(p) => n <= p.losses + InDelay(s, f)
        /\ Delays(s) /\ n # 0 =>
              /\ ~HasReference(p) => s.fifo.slot \in {Silence, Placeholder}
              /\ s.pending[f] = 0 /\ p.losses > FadeOutLosses + 1
                    => Faded(s.fifo.slot)
    BY DEF Fades
  <1>6. m = LostBound => n # 0
    BY DEF LeastOf, LostBound, FadeOutLosses
  <1>7. CASE Delays(c)
    <2>1. r = DelayedConceal(c, f)
      BY <1>3, <1>7
    <2>2. /\ r \in Outcomes
          /\ r.s.dec.cfg = c.dec.cfg
          /\ r.s.fifo = [shape |-> ShapeOf(c), slot |-> Placeholder]
      BY ONLY <1>1, <1>7, <2>1, DelayedConcealType, f \in Formats
    <2>3. /\ r.s.pending[f] = SaturatingInc(c.pending[f])
          /\ r.slot = IF c.fifo.shape # ShapeOf(c) THEN Silence
                      ELSE IF Resolves(c, f) THEN ConcealedSlot(c, f, FALSE)
                      ELSE c.fifo.slot
          /\ r.s.dec.path[f] = IF Resolves(c, f)
                               THEN ConcealedPath(c.dec.path[f], FALSE)
                               ELSE c.dec.path[f]
      BY ONLY <1>1, <1>7, <2>1, DelayedConcealFacts, f \in Formats
    <2>4. InDelay(r.s, f) = 1
      <3>1. c.pending[f] \in 0..UsizeMax
        BY <1>1 DEF Facades
      <3> QED
        BY <2>3, <3>1, SaturatingType DEF InDelay
    <2>a. r.s.fifo.slot = Placeholder /\ r.s.pending[f] # 0
      BY <2>2, <2>4 DEF InDelay
    <2>b. ASSUME HasReference(r.s.dec.path[f])
                    => m <= r.s.dec.path[f].losses + InDelay(r.s, f)
          PROVE  Fades(r.s, m, corrupted)
      <3>1. \A g \in Formats : g = f
        BY DEF OneSampleFormat
      <3>2. r.s.fifo.slot \in {Silence, Placeholder}
        BY <2>a
      <3>3. \A g \in Formats :
                HasReference(r.s.dec.path[g])
                    => m <= r.s.dec.path[g].losses + InDelay(r.s, g)
        <4> SUFFICES ASSUME NEW g \in Formats
                     PROVE  HasReference(r.s.dec.path[g])
                              => m <= r.s.dec.path[g].losses + InDelay(r.s, g)
          OBVIOUS
        <4>1. g = f
          BY <3>1
        <4> QED
          BY ONLY <2>b, <4>1
      <3>4. \A g \in Formats : r.s.pending[g] # 0
        <4> SUFFICES ASSUME NEW g \in Formats
                     PROVE  r.s.pending[g] # 0
          OBVIOUS
        <4>1. g = f
          BY <3>1
        <4> QED
          BY ONLY <2>a, <4>1
      <3> QED
        BY ONLY <3>2, <3>3, <3>4, Zenon DEF Fades
    <2>5. CASE Resolves(s, f)
      <3> PICK q : q = ConcealedPath(p, FALSE)
        OBVIOUS
      <3>1. HasReference(p) /\ InDelay(s, f) = 1
        BY <2>5 DEF Resolves, CanConceal, InDelay
      <3>2. /\ n <= p.losses + 1 => m <= q.losses + 1
            /\ m = LostBound /\ n <= p.losses + 1
                  => ConcealedLevel(p, FALSE) = Silent
        BY ONLY <1>4, LossSteps, UsizeMax >= LostBound, n \in 0..LostBound,
                m = LeastOf(n + 1, LostBound), q = ConcealedPath(p, FALSE)
      <3>3. n <= p.losses + 1
        BY <1>5, <3>1
      <3>4. r.s.dec.path[f] = q
        BY <1>1, <1>2, <2>3, <2>5
      <3>5. m <= r.s.dec.path[f].losses + InDelay(r.s, f)
        BY <2>4, <3>2, <3>3, <3>4
      <3>6. m = LostBound => ConcealedSlot(c, f, FALSE).level = Silent
        BY <1>1, <3>2, <3>3 DEF ConcealedSlot
      <3>7. m = LostBound => Faded(r.slot)
        BY <1>2, <2>3, <2>5, <3>6 DEF Faded
      <3>8. Fades(r.s, m, corrupted)
        BY <2>b, <3>5
      <3> QED
        BY <1>1, <2>2, <3>7, <3>8
    <2>6. CASE ~Resolves(s, f)
      <3>1. r.s.dec.path[f] = p
        BY <1>1, <1>2, <2>3, <2>6
      <3>2. HasReference(p) => s.pending[f] = 0 /\ n <= p.losses
        BY <1>4, <1>5, <2>6 DEF Resolves, CanConceal, InDelay
      <3>3. HasReference(p) => m <= p.losses + 1
        BY <1>4, <3>2 DEF LeastOf, LostBound, FadeOutLosses
      <3>4. m = LostBound /\ HasReference(p) => p.losses > FadeOutLosses + 1
        BY <1>4, <3>2 DEF LeastOf, LostBound, FadeOutLosses
      <3>5. m = LostBound => Faded(s.fifo.slot)
        BY <1>2, <1>5, <1>6, <1>7, <3>2, <3>4 DEF Faded
      <3>6. m = LostBound => Faded(r.slot)
        BY <1>1, <1>2, <2>3, <2>6, <3>5 DEF Faded
      <3>7. HasReference(p)
              => m <= r.s.dec.path[f].losses + InDelay(r.s, f)
        BY <2>4, <3>1, <3>3
      <3>8. Fades(r.s, m, corrupted)
        BY <2>b, <3>1, <3>7
      <3> QED
        BY <1>1, <2>2, <3>6, <3>8
    <2> QED
      BY <2>5, <2>6
  <1>8. CASE ~Delays(c)
    <2>1. InDelay(s, f) = 0
      BY <1>2, <1>8 DEF Held, InDelay
    <2>2. HasReference(p) => n <= p.losses
      BY <1>4, <1>5, <2>1
    <2>3. CASE HasReference(p)
      <3> PICK mute \in BOOLEAN : mute = (Method(c) = "mute")
        OBVIOUS
      <3> PICK q : q = ConcealedPath(p, mute)
        OBVIOUS
      <3>1. r = ConcealNow(c, f)
        BY <1>2, <1>3, <1>8, <2>3
      <3>2. r \in Outcomes /\ r.s.dec.cfg = c.dec.cfg
        BY ONLY <1>1, <3>1, ConcealNowType, f \in Formats
      <3>3. /\ r.slot = ConcealedSlot(c, f, mute)
            /\ r.s.dec.path[f] = ConcealedPath(c.dec.path[f], mute)
        BY ONLY <1>1, <1>8, <3>1, ConcealNowFacts, f \in Formats,
                mute = (Method(c) = "mute")
      <3>4. /\ n <= p.losses => m <= q.losses
            /\ q.losses \in Nat
            /\ m = LostBound /\ n <= p.losses + 1
                  => ConcealedLevel(p, mute) = Silent
        BY ONLY <1>4, LossSteps, UsizeMax >= LostBound, n \in 0..LostBound,
                mute \in BOOLEAN,
                m = LeastOf(n + 1, LostBound), q = ConcealedPath(p, mute)
      <3>5. n <= p.losses /\ n <= p.losses + 1
        BY <1>4, <2>2, <2>3
      <3>6. m <= r.s.dec.path[f].losses + InDelay(r.s, f)
        <4>1. InDelay(r.s, f) \in {0, 1} /\ m \in 0..LostBound
          BY DEF InDelay, LeastOf, LostBound, FadeOutLosses
        <4> QED
          BY <1>1, <3>3, <3>4, <3>5, <4>1 DEF LostBound, FadeOutLosses
      <3>7. m = LostBound => Faded(r.slot)
        BY <1>1, <3>3, <3>4, <3>5 DEF Faded, ConcealedSlot
      <3>8. ~Delays(r.s)
        BY <1>8, <3>2 DEF Delays, Method
      <3>9. Fades(r.s, m, corrupted)
        BY <3>6, <3>8 DEF Fades, OneSampleFormat
      <3> QED
        BY <1>1, <3>2, <3>7, <3>9
    <2>4. CASE ~HasReference(p)
      <3>1. r = Render(c, Silence)
        BY <1>2, <1>3, <1>8, <2>4
      <3>2. r.s.dec = c.dec
        BY ONLY <1>1, <3>1, SlotTypes, RenderType
      <3>3. r.slot = Silence
        BY ONLY <1>1, <1>8, <3>1, SlotTypes, RenderFacts
      <3>4. ~Delays(r.s)
        BY <1>8, <3>2 DEF Delays, Method
      <3>5. Fades(r.s, m, corrupted)
        BY <1>1, <2>4, <3>2, <3>4 DEF Fades, OneSampleFormat
      <3> QED
        BY <1>1, <3>2, <3>3, <3>5 DEF Faded
    <2> QED
      BY <2>3, <2>4
  <1> QED
    BY <1>7, <1>8

(* A flag that cuts the stream starts a new burst. *)
LEMMA PrepareFades ==
    ASSUME NEW s \in Facades, NEW cut \in BOOLEAN, NEW n \in 0..LostBound,
           NEW corrupted \in BOOLEAN, Fades(s, n, corrupted),
           corrupted => n # 0
    PROVE  LET uncut == IF cut THEN 0 ELSE n
           IN Fades(PrepareFlags(s, cut), uncut, corrupted /\ uncut # 0)
  <1> PICK t : t = PrepareFlags(s, cut)
    OBVIOUS
  <1>1. CASE cut
    <2>1. t \in Facades
      BY PrepareFlagsType
    <2>2. Fades(t, 0, corrupted /\ 0 # 0)
      BY ONLY <2>1, FadesFromStart
    <2> QED
      BY <1>1, <2>2
  <1>2. CASE ~cut
    <2>1. t = s
      BY <1>2 DEF PrepareFlags
    <2>2. corrupted /\ n # 0 <=> corrupted
      OBVIOUS
    <2> QED
      BY <1>2, <2>1, <2>2 DEF Fades
  <1> QED
    BY <1>1, <1>2

(* Draining is not a loss and does not count one; what it leaves in the    *)
(* delay is silence where the overlap was empty.                           *)
LEMMA FlushFades ==
    ASSUME NEW s \in Facades, NEW f \in Formats, NEW n \in 0..LostBound,
           NEW corrupted \in BOOLEAN,
           OneSampleFormat, Tidy(s.dec), Fades(s, n, corrupted)
    PROVE  LET r == FlushCall(s, f)
           IN r.s.dec.cfg = s.dec.cfg /\ Fades(r.s, n, corrupted)
  <1> PICK r : r = FlushCall(s, f)
    OBVIOUS
  <1>1. /\ r.s.dec.cfg = s.dec.cfg /\ r.s.dec.path = s.dec.path
        /\ r.s.pending = s.pending
        /\ s.dec.tail[f] = NoContent /\ Delays(s) => r.s.fifo.slot = Silence
    BY ONLY FlushCallFacts, s \in Facades, f \in Formats, r = FlushCall(s, f)
  <1>2. Delays(r.s) <=> Delays(s)
    BY <1>1 DEF Delays, Method
  <1>3. \A g \in Formats : InDelay(r.s, g) = InDelay(s, g)
    BY <1>1 DEF InDelay
  <1>4. ASSUME NEW g \in Formats, Delays(s),
               \/ ~HasReference(s.dec.path[g])
               \/ s.dec.path[g].losses > FadeOutLosses + 1
        PROVE  r.s.fifo.slot = Silence
    <2>1. g = f
      BY DEF OneSampleFormat
    <2>2. s.dec.tail[f] = NoContent
      BY <1>4, <2>1 DEF Tidy
    <2> QED
      BY <1>1, <1>4, <2>2
  <1>5. ASSUME NEW g \in Formats, ~(corrupted /\ Delays(s))
        PROVE  /\ HasReference(r.s.dec.path[g])
                    => n <= r.s.dec.path[g].losses + InDelay(r.s, g)
               /\ Delays(r.s) /\ ~HasReference(r.s.dec.path[g])
                    => r.s.fifo.slot = Silence
               /\ Delays(r.s) /\ r.s.dec.path[g].losses > FadeOutLosses + 1
                    => r.s.fifo.slot = Silence
    BY <1>1, <1>2, <1>3, <1>4, <1>5 DEF Fades
  <1>6. r.s.fifo.slot = Silence => Faded(r.s.fifo.slot)
    BY DEF Faded
  <1>7. Fades(r.s, n, corrupted)
    BY ONLY <1>2, <1>5, <1>6, Zenon DEF Fades
  <1> QED
    BY <1>1, <1>7

LEMMA ConcealCallKeepsStream ==
    ASSUME NEW s \in Facades, NEW f \in Formats
    PROVE  ConcealCall(s, f).s.dec.cfg = s.dec.cfg
  <1> PICK c : c = CountConcealed(s)
    OBVIOUS
  <1> PICK a : a = CountAccessUnit(s, 0, TRUE)
    OBVIOUS
  <1>1. a \in Facades /\ a.dec = s.dec
    <2>1. 0 \in Nat /\ TRUE \in BOOLEAN
      OBVIOUS
    <2> QED
      BY <2>1, CountType
  <1>2. c \in Facades /\ c.dec = s.dec
    BY <1>1, RecoveredType DEF CountConcealed
  <1>3. Delays(c) => DelayedConceal(c, f).s.dec.cfg = c.dec.cfg
    BY <1>2, DelayedConcealType
  <1>4. ConcealNow(c, f).s.dec.cfg = c.dec.cfg
    BY <1>2, ConcealNowType
  <1>5. Render(c, Silence).s.dec = c.dec
    BY <1>2, RenderType, SlotTypes
  <1> QED
    BY <1>2, <1>3, <1>4, <1>5 DEF ConcealCall

(* An access unit.  A frame ends the burst; a damaged one that is          *)
(* concealed is one loss more; an error leaves the burst as it was, with   *)
(* the loss that waited counted.                                           *)
LEMMA FlaggedFades ==
    ASSUME OneSampleFormat, UsizeMax >= LostBound,
           NEW s \in Facades, NEW f \in Formats, NEW au \in AccessUnit,
           NEW n \in 0..LostBound, NEW corrupted \in BOOLEAN,
           Held(s), Fades(s, n, corrupted)
    PROVE  LET r == DecodeOrConceal(s, f, au)
               m == LeastOf(n + 1, LostBound)
           IN /\ r.ok /\ au.fault = "none" => Fades(r.s, 0, FALSE)
              /\ r.ok /\ au.fault # "none" =>
                    /\ Fades(r.s, m, TRUE)
                    /\ m = LostBound /\ ~Delays(r.s) => Faded(r.slot)
              /\ ~r.ok => Fades(r.s, n, corrupted)
  <1> PICK tried : tried = DecodeInner(s, f, au)
    OBVIOUS
  <1> PICK back : back = [tried.s EXCEPT !.dec = s.dec]
    OBVIOUS
  <1> PICK r : r = DecodeOrConceal(s, f, au)
    OBVIOUS
  <1> PICK m : m = LeastOf(n + 1, LostBound)
    OBVIOUS
  <1> PICK p : p = s.dec.path[f]
    OBVIOUS
  <1>1. /\ tried \in Outcomes
        /\ tried.ok <=> au.fault = "none"
        /\ NoneWaits(tried.s)
    BY DecodeInnerType
  <1>2. /\ back \in Facades /\ back.dec = s.dec
    BY <1>1 DEF Outcomes, Facades
  <1>3. r = IF tried.ok \/ au.fault = "framing" THEN tried
            ELSE IF Delays(back) THEN DelayedConceal(CountRecovered(back), f)
            ELSE IF CanConceal(back, f)
                 THEN ConcealNow(CountRecovered(back), f)
            ELSE Failed(back)
    BY DEF DecodeOrConceal
  <1>4. r \in Outcomes
    BY DecodeOrConcealType
  <1>5. p \in Path /\ p.losses \in Nat
    BY UsizeAssumption DEF Facades, Decoder, Path
  <1>6. \A g \in Formats : g = f
    BY DEF OneSampleFormat
  <1>7. Delays(back) <=> Delays(s)
    BY <1>2 DEF Delays, Method
  <1>8. ~(corrupted /\ Delays(s)) =>
           /\ HasReference(p) => n <= p.losses + InDelay(s, f)
           /\ Delays(s) /\ n # 0 =>
                 /\ ~HasReference(p) => s.fifo.slot \in {Silence, Placeholder}
                 /\ s.pending[f] = 0 /\ p.losses > FadeOutLosses + 1
                        => Faded(s.fifo.slot)
    BY DEF Fades
  <1>9. CASE tried.ok
    <2>1. r = tried
      BY <1>3, <1>9
    <2>2. r.s \in Facades
      BY <1>4 DEF Outcomes
    <2>3. Fades(r.s, 0, FALSE)
      BY ONLY <2>2, FadesFromStart
    <2> QED
      BY <1>1, <1>9, <2>1, <2>3
  <1>10. CASE au.fault = "framing"
    <2> PICK u : u = Ready(s, f, au)
      OBVIOUS
    <2>1. r = tried /\ ~r.ok /\ au.fault # "none"
      BY <1>1, <1>3, <1>10
    <2>2. r.s.dec = u.dec /\ r.s.fifo = u.fifo
      BY ONLY <1>10, <2>1, DecodeInnerFacts, s \in Facades, f \in Formats,
              au \in AccessUnit, tried = DecodeInner(s, f, au),
              u = Ready(s, f, au)
    <2>3. /\ Keeps(s, u)
          /\ ~Resolves(s, f) => u.fifo = s.fifo /\ u.dec = s.dec
          /\ Resolves(s, f) /\ Fits(s) =>
                /\ u.dec.path[f] = ConcealedPath(s.dec.path[f], FALSE)
                /\ u.fifo.slot = ConcealedSlot(s, f, FALSE)
      BY ONLY <2>1, ReadyFacts, s \in Facades, f \in Formats,
              au \in AccessUnit, u = Ready(s, f, au)
    <2>4. Delays(r.s) <=> Delays(s)
      BY <2>2, <2>3 DEF Keeps, Delays, Method
    <2>5. r.s.pending[f] = 0 /\ InDelay(r.s, f) = 0
      BY <1>1, <2>1 DEF NoneWaits, InDelay
    <2>6. ASSUME ~(corrupted /\ Delays(s)),
                 \/ ~HasReference(p)
                 \/ HasReference(p) /\ ~Resolves(s, f)
          PROVE  /\ HasReference(r.s.dec.path[f])
                       => n <= r.s.dec.path[f].losses
                 /\ Delays(s) /\ n # 0 =>
                       /\ ~HasReference(r.s.dec.path[f])
                             => r.s.fifo.slot \in {Silence, Placeholder}
                       /\ r.s.dec.path[f].losses > FadeOutLosses + 1
                             => Faded(r.s.fifo.slot)
      <3>1. r.s.dec.path[f] = p /\ r.s.fifo = s.fifo
        BY <2>2, <2>3, <2>6 DEF Resolves, CanConceal
      <3>2. HasReference(p) => s.pending[f] = 0 /\ InDelay(s, f) = 0
        BY <2>6 DEF Resolves, CanConceal, InDelay
      <3>3. HasReference(p) => n <= p.losses
        BY <1>5, <1>8, <2>6, <3>2
      <3> QED
        BY <1>8, <2>6, <3>1, <3>2, <3>3 DEF Faded
    <2>7. ASSUME ~(corrupted /\ Delays(s)), HasReference(p), Resolves(s, f)
          PROVE  /\ HasReference(r.s.dec.path[f])
                 /\ n <= r.s.dec.path[f].losses
                 /\ r.s.dec.path[f].losses > FadeOutLosses + 1
                       => Faded(r.s.fifo.slot)
      <3> PICK q : q = ConcealedPath(p, FALSE)
        OBVIOUS
      <3>1. /\ HasReference(q) <=> HasReference(p)
            /\ n <= p.losses + 1 => n <= q.losses
            /\ q.losses > FadeOutLosses + 1
                  => ConcealedLevel(p, FALSE) = Silent
        BY ONLY <1>5, LossSteps, UsizeMax >= LostBound, n \in 0..LostBound,
                q = ConcealedPath(p, FALSE)
      <3>2. Fits(s)
        BY <2>7 DEF Held, Resolves, Fits
      <3>3. /\ r.s.dec.path[f] = q
            /\ r.s.fifo.slot = ConcealedSlot(s, f, FALSE)
        BY <2>2, <2>3, <2>7, <3>2
      <3>4. n <= p.losses + 1
        BY <1>5, <1>8, <2>7 DEF InDelay
      <3>5. q.losses > FadeOutLosses + 1 => Faded(r.s.fifo.slot)
        <4>1. ConcealedSlot(s, f, FALSE).level = ConcealedLevel(p, FALSE)
          BY DEF ConcealedSlot
        <4> QED
          BY ONLY <3>1, <3>3, <4>1 DEF Faded
      <3> QED
        BY <2>7, <3>1, <3>3, <3>4, <3>5
    <2>8. ~(corrupted /\ Delays(s)) =>
             /\ HasReference(r.s.dec.path[f]) => n <= r.s.dec.path[f].losses
             /\ Delays(s) /\ n # 0 =>
                   /\ ~HasReference(r.s.dec.path[f])
                         => r.s.fifo.slot \in {Silence, Placeholder}
                   /\ r.s.dec.path[f].losses > FadeOutLosses + 1
                         => Faded(r.s.fifo.slot)
      BY <2>6, <2>7
    <2>9. r.s.dec.path[f].losses \in Nat
      BY <1>4, UsizeAssumption DEF Outcomes, Facades, Decoder, Path
    <2>10. HasReference(r.s.dec.path[f]) /\ n <= r.s.dec.path[f].losses
             => n <= r.s.dec.path[f].losses + InDelay(r.s, f)
      BY <2>5, <2>9
    <2>11. Fades(r.s, n, corrupted)
      <3>1. ASSUME NEW g \in Formats, ~(corrupted /\ Delays(s))
            PROVE  /\ HasReference(r.s.dec.path[g])
                        => n <= r.s.dec.path[g].losses + InDelay(r.s, g)
                   /\ Delays(s) /\ n # 0 =>
                        /\ ~HasReference(r.s.dec.path[g])
                              => r.s.fifo.slot \in {Silence, Placeholder}
                        /\ r.s.dec.path[g].losses > FadeOutLosses + 1
                              => Faded(r.s.fifo.slot)
        <4>1. g = f
          BY <1>6
        <4> QED
          BY ONLY <2>8, <2>10, <3>1, <4>1
      <3> QED
        BY ONLY <2>4, <3>1, Zenon DEF Fades
    <2> QED
      BY <2>1, <2>11
  <1>11. CASE ~tried.ok /\ au.fault # "framing"
    <2> PICK c : c = CountRecovered(back)
      OBVIOUS
    <2>1. c \in Facades /\ c.dec = s.dec
      BY <1>2, RecoveredType
    <2>2. Delays(c) <=> Delays(s)
      BY <2>1 DEF Delays, Method
    <2>3. CASE Delays(s)
      <3>1. r = DelayedConceal(c, f)
        BY <1>3, <1>7, <1>11, <2>3
      <3>2. r.ok /\ r.s.dec.cfg = c.dec.cfg
        BY ONLY <2>1, <2>2, <2>3, <3>1, DelayedConcealType, f \in Formats
      <3>3. Delays(r.s)
        BY <2>1, <2>3, <3>2 DEF Delays, Method
      <3> QED
        BY <1>1, <1>11, <3>2, <3>3 DEF Fades
    <2>4. CASE ~Delays(s) /\ HasReference(p)
      <3> PICK mute \in BOOLEAN : mute = (Method(c) = "mute")
        OBVIOUS
      <3> PICK q : q = ConcealedPath(p, mute)
        OBVIOUS
      <3>1. r = ConcealNow(c, f)
        BY <1>2, <1>3, <1>7, <1>11, <2>4 DEF CanConceal
      <3>2. r.ok /\ r.s.dec.cfg = c.dec.cfg
        BY ONLY <2>1, <3>1, ConcealNowType, f \in Formats
      <3>3. /\ r.slot = ConcealedSlot(c, f, mute)
            /\ r.s.dec.path[f] = ConcealedPath(c.dec.path[f], mute)
        BY ONLY <2>1, <2>2, <2>4, <3>1, ConcealNowFacts, f \in Formats,
                mute = (Method(c) = "mute")
      <3>4. /\ n <= p.losses => m <= q.losses
            /\ q.losses \in Nat /\ m \in 0..LostBound
            /\ m = LostBound /\ n <= p.losses + 1
                  => ConcealedLevel(p, mute) = Silent
        BY ONLY <1>5, LossSteps, UsizeMax >= LostBound, n \in 0..LostBound,
                mute \in BOOLEAN,
                m = LeastOf(n + 1, LostBound), q = ConcealedPath(p, mute)
      <3>5. n <= p.losses /\ n <= p.losses + 1
        <4>1. InDelay(s, f) = 0
          BY <2>4 DEF Held, InDelay
        <4> QED
          BY <1>5, <1>8, <2>4, <4>1
      <3>6. m <= r.s.dec.path[f].losses + InDelay(r.s, f)
        <4>1. InDelay(r.s, f) \in {0, 1}
          BY DEF InDelay
        <4> QED
          BY <2>1, <3>3, <3>4, <3>5, <4>1 DEF LostBound, FadeOutLosses
      <3>7. m = LostBound => Faded(r.slot)
        BY <2>1, <3>3, <3>4, <3>5 DEF Faded, ConcealedSlot
      <3>8. ~Delays(r.s)
        BY <2>1, <2>4, <3>2 DEF Delays, Method
      <3>9. Fades(r.s, m, TRUE)
        BY ONLY <1>6, <3>6, <3>8 DEF Fades
      <3> QED
        BY <1>1, <1>11, <3>2, <3>7, <3>9
    <2>5. CASE ~Delays(s) /\ ~HasReference(p)
      <3>1. r = Failed(back)
        BY <1>2, <1>3, <1>7, <1>11, <2>5 DEF CanConceal
      <3>2. ~r.ok /\ r.s = back
        BY <3>1 DEF Failed
      <3>3. ~Delays(r.s) /\ ~HasReference(r.s.dec.path[f])
        BY <1>2, <1>7, <2>5, <3>2
      <3>4. Fades(r.s, n, corrupted)
        BY ONLY <1>6, <3>3 DEF Fades
      <3> QED
        BY <3>2, <3>4
    <2> QED
      BY <2>3, <2>4, <2>5
  <1> QED
    BY <1>9, <1>10, <1>11

Fading ==
    /\ lost \in 0..LostBound
    /\ corrupt \in BOOLEAN
    /\ corrupt => lost # 0
    /\ Tidy(dec)
    /\ Fades(Facade, lost, corrupt)
    /\ BurstFadesOut

(* What a call has to show. *)
LEMMA FadingNext ==
    ASSUME NEW call, NEW f, NEW cut, NEW r \in Outcomes, NEW fresh,
           NEW damaged, Called(call, f, cut, r, fresh, damaged),
           NEW m \in 0..LostBound, NEW c \in BOOLEAN,
           lost' = m, corrupt' = c, c => m # 0,
           Tidy(r.s.dec), Fades(r.s, m, c),
           /\ ~(c /\ Delays(r.s)) /\ m = LostBound /\ r.ok
           /\ call \in {"flagged", "conceal"}
           => Faded(r.slot)
    PROVE  Fading'
  <1>1. /\ dec' = r.s.dec /\ fifo' = r.s.fifo /\ pending' = r.s.pending
        /\ user' = user
        /\ out'.call = call /\ out'.ok = r.ok /\ out'.slot = r.slot
    BY CalledState
  <1>2. Delays(Facade)' <=> Delays(r.s)
    BY <1>1 DEF Delays, Method, Facade
  <1>3. Tidy(dec)'
    BY <1>1 DEF Tidy
  <1>4. Fades(Facade, lost, corrupt)'
    BY <1>1, <1>2 DEF Fades, InDelay, Facade
  <1>5. BurstFadesOut'
    BY <1>1, <1>2 DEF BurstFadesOut, LongBurstFadesOut, Faded
  <1> QED
    BY <1>3, <1>4, <1>5 DEF Fading

LEMMA SameBurst ==
    ASSUME NEW s, NEW n, NEW a, NEW b, a <=> b, Fades(s, n, a)
    PROVE  Fades(s, n, b)
  BY DEF Fades

LEMMA CallFades ==
    ASSUME OneSampleFormat, UsizeMax >= LostBound,
           TypeOK, WaitingLossIsHeld, Fading,
           NEW call \in {"flagged", "conceal", "flush"}, NEW f \in Formats,
           NEW cut \in BOOLEAN, NEW r \in Outcomes, NEW fresh,
           NEW damaged \in BOOLEAN,
           Called(call, f, cut, r, fresh, damaged), Observe(fresh, damaged)
    PROVE  Fading'
  <1> PICK s : s = PrepareFlags(Facade, cut)
    OBVIOUS
  <1> PICK n : n = IF cut THEN 0 ELSE lost
    OBVIOUS
  <1> PICK k \in BOOLEAN : k <=> corrupt /\ n # 0
    OBVIOUS
  <1>1. /\ lost \in 0..LostBound /\ corrupt \in BOOLEAN
        /\ corrupt => lost # 0
        /\ Tidy(Facade.dec) /\ Fades(Facade, lost, corrupt)
    BY FacadeFields DEF Fading
  <1>2. Facade \in Facades /\ Held(Facade)
    BY FacadeFacts
  <1>3. s \in Facades /\ Held(s)
    BY <1>2, PrepareFlagsType
  <1>4. Tidy(s.dec)
    BY <1>1, <1>2, PrepareFlagsFacts DEF Keeps
  <1>5. n \in 0..LostBound
    BY <1>1 DEF LostBound, FadeOutLosses
  <1>6. Fades(s, n, k)
    <2>1. Fades(s, n, corrupt /\ n # 0)
      BY ONLY <1>1, <1>2, PrepareFades, cut \in BOOLEAN,
              s = PrepareFlags(Facade, cut), n = IF cut THEN 0 ELSE lost
    <2> QED
      BY ONLY <2>1, k <=> corrupt /\ n # 0 DEF Fades
  <1>7. /\ out'.call = call /\ out'.cut = cut /\ out'.ok = r.ok
        /\ out'.slot = r.slot
    BY CalledState
  <1>8. Tidy(r.s.dec)
    BY <1>4 DEF Called, Ends
  <1> PICK one : one = LeastOf(n + 1, LostBound)
    OBVIOUS
  <1>9. one \in 0..LostBound /\ one # 0
    BY <1>5 DEF LeastOf, LostBound, FadeOutLosses
  <1>10. lost' = IF damaged /\ r.ok THEN one
                 ELSE IF r.ok /\ ~damaged /\ call # "flush" THEN 0 ELSE n
    BY <1>7 DEF Observe
  <1>11. corrupt' = /\ lost' # 0
                    /\ \/ corrupt /\ n # 0
                       \/ (damaged /\ r.ok) /\ call # "conceal"
    BY <1>7 DEF Observe
  <1> PICK w \in BOOLEAN : w <=> damaged /\ r.ok
    OBVIOUS
  <1> PICK c : c = corrupt'
    OBVIOUS
  <1>12. c \in BOOLEAN
    BY ONLY <1>11, c = corrupt'
  <1>13. c <=> lost' # 0 /\ (k \/ (w /\ call # "conceal"))
    <2>1. corrupt' <=> /\ lost' # 0
                       /\ \/ corrupt /\ n # 0
                          \/ (damaged /\ r.ok) /\ call # "conceal"
      BY ONLY <1>11
    <2> QED
      BY ONLY <2>1, c = corrupt', k <=> corrupt /\ n # 0,
              w <=> damaged /\ r.ok
  <1>14. lost' = IF w THEN one
                 ELSE IF r.ok /\ call # "flush" THEN 0 ELSE n
    BY ONLY <1>10, w <=> damaged /\ r.ok
  <1>15. CASE call = "conceal"
    <2>1. r = ConcealCall(s, f) /\ damaged
      BY <1>15 DEF Called
    <2>2. r.ok /\ r.s.dec.cfg = s.dec.cfg
      BY ONLY <1>3, <2>1, ConcealCallFacts, ConcealCallKeepsStream,
              f \in Formats
    <2>3. lost' = one /\ (c <=> k)
      BY <1>9, <1>13, <1>14, <1>15, <2>1, <2>2, w <=> damaged /\ r.ok
    <2>4. Delays(r.s) <=> Delays(s)
      BY <2>2 DEF Delays, Method
    <2>5. CASE k /\ Delays(s)
      <3>1. Fades(r.s, one, c)
        BY ONLY <2>3, <2>4, <2>5 DEF Fades
      <3> QED
        BY ONLY <1>8, <1>9, <2>3, <2>4, <2>5, <3>1, FadingNext,
                r \in Outcomes, <1>12, c = corrupt',
                Called(call, f, cut, r, fresh, damaged)
    <2>6. CASE ~(k /\ Delays(s))
      <3>1. Fades(r.s, one, k) /\ (one = LostBound => Faded(r.slot))
        BY ONLY <1>3, <1>5, <1>6, <2>1, <2>6, ConcealFades, f \in Formats,
                OneSampleFormat, UsizeMax >= LostBound, k \in BOOLEAN,
                one = LeastOf(n + 1, LostBound)
      <3>2. Fades(r.s, one, c)
        BY ONLY <2>3, <3>1, SameBurst
      <3> QED
        BY ONLY <1>8, <1>9, <2>3, <3>1, <3>2, FadingNext,
                r \in Outcomes, <1>12, c = corrupt',
                Called(call, f, cut, r, fresh, damaged)
    <2> QED
      BY <2>5, <2>6
  <1>16. CASE call = "flush"
    <2>1. r = FlushCall(s, f) /\ ~damaged
      BY <1>16 DEF Called
    <2>2. lost' = n /\ (c <=> k)
      BY <1>13, <1>14, <1>16, <2>1, w <=> damaged /\ r.ok
    <2>3. Fades(r.s, n, k)
      BY ONLY <1>3, <1>4, <1>5, <1>6, <2>1, FlushFades, f \in Formats,
              OneSampleFormat, k \in BOOLEAN
    <2>4. Fades(r.s, n, c)
      BY ONLY <2>2, <2>3, SameBurst
    <2>5. c => n # 0
      BY <1>13, <2>2
    <2> QED
      BY ONLY <1>5, <1>8, <1>16, <2>2, <2>4, <2>5, FadingNext,
              r \in Outcomes, <1>12, c = corrupt',
              Called(call, f, cut, r, fresh, damaged)
  <1>17. CASE call = "flagged"
    <2>1. PICK au \in AccessUnit : /\ r = DecodeOrConceal(s, f, au)
                                   /\ damaged <=> au.fault # "none"
      BY <1>17 DEF Called
    <2>2. /\ r.ok /\ ~damaged => Fades(r.s, 0, FALSE)
          /\ r.ok /\ damaged =>
                /\ Fades(r.s, one, TRUE)
                /\ one = LostBound /\ ~Delays(r.s) => Faded(r.slot)
          /\ ~r.ok => Fades(r.s, n, k)
      BY ONLY <1>3, <1>5, <1>6, <2>1, FlaggedFades, f \in Formats,
              OneSampleFormat, UsizeMax >= LostBound, k \in BOOLEAN,
              one = LeastOf(n + 1, LostBound)
    <2>3. CASE r.ok /\ ~damaged
      <3>1. lost' = 0 /\ ~c
        BY <1>13, <1>14, <1>17, <2>3, w <=> damaged /\ r.ok
      <3>2. Fades(r.s, 0, c)
        BY ONLY <2>2, <2>3, <3>1, SameBurst
      <3>3. 0 \in 0..LostBound /\ 0 # LostBound
        BY DEF LostBound, FadeOutLosses
      <3> QED
        BY ONLY <1>8, <3>1, <3>2, <3>3, FadingNext,
                r \in Outcomes, <1>12, c = corrupt',
                Called(call, f, cut, r, fresh, damaged)
    <2>4. CASE r.ok /\ damaged
      <3>1. lost' = one /\ c
        BY <1>9, <1>13, <1>14, <1>17, <2>4, w <=> damaged /\ r.ok
      <3>2. Fades(r.s, one, c)
        BY ONLY <2>2, <2>4, <3>1, SameBurst
      <3> QED
        BY ONLY <1>8, <1>9, <2>2, <2>4, <3>1, <3>2, FadingNext,
                r \in Outcomes, <1>12, c = corrupt',
                Called(call, f, cut, r, fresh, damaged)
    <2>5. CASE ~r.ok
      <3>1. lost' = n /\ (c <=> k)
        BY <1>13, <1>14, <2>5, w <=> damaged /\ r.ok
      <3>2. Fades(r.s, n, c)
        BY ONLY <2>2, <2>5, <3>1, SameBurst
      <3>3. c => n # 0
        BY <1>13, <3>1
      <3> QED
        BY ONLY <1>5, <1>8, <2>5, <3>1, <3>2, <3>3, FadingNext,
                r \in Outcomes, <1>12, c = corrupt',
                Called(call, f, cut, r, fresh, damaged)
    <2> QED
      BY <2>3, <2>4, <2>5
  <1> QED
    BY <1>15, <1>16, <1>17

(* Whatever the method, the ninth loss in a row is not heard, unless the   *)
(* access units arrive corrupt while losses are delayed.  The application  *)
(* keeps to the flagged API and to one sample format; with two formats a   *)
(* loss is counted by one path only.                                       *)
THEOREM BurstFades ==
    ASSUME OneSampleFormat, UsizeMax >= LostBound,
           EntryPoints \cap {"decode", "named"} = {}
    PROVE  AuditSpec => []BurstFadesOut
  <1>1. AuditInit => Fading
    <2> SUFFICES ASSUME AuditInit
                 PROVE  Fading
      OBVIOUS
    <2>1. Init /\ TypeOK
      BY InitHolds DEF AuditInit
    <2>2. lost = 0 /\ corrupt = FALSE
      BY DEF AuditInit
    <2>3. Tidy(dec)
      BY <2>1 DEF Init, Tidy, FreshDecoder
    <2>4. Fades(Facade, lost, corrupt)
      BY ONLY <2>1, <2>2, FacadeType, FadesFromStart
    <2>5. 0 \in 0..LostBound /\ 0 # LostBound
      BY DEF LostBound, FadeOutLosses
    <2> QED
      BY <2>2, <2>3, <2>4, <2>5 DEF Fading, BurstFadesOut, LongBurstFadesOut
  <1>2. ASSUME TypeOK, TypeOK', WaitingLossIsHeld, Fading,
               [AuditNext]_avars
        PROVE  Fading'
    <2>1. CASE AuditNext
      <3>1. ASSUME NEW call \in EntryPoints, NEW f \in Formats,
                   NEW cut \in BOOLEAN, NEW r \in Outcomes,
                   NEW fresh \in SUBSET Contents, NEW damaged \in BOOLEAN,
                   Called(call, f, cut, r, fresh, damaged),
                   Observe(fresh, damaged)
            PROVE  Fading'
        <4>1. call \in {"flagged", "conceal", "flush"}
          BY <3>1, EntryPointAssumption
        <4> QED
          BY ONLY <1>2, <3>1, <4>1, CallFades, OneSampleFormat,
                  UsizeMax >= LostBound
      <3>2. ASSUME NEW method \in Methods, SetConcealMethod(method),
                   lost' = 0, corrupt' = FALSE
            PROVE  Fading'
        <4>1. dec' = dec /\ out' = Quiet("set")
          BY <3>2 DEF SetConcealMethod
        <4>2. \A g \in Formats : dec'.path[g].losses \in Nat
          BY <1>2, UsizeAssumption DEF TypeOK, Decoder, Path
        <4>3. \A g \in Formats : InDelay(Facade, g)' \in {0, 1}
          BY DEF InDelay
        <4>4. Fades(Facade, lost, corrupt)'
          BY <3>2, <4>2, <4>3 DEF Fades, Facade
        <4>5. 0 \in 0..LostBound /\ 0 # LostBound
          BY DEF LostBound, FadeOutLosses
        <4>6. Tidy(dec)'
          BY <1>2, <4>1 DEF Fading, Tidy
        <4> QED
          BY <3>2, <4>4, <4>5, <4>6
          DEF Fading, BurstFadesOut, LongBurstFadesOut
      <3>3. ASSUME NEW all \in BOOLEAN, ClearTransport(all),
                   UNCHANGED <<lost, corrupt>>
            PROVE  Fading'
        <4>1. /\ dec' = dec /\ fifo' = fifo /\ pending' = pending
              /\ user' = user /\ out'.call = "clear"
          BY <3>3 DEF ClearTransport, Quiet
        <4>2. Fades(Facade, lost, corrupt)'
          BY <1>2, <3>3, <4>1
          DEF Fading, Fades, Facade, InDelay, Delays, Method
        <4>3. Tidy(dec)'
          BY <1>2, <4>1 DEF Fading, Tidy
        <4>4. BurstFadesOut'
          BY <4>1 DEF BurstFadesOut, LongBurstFadesOut
        <4> QED
          BY <1>2, <3>3, <4>2, <4>3, <4>4 DEF Fading
      <3> QED
        BY ONLY <1>2, <2>1, <3>1, <3>2, <3>3, ObservedStep
    <2>2. CASE UNCHANGED avars
      <3>1. /\ dec' = dec /\ fifo' = fifo /\ pending' = pending
            /\ user' = user /\ out' = out /\ lost' = lost
            /\ corrupt' = corrupt
        BY <2>2 DEF avars, vars
      <3>2. Delays(Facade)' <=> Delays(Facade)
        BY <3>1 DEF Delays, Method, Facade
      <3>3. Fades(Facade, lost, corrupt)'
        BY <1>2, <3>1, <3>2 DEF Fading, Fades, Facade, InDelay
      <3>4. BurstFadesOut'
        BY <1>2, <3>1, <3>2 DEF Fading, BurstFadesOut, LongBurstFadesOut
      <3> QED
        BY <1>2, <3>1, <3>3, <3>4 DEF Fading, Tidy
    <2> QED
      BY <1>2, <2>1, <2>2
  <1>3. Fading => BurstFadesOut
    BY DEF Fading
  <1>4. "named" \notin EntryPoints
    OBVIOUS
  <1>5. Spec => []WaitingLossIsHeld
    BY <1>4, LossIsHeld
  <1> QED
    BY <1>1, <1>2, <1>3, <1>5, AuditSteps, TypeCorrect, PTL DEF AuditSpec

=============================================================================
