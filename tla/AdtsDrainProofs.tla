---------------------------- MODULE AdtsDrainProofs ----------------------------
(***************************************************************************)
(* Proofs about AdtsDrain, for all configurations, contents, gaps, bit     *)
(* rates, numbers of blocks and frames and methods.                        *)
(*                                                                         *)
(* What a run of concealments leaves is a recursive function in the model; *)
(* the first section finds its values.  Each kind of frame then has one    *)
(* lemma that says what it returns and what it leaves, and the invariants  *)
(* follow from these.                                                      *)
(***************************************************************************)
EXTENDS AdtsDrain, WellFoundedInduction, TLAPS

-----------------------------------------------------------------------------
(* Runs *)

LEMMA LeastNumber ==
    ASSUME NEW T \in SUBSET Nat, T # {}
    PROVE  \E n \in T : \A m \in T : n <= m
  <1> PICK R : R = OpToRel(<, Nat)
    OBVIOUS
  <1>1. \A x, y \in Nat : x < y => <<x, y>> \in R
    BY DEF OpToRel
  <1>2. IsWellFoundedOn(R, Nat)
    BY NatLessThanWellFounded
  <1>3. \E x \in T : \A y \in T : ~(<<y, x>> \in R)
    BY ONLY <1>2, WFMin, T \in SUBSET Nat, T # {}
  <1>4. PICK x \in T : \A y \in T : ~(<<y, x>> \in R)
    BY ONLY <1>3
  <1>5. ASSUME NEW y \in T
        PROVE  x <= y
    <2>1. x \in Nat /\ y \in Nat
      BY T \in SUBSET Nat
    <2>2. ~(y < x)
      BY ONLY <1>1, <1>4, <2>1, y \in T
    <2> QED
      BY ONLY <2>1, <2>2
  <1> QED
    BY ONLY <1>4, <1>5

(* Two sequences that begin alike and go on alike are equal. *)
LEMMA SameRun ==
    ASSUME NEW n \in Nat, NEW g, NEW h,
           g[0] = h[0],
           \A k \in 1..n : g[k - 1] = h[k - 1] => g[k] = h[k]
    PROVE  \A k \in 0..n : g[k] = h[k]
  <1> PICK T : T = {k \in 0..n : g[k] # h[k]}
    OBVIOUS
  <1>1. SUFFICES ASSUME T # {}
                 PROVE  FALSE
    OBVIOUS
  <1>2. PICK k \in T : \A m \in T : k <= m
    <2>1. T \in SUBSET Nat
      OBVIOUS
    <2> QED
      BY ONLY <1>1, <2>1, LeastNumber
  <1>3. k \in 0..n /\ g[k] # h[k]
    OBVIOUS
  <1>4. k # 0
    BY <1>3
  <1>5. k \in 1..n /\ k - 1 \in 0..n
    BY <1>3, <1>4
  <1>6. k - 1 \notin T
    BY <1>2, <1>5
  <1>7. g[k - 1] = h[k - 1]
    BY <1>5, <1>6
  <1> QED
    BY <1>3, <1>5, <1>7

(* The path after so many concealments. *)
Concealed(p, n) ==
    IF n = 0 THEN p
    ELSE [p EXCEPT !.losses = LeastOf(p.losses + n, UsizeMax),
                   !.state = LossState(LeastOf(p.losses + n - 1, UsizeMax),
                                       Mute)]

LEMMA ConcealedNext ==
    ASSUME NEW p \in Path, NEW n \in Nat \ {0}
    PROVE  ConcealedPath(Concealed(p, n - 1), Mute) = Concealed(p, n)
  <1>1. p.losses \in 0..UsizeMax /\ UsizeMax \in Nat
    BY UsizeAssumption DEF Path
  <1>2. CASE n = 1
    <2>1. Concealed(p, n - 1) = p
      BY <1>2 DEF Concealed
    <2>2. LeastOf(p.losses + n - 1, UsizeMax) = p.losses
      BY <1>1, <1>2 DEF LeastOf
    <2> QED
      BY <1>1, <1>2, <2>1, <2>2
      DEF Concealed, ConcealedPath, ConcealingPath, SaturatingInc, Path
  <1>3. CASE n # 1
    <2> PICK m \in Nat \ {0} : m = n - 1
      BY <1>3
    <2>1. n = m + 1 /\ m # 0
      OBVIOUS
    <2> PICK l : l = LeastOf(p.losses + m, UsizeMax)
      OBVIOUS
    <2>2. /\ l = LeastOf(p.losses + n - 1, UsizeMax)
          /\ SaturatingInc(l) = LeastOf(p.losses + n, UsizeMax)
      BY <1>1, <2>1 DEF LeastOf, SaturatingInc
    <2> PICK q : q = Concealed(p, m)
      OBVIOUS
    <2>3. q = [p EXCEPT !.losses = l,
                        !.state = LossState(LeastOf(p.losses + m - 1, UsizeMax),
                                            Mute)]
      BY <2>1 DEF Concealed
    <2>4. q.losses = l
      BY <2>3 DEF Path
    <2>5. ConcealedPath(q, Mute) = [p EXCEPT !.losses = SaturatingInc(l),
                                             !.state = LossState(l, Mute)]
      <3>1. ConcealedPath(q, Mute) = [q EXCEPT !.state = LossState(l, Mute),
                                               !.losses = SaturatingInc(l)]
        BY ONLY <2>4 DEF ConcealedPath, ConcealingPath
      <3> QED
        BY ONLY <2>3, <3>1, p \in Path DEF Path
    <2>6. Concealed(p, n) = [p EXCEPT !.losses = SaturatingInc(l),
                                      !.state = LossState(l, Mute)]
      BY <2>1, <2>2 DEF Concealed
    <2>7. n - 1 = m
      BY <2>1
    <2> QED
      BY ONLY <2>5, <2>6, <2>7, q = Concealed(p, m)
  <1> QED
    BY <1>2, <1>3

LEMMA ConcealedAfterIs ==
    ASSUME NEW p \in Path, NEW n \in Nat
    PROVE  ConcealedAfter(p, n) = Concealed(p, n)
  <1> DEFINE After(f) ==
                f = [k \in 0..n |->
                        IF k = 0 THEN p ELSE ConcealedPath(f[k - 1], Mute)]
  <1> PICK h : h = CHOOSE f : After(f)
    OBVIOUS
  <1>1. ConcealedAfter(p, n) = h[n]
    BY DEF ConcealedAfter
  <1> PICK g : g = [k \in 0..n |-> Concealed(p, k)]
    OBVIOUS
  <1>2. ASSUME NEW k \in 0..n, k # 0
        PROVE  Concealed(p, k) = ConcealedPath(g[k - 1], Mute)
    <2>1. k \in Nat \ {0} /\ k - 1 \in 0..n
      BY <1>2
    <2>2. g[k - 1] = Concealed(p, k - 1)
      BY <2>1
    <2> QED
      BY ONLY <2>1, <2>2, ConcealedNext, p \in Path
  <1>3. Concealed(p, 0) = p
    BY DEF Concealed
  <1>4. \A k \in 0..n : Concealed(p, k)
                = IF k = 0 THEN p ELSE ConcealedPath(g[k - 1], Mute)
    BY ONLY <1>2, <1>3
  <1>5. After(g)
    BY ONLY <1>4, g = [k \in 0..n |-> Concealed(p, k)]
  <1> HIDE DEF After
  <1>6. After(h)
    BY ONLY <1>5, h = CHOOSE f : After(f)
  <1>7. /\ g[0] = p /\ h[0] = p
        /\ \A k \in 0..n : k # 0 =>
              /\ g[k] = ConcealedPath(g[k - 1], Mute)
              /\ h[k] = ConcealedPath(h[k - 1], Mute)
    BY ONLY <1>5, <1>6, n \in Nat DEF After
  <1>8. ASSUME NEW k \in 1..n, g[k - 1] = h[k - 1]
        PROVE  g[k] = h[k]
    <2>1. k \in 0..n /\ k # 0
      OBVIOUS
    <2> QED
      BY ONLY <1>7, <1>8, <2>1
  <1>9. \A k \in 0..n : g[k] = h[k]
    BY ONLY <1>7, <1>8, SameRun, n \in Nat
  <1> QED
    BY <1>1, <1>9

(* The path after so many blocks of a frame. *)
Decoded(p, content, n) ==
    IF n = 0 THEN p
    ELSE [ref    |-> content,
          losses |-> 0,
          state  |-> IF RecoveryFade(p) >= n THEN "FadeIn" ELSE "Ok",
          fade   |-> IF RecoveryFade(p) >= n THEN RecoveryFade(p) - n ELSE 0]

LEMMA FadeIsBounded ==
    ASSUME NEW p \in Path
    PROVE  /\ RecoveryFade(p) \in 0..FadeInFrames
           /\ p.losses # 0 => RecoveryFade(p) > 0
  BY UsizeAssumption DEF Path, RecoveryFade, LeastOf, FadeInFrames

LEMMA DecodedOnce ==
    ASSUME NEW p \in Path, NEW content
    PROVE  DecodedPath(p, content, TRUE) =
             [ref    |-> content,
              losses |-> 0,
              state  |-> IF RecoveryFade(p) # 0 THEN "FadeIn" ELSE "Ok",
              fade   |-> IF RecoveryFade(p) # 0 THEN RecoveryFade(p) - 1 ELSE 0]
  <1> PICK q : q = FadedPath(p)
    OBVIOUS
  <1>1. DecodedPath(p, content, TRUE) = [q EXCEPT !.ref = content, !.losses = 0]
    BY DEF DecodedPath
  <1>2. CASE RecoveryFade(p) # 0
    <2>1. q = [p EXCEPT !.state = "FadeIn", !.fade = RecoveryFade(p) - 1]
      BY <1>2 DEF FadedPath
    <2> QED
      BY <1>1, <1>2, <2>1 DEF Path
  <1>3. CASE RecoveryFade(p) = 0
    <2>1. q = [p EXCEPT !.state = "Ok", !.fade = 0]
      BY <1>3 DEF FadedPath
    <2> QED
      BY <1>1, <1>3, <2>1 DEF Path
  <1> QED
    BY <1>2, <1>3

LEMMA DecodedNext ==
    ASSUME NEW p \in Path, NEW content \in Contents, NEW n \in Nat \ {0}
    PROVE  DecodedPath(Decoded(p, content, n - 1), content, TRUE)
              = Decoded(p, content, n)
  <1> PICK r : r = RecoveryFade(p)
    OBVIOUS
  <1>1. r \in 0..FadeInFrames
    BY FadeIsBounded
  <1>2. CASE n = 1
    <2>1. Decoded(p, content, n - 1) = p
      BY <1>2 DEF Decoded
    <2>2. DecodedPath(p, content, TRUE) =
             [ref    |-> content, losses |-> 0,
              state  |-> IF r # 0 THEN "FadeIn" ELSE "Ok",
              fade   |-> IF r # 0 THEN r - 1 ELSE 0]
      BY DecodedOnce
    <2>3. (r >= n) <=> (r # 0)
      BY <1>1, <1>2 DEF FadeInFrames
    <2> QED
      BY <1>2, <2>1, <2>2, <2>3 DEF Decoded
  <1>3. CASE n # 1
    <2> PICK m \in Nat \ {0} : m = n - 1
      BY <1>3
    <2> PICK q : q = Decoded(p, content, m)
      OBVIOUS
    <2>1. q = [ref    |-> content, losses |-> 0,
               state  |-> IF r >= m THEN "FadeIn" ELSE "Ok",
               fade   |-> IF r >= m THEN r - m ELSE 0]
      BY DEF Decoded
    <2>2. RecoveryFade(q) = IF r >= m THEN r - m ELSE 0
      BY <2>1 DEF RecoveryFade
    <2> q \in Path
      <3>1. (IF r >= m THEN r - m ELSE 0) \in 0..FadeInFrames
        BY <1>1 DEF FadeInFrames
      <3> QED
        BY <2>1, <3>1, UsizeAssumption DEF Path, States
    <2>3. /\ RecoveryFade(q) # 0 <=> r >= n
          /\ r >= n => RecoveryFade(q) - 1 = r - n
      BY <1>1, <2>2 DEF FadeInFrames
    <2>4. DecodedPath(q, content, TRUE) =
             [ref    |-> content, losses |-> 0,
              state  |-> IF RecoveryFade(q) # 0 THEN "FadeIn" ELSE "Ok",
              fade   |-> IF RecoveryFade(q) # 0 THEN RecoveryFade(q) - 1 ELSE 0]
      BY DecodedOnce
    <2> QED
      BY <2>3, <2>4 DEF Decoded
  <1> QED
    BY <1>2, <1>3

LEMMA DecodedAfterIs ==
    ASSUME NEW p \in Path, NEW content \in Contents, NEW n \in Nat
    PROVE  DecodedAfter(p, content, n) = Decoded(p, content, n)
  <1> DEFINE Step(q)  == DecodedPath(q, content, TRUE)
             After(f) == f = [k \in 0..n |->
                                 IF k = 0 THEN p ELSE Step(f[k - 1])]
  <1> PICK h : h = CHOOSE f : After(f)
    OBVIOUS
  <1>1. DecodedAfter(p, content, n) = h[n]
    BY DEF DecodedAfter
  <1> PICK g : g = [k \in 0..n |-> Decoded(p, content, k)]
    OBVIOUS
  <1>2. ASSUME NEW k \in 0..n, k # 0
        PROVE  Decoded(p, content, k) = DecodedPath(g[k - 1], content, TRUE)
    <2>1. k \in Nat \ {0} /\ k - 1 \in 0..n
      BY <1>2
    <2>2. g[k - 1] = Decoded(p, content, k - 1)
      BY <2>1
    <2> QED
      BY ONLY <2>1, <2>2, DecodedNext, p \in Path, content \in Contents
  <1>3. Decoded(p, content, 0) = p
    BY DEF Decoded
  <1>4. \A k \in 0..n : Decoded(p, content, k)
                = IF k = 0 THEN p ELSE DecodedPath(g[k - 1], content, TRUE)
    BY ONLY <1>2, <1>3
  <1>5. After(g)
    BY ONLY <1>4, g = [k \in 0..n |-> Decoded(p, content, k)]
  <1> HIDE DEF After
  <1>6. After(h)
    BY ONLY <1>5, h = CHOOSE f : After(f)
  <1> HIDE DEF Step
  <1>7. /\ g[0] = p /\ h[0] = p
        /\ \A k \in 0..n : k # 0 =>
              /\ g[k] = Step(g[k - 1])
              /\ h[k] = Step(h[k - 1])
    BY ONLY <1>5, <1>6, n \in Nat DEF After
  <1>8. ASSUME NEW k \in 1..n, g[k - 1] = h[k - 1]
        PROVE  g[k] = h[k]
    <2>1. k \in 0..n /\ k # 0
      OBVIOUS
    <2> QED
      BY ONLY <1>7, <1>8, <2>1
  <1>9. \A k \in 0..n : g[k] = h[k]
    BY ONLY <1>7, <1>8, SameRun, n \in Nat
  <1> QED
    BY <1>1, <1>9

(* What a run of concealments leaves. *)
LEMMA ConcealedKeeps ==
    ASSUME NEW p \in Path, NEW n \in Nat
    PROVE  /\ Concealed(p, n) \in Path
           /\ Concealed(p, n).ref = p.ref
           /\ Concealed(p, n).losses = LeastOf(p.losses + n, UsizeMax)
           /\ ConcealedLevel(Concealed(p, n), Mute)
                 = IF Mute THEN Silent
                   ELSE LossLevel(LeastOf(p.losses + n, UsizeMax))
  <1>1. p.losses \in 0..UsizeMax /\ UsizeMax \in Nat
    BY UsizeAssumption DEF Path
  <1>2. LeastOf(p.losses + n, UsizeMax) \in 0..UsizeMax
    BY <1>1 DEF LeastOf
  <1>3. CASE n = 0
    <2>1. Concealed(p, n) = p /\ LeastOf(p.losses + n, UsizeMax) = p.losses
      BY <1>1, <1>3 DEF Concealed, LeastOf
    <2> QED
      BY <2>1 DEF ConcealedLevel
  <1>4. CASE n # 0
    <2>1. LossState(LeastOf(p.losses + n - 1, UsizeMax), Mute) \in States
      BY DEF LossState, States
    <2>2. Concealed(p, n)
             = [p EXCEPT !.losses = LeastOf(p.losses + n, UsizeMax),
                         !.state = LossState(LeastOf(p.losses + n - 1, UsizeMax),
                                             Mute)]
      BY <1>4 DEF Concealed
    <2>3. /\ Concealed(p, n) \in Path
          /\ Concealed(p, n).ref = p.ref
          /\ Concealed(p, n).losses = LeastOf(p.losses + n, UsizeMax)
      BY <1>2, <2>1, <2>2 DEF Path
    <2> QED
      BY <2>3 DEF ConcealedLevel
  <1> QED
    BY <1>3, <1>4

(* What the blocks of a frame leave. *)
LEMMA DecodedKeeps ==
    ASSUME NEW p \in Path, NEW content \in Contents, NEW n \in Nat
    PROVE  /\ Decoded(p, content, n) \in Path
           /\ n # 0 => /\ Decoded(p, content, n).ref = content
                       /\ Decoded(p, content, n).losses = 0
  <1>1. CASE n = 0
    BY <1>1 DEF Decoded
  <1>2. CASE n # 0
    <2>1. RecoveryFade(p) \in 0..FadeInFrames
      BY FadeIsBounded
    <2>2. (IF RecoveryFade(p) >= n THEN RecoveryFade(p) - n ELSE 0)
             \in 0..FadeInFrames
      BY <1>2, <2>1 DEF FadeInFrames
    <2>3. 0 \in 0..UsizeMax
      BY UsizeAssumption
    <2> QED
      BY <1>2, <2>2, <2>3 DEF Decoded, Path, States
  <1> QED
    BY <1>1, <1>2

-----------------------------------------------------------------------------
(* The invariant *)

(* What is kept for concealment belongs to the configuration. *)
SameStream ==
    /\ pcm \in Contents => Origin[pcm] = dec.cfg
    /\ HasReference(dec.path) => Origin[dec.path.ref] = dec.cfg

Typed == TypeOK /\ output \in Seq(Slot) /\ SameStream

(* If the last frame decoded in this call is known, it is this content. *)
IsLatest(content) ==
    \A j \in 1..Len(output) :
        /\ output[j].kind = "decoded"
        /\ \A i \in (j + 1)..Len(output) : output[i].kind # "decoded"
        => output[j].content = content

(* Fills are made of what was decoded last. *)
SourceIsLatest ==
    /\ IsLatest(dec.path.ref)
    /\ pcm \in Contents /\ (format = "f32" \/ ~spectral) => IsLatest(pcm)

(* A call that ends with a fill can go on with it. *)
EndsOpenly ==
    Len(output) > 0 =>
        \/ output[Len(output)].kind = "decoded"
        \/ /\ output[Len(output)].kind = "concealed"
           /\ output[Len(output)].content = dec.path.ref
           /\ output[Len(output)].level <= ConcealedLevel(dec.path, Mute)
           /\ spectral /\ HasReference(dec.path) /\ dec.path.losses > 0

(* The fills at the end are counted. *)
EndsWithFills(m) ==
    /\ m <= Len(output)
    /\ \A j \in (Len(output) - m + 1)..Len(output) : IsFill(j)

EndIsCounted ==
    UsizeMax > FadeOutLosses =>
        \A m \in 1..Silent : EndsWithFills(m) => dec.path.losses >= m

-----------------------------------------------------------------------------
(* Frames and fills *)

LEMMA FrameIs ==
    ASSUME NEW frame \in Frame
    PROVE  /\ frame.cfg \in Configs /\ frame.content \in Contents
           /\ frame.blocks \in Nat \ {0} /\ frame.bytes \in Nat
           /\ frame.fault = "none" => Origin[frame.content] = frame.cfg
  BY DrainAssumption DEF Frame

LEMMA ContentIsNoMark ==
    ASSUME NEW content \in Contents
    PROVE  content # "off" /\ content # NoContent /\ NoContent # "off"
  BY OffAssumption, ContentAssumption

(* The number that is estimated is the nearest one for a frame of this     *)
(* length, less one access unit for the frame.                             *)
LEMMA EstimateIs ==
    ASSUME NEW gap \in Gaps, NEW frame \in Frame, estimates \in BOOLEAN
    PROVE  /\ Estimate(gap, frame.bytes) \in Nat
           /\ AuBytes \in Nat
           /\ gap \in Nat
           /\ Deviation(frame) \in Nat
           /\ gap # 0 /\ estimates =>
                 /\ 2 * (gap - AuBytes * Estimate(gap, frame.bytes))
                      <= AuBytes + 2 * Deviation(frame)
                 /\ -(2 * (gap - AuBytes * Estimate(gap, frame.bytes)))
                      <= AuBytes + 2 * Deviation(frame)
  <1> PICK bytes \in Nat : bytes = frame.bytes
    BY FrameIs
  <1> PICK off : off = Deviation(frame)
    OBVIOUS
  <1>1. gap \in Nat /\ AuBytes \in Nat \ {0}
    BY DrainAssumption
  <1>2. /\ off \in Nat
        /\ AuBytes - bytes <= off /\ bytes - AuBytes <= off
    <2>1. off = IF bytes < AuBytes THEN AuBytes - bytes ELSE bytes - AuBytes
      BY DEF Deviation
    <2> QED
      BY ONLY <2>1, <1>1, bytes \in Nat
  <1> PICK n \in Nat : n = gap + bytes
    BY <1>1
  <1> PICK a \in Nat \ {0} : a = AuBytes
    BY <1>1
  <1> PICK q : q = n \div a
    OBVIOUS
  <1> PICK r : r = n % a
    OBVIOUS
  <1>3. q \in Nat /\ r \in Nat /\ r < a /\ n = a * q + r
    BY ONLY n \in Nat, a \in Nat \ {0}, q = n \div a, r = n % a
  <1> PICK lost : lost = LostAccessUnits(gap, bytes)
    OBVIOUS
  <1>4. lost = LET k == IF a - r >= r THEN q - 1 ELSE q
               IN IF k < 0 THEN 0 ELSE k
    BY DEF LostAccessUnits
  <1> PICK m : m = a * q
    OBVIOUS
  <1>5. m \in Nat /\ n = m + r
    BY ONLY n \in Nat, a \in Nat \ {0}, m = a * q, <1>3
  <1> PICK p : p = a * lost
    OBVIOUS
  <1>6. /\ lost \in Nat
        /\ \/ a - r < r /\ p = m
           \/ a - r >= r /\ p = m - a
           \/ a - r >= r /\ m = 0 /\ p = 0
    <2>1. CASE ~(a - r >= r)
      <3>1. lost = q
        BY <1>3, <1>4, <2>1
      <3>2. p = m
        BY <3>1
      <3> QED
        BY ONLY <2>1, <3>1, <3>2, a \in Nat \ {0}, <1>3
    <2>2. CASE a - r >= r /\ q # 0
      <3>1. lost = q - 1
        BY <1>3, <1>4, <2>2
      <3>2. a * (q - 1) = a * q - a
        BY ONLY a \in Nat \ {0}, <1>3
      <3>3. p = m - a
        BY <3>1, <3>2
      <3> QED
        BY ONLY <2>2, <3>1, <3>3, <1>3
    <2>3. CASE a - r >= r /\ q = 0
      <3>1. lost = 0
        BY <1>4, <2>3
      <3>2. a * 0 = 0
        BY ONLY a \in Nat \ {0}
      <3>3. m = 0 /\ p = 0
        BY <2>3, <3>1, <3>2
      <3> QED
        BY ONLY <2>3, <3>1, <3>3
    <2> QED
      BY ONLY <2>1, <2>2, <2>3
  <1>7. /\ 2 * (gap - p) <= AuBytes + 2 * off
        /\ -(2 * (gap - p)) <= AuBytes + 2 * off
    BY ONLY <1>1, <1>2, <1>3, <1>5, <1>6, bytes \in Nat, n = gap + bytes,
            a = AuBytes
  <1>8. Estimate(gap, bytes) = IF gap = 0 \/ ~estimates THEN 0 ELSE lost
    BY DEF Estimate
  <1>9. /\ AuBytes \in Nat
        /\ Estimate(gap, frame.bytes) \in Nat
        /\ gap # 0 /\ estimates => Estimate(gap, frame.bytes) = lost
    BY <1>1, <1>8, <1>6
  <1> QED
    BY <1>1, <1>2, <1>7, <1>9

LEMMA ConfiguredIs ==
    ASSUME TypeOK, NEW frame \in Frame
    PROVE  /\ Configured(frame) \in [cfg : Configs, path : Path]
           /\ Configured(frame).cfg = frame.cfg
           /\ frame.cfg = dec.cfg => Configured(frame) = dec
           /\ HasReference(Configured(frame).path) => frame.cfg = dec.cfg
           /\ ConfiguredPcm(frame) \in {"off", NoContent} \cup Contents
           /\ ConfiguredPcm(frame) = "off" <=> pcm = "off"
           /\ ConfiguredPcm(frame) \in Contents =>
                 frame.cfg = dec.cfg /\ ConfiguredPcm(frame) = pcm
  <1>1. frame.cfg \in Configs
    BY FrameIs
  <1>2. FreshPath \in Path /\ ~HasReference(FreshPath)
    BY UsizeAssumption DEF FreshPath, Path, States, HasReference, FadeInFrames
  <1>3. dec \in [cfg : Configs, path : Path]
        /\ pcm \in {"off", NoContent} \cup Contents
    BY DEF TypeOK
  <1>4. NoContent # "off" /\ NoContent \notin Contents /\ "off" \notin Contents
    BY OffAssumption, ContentAssumption
  <1> QED
    BY <1>1, <1>2, <1>3, <1>4 DEF Configured, FreshDecoder, ConfiguredPcm

LEMMA ConcealedRunIs ==
    ASSUME NEW p \in Path, HasReference(p), NEW n \in Nat
    PROVE  /\ ConcealedRun(p, n) \in Seq(Slot)
           /\ Len(ConcealedRun(p, n)) = n
           /\ \A i \in 1..n : ConcealedRun(p, n)[i] =
                 MakeSlot("concealed", p.ref,
                          ConcealedLevel(Concealed(p, i - 1), Mute))
  <1>1. ASSUME NEW i \in 1..n
        PROVE  ConcealedAfter(p, i - 1) = Concealed(p, i - 1)
    <2>1. i - 1 \in Nat
      OBVIOUS
    <2> QED
      BY ONLY <2>1, ConcealedAfterIs, p \in Path
  <1>2. ConcealedRun(p, n) = [k \in 1..n |->
           MakeSlot("concealed", p.ref,
                    ConcealedLevel(ConcealedAfter(p, k - 1), Mute))]
    BY DEF ConcealedRun
  <1>3. p.ref \in Contents \cup {NoContent}
    BY DEF Path
  <1>4. ASSUME NEW i \in 1..n
        PROVE  MakeSlot("concealed", p.ref,
                        ConcealedLevel(Concealed(p, i - 1), Mute)) \in Slot
    <2> PICK l : l = ConcealedLevel(Concealed(p, i - 1), Mute)
      OBVIOUS
    <2>1. i - 1 \in Nat
      OBVIOUS
    <2>2. l = IF Mute THEN Silent
              ELSE LossLevel(LeastOf(p.losses + (i - 1), UsizeMax))
      BY <2>1, ConcealedKeeps
    <2>3. p.losses \in Nat /\ UsizeMax \in Nat
      BY UsizeAssumption DEF Path
    <2>4. l \in Nat
      BY <2>1, <2>2, <2>3 DEF LossLevel, LeastOf, Silent
    <2> QED
      BY <1>3, <2>4 DEF Slot, MakeSlot
  <1> PICK run : run = ConcealedRun(p, n)
    OBVIOUS
  <1>5. \A i \in 1..n : run[i] =
           MakeSlot("concealed", p.ref,
                    ConcealedLevel(Concealed(p, i - 1), Mute))
    BY <1>1, <1>2
  <1>6. run \in Seq(Slot) /\ Len(run) = n
    <2>1. run \in [1..n -> Slot]
      BY <1>2, <1>4, <1>5
    <2> QED
      BY <2>1
  <1> QED
    BY <1>5, <1>6

LEMMA DecodedRunIs ==
    ASSUME NEW p \in Path, NEW frame \in Frame
    PROVE  /\ DecodedRun(p, frame) \in Seq(Slot)
           /\ Len(DecodedRun(p, frame)) = frame.blocks
           /\ \A i \in 1..frame.blocks :
                 /\ DecodedRun(p, frame)[i].kind = "decoded"
                 /\ DecodedRun(p, frame)[i].content = frame.content
           /\ DecodedRun(p, frame)[1].level = RecoveryFade(p)
  <1>1. frame.content \in Contents /\ frame.blocks \in Nat \ {0}
    BY FrameIs
  <1>2. ASSUME NEW i \in 1..frame.blocks
        PROVE  /\ DecodedAfter(p, frame.content, i - 1)
                     = Decoded(p, frame.content, i - 1)
               /\ DecodedLevel(Decoded(p, frame.content, i - 1), TRUE) \in Nat
    <2>1. i - 1 \in Nat
      BY <1>1
    <2>2. DecodedAfter(p, frame.content, i - 1)
             = Decoded(p, frame.content, i - 1)
      BY ONLY <1>1, <2>1, DecodedAfterIs, p \in Path
    <2>3. Decoded(p, frame.content, i - 1) \in Path
      BY <1>1, <2>1, DecodedKeeps
    <2>4. RecoveryFade(Decoded(p, frame.content, i - 1)) \in Nat
      BY <2>3, FadeIsBounded DEF FadeInFrames
    <2> QED
      BY <2>2, <2>4 DEF DecodedLevel
  <1>3. DecodedRun(p, frame) = [k \in 1..frame.blocks |->
           MakeSlot("decoded", frame.content,
                    DecodedLevel(DecodedAfter(p, frame.content, k - 1), TRUE))]
    BY DEF DecodedRun
  <1>4. \A i \in 1..frame.blocks :
           MakeSlot("decoded", frame.content,
                    DecodedLevel(DecodedAfter(p, frame.content, i - 1), TRUE))
              \in Slot
    BY <1>1, <1>2 DEF MakeSlot, Slot
  <1> PICK run : run = DecodedRun(p, frame)
    OBVIOUS
  <1>5. run \in [1..frame.blocks -> Slot]
    BY <1>3, <1>4
  <1>6. run \in Seq(Slot) /\ Len(run) = frame.blocks
    BY <1>1, <1>5
  <1>7. \A i \in 1..frame.blocks :
           run[i].kind = "decoded" /\ run[i].content = frame.content
    BY <1>3 DEF MakeSlot
  <1>8. run[1].level = RecoveryFade(p)
    <2>1. 1 \in 1..frame.blocks /\ 1 - 1 = 0
      BY <1>1
    <2>2. DecodedAfter(p, frame.content, 0) = p
      BY <1>2, <2>1 DEF Decoded
    <2> QED
      BY <1>3, <2>1, <2>2 DEF MakeSlot, DecodedLevel
  <1> QED
    BY <1>6, <1>7, <1>8

LEMMA JoinIs ==
    ASSUME NEW s \in Seq(Slot), NEW t \in Seq(Slot)
    PROVE  /\ s \o t \in Seq(Slot)
           /\ Len(s) \in Nat /\ Len(t) \in Nat
           /\ Len(s \o t) = Len(s) + Len(t)
           /\ \A i \in 1..Len(s) : (s \o t)[i] = s[i]
           /\ \A i \in (Len(s) + 1)..(Len(s) + Len(t)) :
                 /\ i - Len(s) \in 1..Len(t)
                 /\ (s \o t)[i] = t[i - Len(s)]
  OBVIOUS

(* What is returned for a frame: fills, then its blocks. *)
Blocked(more, n, frame) ==
    /\ more \in Seq(Slot)
    /\ Len(more) = n + frame.blocks
    /\ \A i \in (n + 1)..Len(more) :
          more[i].kind = "decoded" /\ more[i].content = frame.content

AndBlocks(fill, p, frame) == fill \o DecodedRun(p, frame)

LEMMA BlocksFollow ==
    ASSUME NEW p \in Path, NEW frame \in Frame, NEW fill \in Seq(Slot),
           NEW more, more = AndBlocks(fill, p, frame)
    PROVE  /\ Blocked(more, Len(fill), frame)
           /\ \A i \in 1..Len(fill) : more[i] = fill[i]
           /\ more[Len(fill) + 1].level = RecoveryFade(p)
  <1> PICK run : run = DecodedRun(p, frame)
    OBVIOUS
  <1>1. /\ run \in Seq(Slot) /\ Len(run) = frame.blocks
        /\ \A i \in 1..frame.blocks :
              run[i].kind = "decoded" /\ run[i].content = frame.content
        /\ run[1].level = RecoveryFade(p)
    BY DecodedRunIs
  <1>2. frame.blocks \in Nat \ {0}
    BY FrameIs
  <1>3. /\ more \in Seq(Slot)
        /\ Len(fill) \in Nat
        /\ Len(more) = Len(fill) + frame.blocks
        /\ \A i \in 1..Len(fill) : more[i] = fill[i]
        /\ \A i \in (Len(fill) + 1)..(Len(fill) + frame.blocks) :
              /\ i - Len(fill) \in 1..frame.blocks
              /\ more[i] = run[i - Len(fill)]
    <2>1. more = fill \o run
      BY DEF AndBlocks
    <2>2. run \in Seq(Slot) /\ Len(run) = frame.blocks
      BY <1>1
    <2>3. /\ more \in Seq(Slot)
          /\ Len(fill) \in Nat
          /\ Len(more) = Len(fill) + Len(run)
          /\ \A i \in 1..Len(fill) : more[i] = fill[i]
          /\ \A i \in (Len(fill) + 1)..(Len(fill) + Len(run)) :
                /\ i - Len(fill) \in 1..Len(run)
                /\ more[i] = run[i - Len(fill)]
      BY ONLY <2>1, <2>2, JoinIs, fill \in Seq(Slot)
    <2> QED
      BY ONLY <2>2, <2>3
  <1>4. more[Len(fill) + 1] = run[1]
    <2>1. /\ Len(fill) + 1 \in (Len(fill) + 1)..(Len(fill) + frame.blocks)
          /\ Len(fill) + 1 - Len(fill) = 1
      BY <1>2, <1>3
    <2> QED
      BY ONLY <1>3, <2>1
  <1>5. ASSUME NEW i \in (Len(fill) + 1)..Len(more)
        PROVE  more[i].kind = "decoded" /\ more[i].content = frame.content
    <2>1. i - Len(fill) \in 1..frame.blocks /\ more[i] = run[i - Len(fill)]
      BY ONLY <1>3, i \in (Len(fill) + 1)..Len(more)
    <2> QED
      BY ONLY <1>1, <2>1
  <1>6. Blocked(more, Len(fill), frame)
    BY ONLY <1>3, <1>5 DEF Blocked
  <1> QED
    BY <1>1, <1>3, <1>4, <1>6

LEMMA PcmFillIs ==
    ASSUME NEW held \in {NoContent} \cup Contents, NEW lost \in Nat
    PROVE  /\ PcmFill(held, lost) \in Seq(Slot)
           /\ Len(PcmFill(held, lost)) = lost
           /\ \A i \in 1..lost : PcmFill(held, lost)[i] =
                 IF held = NoContent THEN Silence
                 ELSE MakeSlot("repeated", held, PcmLevel(i))
  <1>1. Silence \in Slot
    BY DEF Silence, Slot
  <1>2. \A i \in 1..lost : PcmLevel(i) \in Nat
    BY DEF PcmLevel, Silent
  <1>3. \A i \in 1..lost : held # NoContent =>
           MakeSlot("repeated", held, PcmLevel(i)) \in Slot
    BY <1>2 DEF MakeSlot, Slot
  <1>4. PcmFill(held, lost) = [k \in 1..lost |->
           IF held = NoContent THEN Silence
           ELSE MakeSlot("repeated", held, PcmLevel(k))]
    BY DEF PcmFill
  <1>5. PcmFill(held, lost) \in [1..lost -> Slot]
    BY <1>1, <1>3, <1>4
  <1> QED
    BY <1>4, <1>5

LEMMA TimesSilence ==
    ASSUME NEW lost \in Nat
    PROVE  /\ Times(lost, Silence) \in Seq(Slot)
           /\ Len(Times(lost, Silence)) = lost
           /\ \A i \in 1..lost : Times(lost, Silence)[i] = Silence
  <1>1. Silence \in Slot
    BY DEF Silence, Slot
  <1>2. Times(lost, Silence) = [k \in 1..lost |-> Silence]
    BY DEF Times
  <1> QED
    BY <1>1, <1>2

(* The PCM concealment around the blocks of a frame. *)
PcmAround(p, frame, held, lost) ==
    PcmFill(held, lost)
    \o [DecodedRun(p, frame) EXCEPT ![1] = PcmRecovered(@, lost)]

LEMMA PcmReturns ==
    ASSUME NEW p \in Path, NEW frame \in Frame, NEW lost \in Nat,
           NEW held \in {NoContent} \cup Contents,
           NEW more, more = PcmAround(p, frame, held, lost)
    PROVE  /\ Blocked(more, lost, frame)
           /\ \A i \in 1..lost : more[i] =
                 IF held = NoContent THEN Silence
                 ELSE MakeSlot("repeated", held, PcmLevel(i))
           /\ more[lost + 1].level = RecoveryFade(p) + LeastOf(lost, FadeInFrames)
  <1> PICK run : run = DecodedRun(p, frame)
    OBVIOUS
  <1> PICK ramp : ramp = [run EXCEPT ![1] = PcmRecovered(@, lost)]
    OBVIOUS
  <1> PICK fill : fill = PcmFill(held, lost)
    OBVIOUS
  <1>1. /\ run \in Seq(Slot) /\ Len(run) = frame.blocks
        /\ \A i \in 1..frame.blocks :
              run[i].kind = "decoded" /\ run[i].content = frame.content
        /\ run[1].level = RecoveryFade(p)
    BY DecodedRunIs
  <1>2. frame.blocks \in Nat \ {0} /\ 1 \in 1..frame.blocks
    BY FrameIs
  <1>3. RecoveryFade(p) + LeastOf(lost, FadeInFrames) \in Nat
    BY FadeIsBounded DEF LeastOf, FadeInFrames
  <1> PICK slot : slot = PcmRecovered(run[1], lost)
    OBVIOUS
  <1>4. run[1] \in Slot
    BY <1>1, <1>2
  <1>5. slot = [run[1] EXCEPT !.level =
                   RecoveryFade(p) + LeastOf(lost, FadeInFrames)]
    BY <1>1 DEF PcmRecovered
  <1>6. /\ slot \in Slot
        /\ slot.level = RecoveryFade(p) + LeastOf(lost, FadeInFrames)
        /\ slot.kind = run[1].kind /\ slot.content = run[1].content
    BY <1>3, <1>4, <1>5 DEF Slot
  <1>7. ramp = [run EXCEPT ![1] = slot]
    OBVIOUS
  <1>8. /\ ramp \in Seq(Slot) /\ Len(ramp) = frame.blocks
        /\ ramp[1] = slot
        /\ \A i \in 2..frame.blocks : ramp[i] = run[i]
    BY <1>1, <1>2, <1>6, <1>7
  <1>9. \A i \in 1..frame.blocks :
           ramp[i].kind = "decoded" /\ ramp[i].content = frame.content
    <2> TAKE i \in 1..frame.blocks
    <2>1. CASE i = 1
      BY <1>1, <1>2, <1>6, <1>8, <2>1
    <2>2. CASE i # 1
      <3>1. i \in 2..frame.blocks
        BY <1>2, <2>2
      <3> QED
        BY <1>1, <1>8, <3>1
    <2> QED
      BY <2>1, <2>2
  <1>10. /\ fill \in Seq(Slot) /\ Len(fill) = lost
         /\ \A i \in 1..lost : fill[i] =
               IF held = NoContent THEN Silence
               ELSE MakeSlot("repeated", held, PcmLevel(i))
    BY PcmFillIs
  <1>11. more = fill \o ramp
    BY DEF PcmAround
  <1>12. /\ more \in Seq(Slot)
         /\ Len(more) = lost + frame.blocks
         /\ \A i \in 1..lost : more[i] = fill[i]
         /\ \A i \in (lost + 1)..(lost + frame.blocks) :
               /\ i - lost \in 1..frame.blocks
               /\ more[i] = ramp[i - lost]
    <2>1. fill \in Seq(Slot) /\ ramp \in Seq(Slot)
      BY <1>8, <1>10
    <2>2. Len(fill) = lost /\ Len(ramp) = frame.blocks
      BY <1>8, <1>10
    <2>3. /\ more \in Seq(Slot)
          /\ Len(more) = Len(fill) + Len(ramp)
          /\ \A i \in 1..Len(fill) : more[i] = fill[i]
          /\ \A i \in (Len(fill) + 1)..(Len(fill) + Len(ramp)) :
                /\ i - Len(fill) \in 1..Len(ramp)
                /\ more[i] = ramp[i - Len(fill)]
      BY ONLY <1>11, <2>1, JoinIs
    <2> QED
      BY ONLY <2>2, <2>3
  <1>13. more[lost + 1] = slot
    <2>1. lost + 1 \in (lost + 1)..(lost + frame.blocks) /\ lost + 1 - lost = 1
      BY <1>2
    <2>2. more[lost + 1] = ramp[1]
      BY ONLY <1>12, <2>1
    <2> QED
      BY <1>8, <2>2
  <1>14. Blocked(more, lost, frame)
    BY ONLY <1>9, <1>12 DEF Blocked
  <1> QED
    BY <1>6, <1>10, <1>12, <1>13, <1>14

-----------------------------------------------------------------------------
(* What a frame returns *)

(* Fills from the spectra, after so many that were dropped. *)
FromSpectra(more, n, dropped) ==
    /\ spectral /\ HasReference(dec.path)
    /\ \A i \in 1..n : more[i] =
          MakeSlot("concealed", dec.path.ref,
                   ConcealedLevel(Concealed(dec.path, dropped + (i - 1)), Mute))

Between(more, n) ==
    /\ n = 1
    /\ spectral /\ HasReference(dec.path)
    /\ more[1] = MakeSlot("interpolated", dec.path.ref, 0)

FromPcm(more, n) ==
    /\ pcm \in Contents
    /\ \/ ~spectral
       \/ format = "f32" /\ ~HasReference(dec.path)
    /\ \A i \in 1..n : more[i] = MakeSlot("repeated", pcm, PcmLevel(i))

FromNothing(more, n) == \A i \in 1..n : more[i] = Silence

(* The fills in front of a frame that decodes, and how it fades in. *)
Filled(more, n, frame) ==
    \/ /\ n = 0
       /\ frame.cfg = dec.cfg => more[1].level >= RecoveryFade(dec.path)
    \/ /\ n > 0
       /\ frame.cfg = dec.cfg
       /\ \/ more[n + 1].level > 0 /\ FromSpectra(more, n, 0)
          \/ more[n + 1].level > 0 /\ FromPcm(more, n)
          \/ Between(more, n)
    \/ n > 0 /\ FromNothing(more, n)

(* Every loss is filled where the concealment of the format is set up. *)
FillsAll(n, lost) ==
    Fills /\ (format = "i16" \/ ~spectral) => n = lost

LEMMA GoodReturns ==
    ASSUME Typed, NEW frame \in Frame, frame.fault = "none",
           NEW lost \in Nat,
           NEW p, p = Configured(frame).path,
           NEW held, held = ConfiguredPcm(frame),
           NEW more, more = IF format = "f32"
                            THEN ReturnedF32(p, held, frame, lost)
                            ELSE ReturnedI16(p, held, frame, lost)
    PROVE  /\ FilledPath(p, frame, lost) \in Path
           /\ \E n \in Nat : /\ Blocked(more, n, frame)
                             /\ Filled(more, n, frame)
                             /\ FillsAll(n, lost)
  <1>1. /\ p \in Path
        /\ HasReference(p) => frame.cfg = dec.cfg
        /\ frame.cfg = dec.cfg => p = dec.path
        /\ held \in {"off", NoContent} \cup Contents
        /\ held = "off" <=> pcm = "off"
        /\ held \in Contents => frame.cfg = dec.cfg /\ held = pcm
    BY ConfiguredIs DEF Typed
  <1>2. format \in {"f32", "i16"} /\ spectral \in BOOLEAN
    BY DrainAssumption DEF Typed, TypeOK
  <1>3. frame.blocks \in Nat \ {0}
    BY FrameIs
  <1>4. p \in Path
    BY <1>1
  <1>5. CASE spectral /\ HasReference(p)
    <2>1. p = dec.path /\ frame.cfg = dec.cfg /\ HasReference(dec.path)
      BY <1>1, <1>5
    <2>2. CASE Interpolates(p, frame, lost)
      <3> PICK slot : slot = MakeSlot("interpolated", p.ref, 0)
        OBVIOUS
      <3>1. SpectralFill(p, frame, lost) = <<slot>>
        BY <1>5, <2>2 DEF SpectralFill
      <3> PICK q : q = FilledPath(p, frame, lost)
        OBVIOUS
      <3>2. q \in Path
        <4>1. q = InterpolatedPath(p)
          BY <1>5, <2>2 DEF FilledPath
        <4>2. q = [p EXCEPT !.losses = 0, !.state = "Single"]
          BY <4>1 DEF InterpolatedPath
        <4>3. 0 \in 0..UsizeMax /\ "Single" \in States
          BY UsizeAssumption DEF States
        <4> QED
          BY ONLY <1>4, <4>2, <4>3 DEF Path
      <3> PICK fill : fill = <<slot>>
        OBVIOUS
      <3>3. more = AndBlocks(fill, q, frame)
        BY <1>5, <3>1 DEF ReturnedF32, ReturnedI16, AndBlocks
      <3>4. slot \in Slot
        BY <1>1 DEF MakeSlot, Slot, Path
      <3>5. fill \in Seq(Slot) /\ Len(fill) = 1 /\ fill[1] = slot
        BY <3>4
      <3>6. /\ Blocked(more, Len(fill), frame)
            /\ \A i \in 1..Len(fill) : more[i] = fill[i]
        BY ONLY <3>2, <3>3, <3>5, frame \in Frame, BlocksFollow
      <3>7. Blocked(more, 1, frame) /\ more[1] = slot
        BY <3>5, <3>6
      <3>8. Between(more, 1)
        BY <1>5, <2>1, <3>7 DEF Between
      <3>9. FillsAll(1, lost)
        BY <2>2 DEF FillsAll, Interpolates
      <3> QED
        BY <2>1, <3>2, <3>7, <3>8, <3>9 DEF Filled
    <2>3. CASE ~Interpolates(p, frame, lost)
      <3> PICK fill : fill = ConcealedRun(p, lost)
        OBVIOUS
      <3>1. SpectralFill(p, frame, lost) = fill
        BY <1>5, <2>3 DEF SpectralFill
      <3> PICK q : q = FilledPath(p, frame, lost)
        OBVIOUS
      <3>2. q = Concealed(p, lost)
        <4>1. q = ConcealedAfter(p, lost)
          BY <1>5, <2>3 DEF FilledPath
        <4> QED
          BY <1>1, <4>1, ConcealedAfterIs
      <3>3. q \in Path /\ q.losses = LeastOf(p.losses + lost, UsizeMax)
        BY <1>1, <3>2, ConcealedKeeps
      <3>4. /\ fill \in Seq(Slot) /\ Len(fill) = lost
            /\ \A i \in 1..lost : fill[i] =
                  MakeSlot("concealed", p.ref,
                           ConcealedLevel(Concealed(p, i - 1), Mute))
        BY <1>1, <1>5, ConcealedRunIs
      <3>5. CASE lost = 0
        <4>1. fill = <<>>
          BY <3>4, <3>5
        <4>2. q = p
          BY <3>2, <3>5 DEF Concealed
        <4>3. CASE format = "f32" /\ held # "off"
          <5>1. more = PcmAround(q, frame, held, lost)
            BY <3>1, <4>1, <4>3 DEF ReturnedF32, PcmAround
          <5>2. held \in {NoContent} \cup Contents
            BY <1>1, <4>3
          <5>3. /\ Blocked(more, lost, frame)
                /\ more[lost + 1].level
                      = RecoveryFade(q) + LeastOf(lost, FadeInFrames)
            BY ONLY <3>3, <5>1, <5>2, PcmReturns, frame \in Frame, lost \in Nat
          <5>4. more[1].level >= RecoveryFade(dec.path)
            BY <1>1, <2>1, <3>5, <4>2, <5>3, FadeIsBounded
            DEF LeastOf, FadeInFrames
          <5> QED
            BY <3>3, <3>5, <5>3, <5>4 DEF Filled, FillsAll
        <4>4. CASE ~(format = "f32" /\ held # "off")
          <5>1. more = AndBlocks(fill, q, frame)
            <6>1. DecodedRun(q, frame) \in Seq(Slot)
              BY <3>3, DecodedRunIs
            <6>2. fill \o DecodedRun(q, frame) = DecodedRun(q, frame)
              BY <4>1, <6>1
            <6> QED
              BY <1>2, <1>5, <3>1, <4>1, <4>4, <6>2
              DEF ReturnedF32, ReturnedI16, AndBlocks
          <5>2. /\ Blocked(more, Len(fill), frame)
                /\ more[Len(fill) + 1].level = RecoveryFade(q)
            BY ONLY <3>3, <3>4, <5>1, BlocksFollow, frame \in Frame
          <5>3. Blocked(more, 0, frame) /\ more[1].level = RecoveryFade(dec.path)
            BY <2>1, <3>4, <3>5, <4>2, <5>2
          <5>4. more[1].level >= RecoveryFade(dec.path)
            BY <1>1, <2>1, <5>3, FadeIsBounded DEF FadeInFrames
          <5> QED
            BY <3>3, <3>5, <5>3, <5>4 DEF Filled, FillsAll
        <4> QED
          BY <4>3, <4>4
      <3>6. CASE lost # 0
        <4>1. fill # <<>>
          BY <3>4, <3>6
        <4>2. more = AndBlocks(fill, q, frame)
          BY <1>5, <3>1, <4>1 DEF ReturnedF32, ReturnedI16, AndBlocks
        <4>3. /\ Blocked(more, Len(fill), frame)
              /\ \A i \in 1..Len(fill) : more[i] = fill[i]
              /\ more[Len(fill) + 1].level = RecoveryFade(q)
          <5>1. q \in Path /\ fill \in Seq(Slot)
            BY <3>3, <3>4
          <5> QED
            BY ONLY <4>2, <5>1, BlocksFollow, frame \in Frame
        <4>4. /\ Blocked(more, lost, frame)
              /\ \A i \in 1..lost : more[i] = fill[i]
              /\ more[lost + 1].level = RecoveryFade(q)
          BY <3>4, <4>3
        <4>5. q.losses # 0
          BY <1>1, <3>3, <3>6, UsizeAssumption DEF LeastOf, Path
        <4>6. more[lost + 1].level > 0
          BY <3>3, <4>4, <4>5, FadeIsBounded
        <4>7. FromSpectra(more, lost, 0)
          <5>1. \A i \in 1..lost : 0 + (i - 1) = i - 1
            OBVIOUS
          <5> QED
            BY <1>5, <2>1, <3>4, <4>4, <5>1 DEF FromSpectra
        <4>8. lost > 0 /\ FillsAll(lost, lost)
          BY <3>6 DEF FillsAll
        <4> QED
          BY <2>1, <3>3, <4>4, <4>6, <4>7, <4>8 DEF Filled
      <3> QED
        BY <3>5, <3>6
    <2> QED
      BY <2>2, <2>3
  <1>6. CASE ~(spectral /\ HasReference(p))
    <2>1. FilledPath(p, frame, lost) = p /\ SpectralFill(p, frame, lost) = <<>>
      BY <1>6 DEF FilledPath, SpectralFill
    <2>2. CASE held = "off" /\ ~(format = "i16" /\ spectral)
      <3>1. more = DecodedRun(p, frame)
        BY <1>2, <1>6, <2>1, <2>2 DEF ReturnedF32, ReturnedI16
      <3> PICK fill : fill = <<>>
        OBVIOUS
      <3>2. fill \in Seq(Slot)
        OBVIOUS
      <3>3. Len(fill) = 0
        OBVIOUS
      <3>4. more = AndBlocks(fill, p, frame)
        <4>1. DecodedRun(p, frame) \in Seq(Slot)
          BY <1>1, DecodedRunIs
        <4> QED
          BY <3>1, <4>1 DEF AndBlocks
      <3>5. /\ Blocked(more, Len(fill), frame)
            /\ more[Len(fill) + 1].level = RecoveryFade(p)
        BY ONLY <1>4, <3>2, <3>4, BlocksFollow, frame \in Frame
      <3>6. Blocked(more, 0, frame) /\ more[1].level = RecoveryFade(p)
        BY <3>5, <3>3
      <3>7. frame.cfg = dec.cfg => more[1].level >= RecoveryFade(dec.path)
        BY <1>1, <3>6, FadeIsBounded DEF FadeInFrames
      <3>8. FillsAll(0, lost)
        BY <1>1, <2>2 DEF FillsAll, Fills
      <3> QED
        BY <1>1, <2>1, <3>6, <3>7, <3>8 DEF Filled
    <2>3. CASE format = "i16" /\ spectral
      <3> PICK fill : fill = Times(lost, Silence)
        OBVIOUS
      <3>1. more = AndBlocks(fill, p, frame)
        BY <1>6, <2>1, <2>3 DEF ReturnedI16, AndBlocks
      <3>2. /\ fill \in Seq(Slot) /\ Len(fill) = lost
            /\ \A i \in 1..lost : fill[i] = Silence
        BY TimesSilence
      <3>3. /\ Blocked(more, Len(fill), frame)
            /\ \A i \in 1..Len(fill) : more[i] = fill[i]
            /\ more[Len(fill) + 1].level = RecoveryFade(p)
        BY ONLY <1>4, <3>1, <3>2, BlocksFollow, frame \in Frame
      <3>4. /\ Blocked(more, lost, frame)
            /\ FromNothing(more, lost)
            /\ more[lost + 1].level = RecoveryFade(p)
        BY <3>2, <3>3 DEF FromNothing
      <3>5. lost = 0 /\ frame.cfg = dec.cfg =>
               more[1].level >= RecoveryFade(dec.path)
        BY <1>1, <3>4, FadeIsBounded DEF FadeInFrames
      <3>6. FillsAll(lost, lost)
        BY DEF FillsAll
      <3> QED
        BY <1>1, <2>1, <3>4, <3>5, <3>6 DEF Filled
    <2>4. CASE held # "off" /\ ~(format = "i16" /\ spectral)
      <3>1. more = PcmAround(p, frame, held, lost)
        BY <1>2, <1>6, <2>1, <2>4 DEF ReturnedF32, ReturnedI16, PcmAround
      <3>2. held \in {NoContent} \cup Contents
        BY <1>1, <2>4
      <3>3. /\ Blocked(more, lost, frame)
            /\ \A i \in 1..lost : more[i] =
                  IF held = NoContent THEN Silence
                  ELSE MakeSlot("repeated", held, PcmLevel(i))
            /\ more[lost + 1].level
                  = RecoveryFade(p) + LeastOf(lost, FadeInFrames)
        BY ONLY <1>4, <3>1, <3>2, PcmReturns, frame \in Frame, lost \in Nat
      <3>4. FillsAll(lost, lost)
        BY DEF FillsAll
      <3>5. CASE lost = 0
        <4>1. frame.cfg = dec.cfg => more[1].level >= RecoveryFade(dec.path)
          BY <1>1, <3>3, <3>5, FadeIsBounded DEF LeastOf, FadeInFrames
        <4> QED
          BY <1>1, <2>1, <3>3, <3>4, <3>5, <4>1 DEF Filled
      <3>6. CASE lost # 0 /\ held = NoContent
        <4>1. FromNothing(more, lost)
          BY <3>3, <3>6 DEF FromNothing
        <4> QED
          BY <1>1, <2>1, <3>3, <3>4, <3>6, <4>1 DEF Filled
      <3>7. CASE lost # 0 /\ held # NoContent
        <4>1. held \in Contents /\ frame.cfg = dec.cfg /\ held = pcm
          BY <1>1, <3>2, <3>7
        <4>2. more[lost + 1].level > 0
          BY <1>1, <3>3, <3>7, FadeIsBounded DEF LeastOf, FadeInFrames
        <4>3. FromPcm(more, lost)
          BY <1>1, <1>2, <1>6, <2>4, <3>3, <3>7, <4>1 DEF FromPcm
        <4> QED
          BY <1>1, <2>1, <3>3, <3>4, <3>7, <4>1, <4>2, <4>3 DEF Filled
      <3> QED
        BY <3>5, <3>6, <3>7
    <2> QED
      BY <2>2, <2>3, <2>4
  <1> QED
    BY <1>5, <1>6

(* A run that is cut goes on where it was. *)
LEMMA ConcealedFurther ==
    ASSUME NEW p \in Path, NEW m \in Nat, NEW n \in Nat,
           NEW q, q = Concealed(p, m)
    PROVE  /\ Concealed(q, n).losses = LeastOf(p.losses + (m + n), UsizeMax)
           /\ ConcealedLevel(Concealed(q, n), Mute)
                 = ConcealedLevel(Concealed(p, m + n), Mute)
  <1>1. q \in Path /\ q.losses = LeastOf(p.losses + m, UsizeMax)
    BY ConcealedKeeps
  <1>2. p.losses \in Nat /\ UsizeMax \in Nat /\ m + n \in Nat
    BY UsizeAssumption DEF Path
  <1>3. LeastOf(q.losses + n, UsizeMax) = LeastOf(p.losses + (m + n), UsizeMax)
    BY <1>1, <1>2 DEF LeastOf
  <1>4. /\ Concealed(q, n).losses = LeastOf(q.losses + n, UsizeMax)
        /\ ConcealedLevel(Concealed(q, n), Mute)
              = IF Mute THEN Silent
                ELSE LossLevel(LeastOf(q.losses + n, UsizeMax))
    BY ONLY <1>1, ConcealedKeeps, n \in Nat
  <1>5. ConcealedLevel(Concealed(p, m + n), Mute)
              = IF Mute THEN Silent
                ELSE LossLevel(LeastOf(p.losses + (m + n), UsizeMax))
    BY ONLY <1>2, ConcealedKeeps, p \in Path
  <1> QED
    BY ONLY <1>3, <1>4, <1>5

CorruptRun(p, left, frame, lost) ==
    FillOfCorrupt(p, frame, lost) \o ConcealedRun(left, frame.blocks)

Conceals(n, dropped, more, after, passed) ==
    /\ more \in Seq(Slot)
    /\ Len(more) = n
    /\ FromSpectra(more, n, dropped)
    /\ after.losses = LeastOf(dec.path.losses + (dropped + n), UsizeMax)
    /\ format = "i16" => n = passed

LEMMA CorruptReturns ==
    ASSUME Typed, NEW frame \in Frame, frame.fault = "syntax",
           NEW lost \in Nat,
           NEW p, p = Configured(frame).path, spectral, HasReference(p),
           NEW left, left = FilledPath(p, frame, lost),
           NEW more, more = CorruptRun(p, left, frame, lost),
           NEW after, after = ConcealedAfter(left, frame.blocks)
    PROVE  /\ Configured(frame) = dec
           /\ after \in Path
           /\ after.ref = dec.path.ref
           /\ \E n \in Nat \ {0}, dropped \in Nat :
                 Conceals(n, dropped, more, after, lost + frame.blocks)
  <1>1. Configured(frame) = dec /\ p = dec.path /\ HasReference(dec.path)
    BY ConfiguredIs DEF Typed
  <1>2. p \in Path
    BY <1>1 DEF Typed, TypeOK
  <1>3. frame.blocks \in Nat \ {0}
    BY FrameIs
  <1>4. ~Interpolates(p, frame, lost)
    BY DEF Interpolates
  <1>5. left = Concealed(p, lost)
    <2>1. left = ConcealedAfter(p, lost)
      BY <1>4 DEF FilledPath
    <2> QED
      BY ONLY <1>2, <2>1, ConcealedAfterIs, lost \in Nat
  <1>6. left \in Path /\ left.ref = p.ref
    BY <1>2, <1>5, ConcealedKeeps
  <1>7. after = Concealed(left, frame.blocks)
    BY ONLY <1>3, <1>6, ConcealedAfterIs,
            after = ConcealedAfter(left, frame.blocks)
  <1>8. /\ after \in Path /\ after.ref = dec.path.ref
        /\ after.losses
              = LeastOf(dec.path.losses + (lost + frame.blocks), UsizeMax)
    <2>1. frame.blocks \in Nat
      BY <1>3
    <2>2. after \in Path /\ after.ref = left.ref
      BY ONLY <1>6, <1>7, <2>1, ConcealedKeeps
    <2>3. after.losses = LeastOf(p.losses + (lost + frame.blocks), UsizeMax)
      <3>1. left.losses = LeastOf(p.losses + lost, UsizeMax)
        BY ONLY <1>2, <1>5, ConcealedKeeps, lost \in Nat
      <3>2. after.losses = LeastOf(left.losses + frame.blocks, UsizeMax)
        BY ONLY <1>6, <1>7, <2>1, ConcealedKeeps
      <3>3. p.losses \in Nat /\ UsizeMax \in Nat
        BY <1>2, UsizeAssumption DEF Path
      <3> QED
        BY ONLY <2>1, <3>1, <3>2, <3>3, lost \in Nat DEF LeastOf
    <2> QED
      BY <1>1, <1>6, <2>2, <2>3
  <1> PICK run : run = ConcealedRun(left, frame.blocks)
    OBVIOUS
  <1>9. /\ run \in Seq(Slot) /\ Len(run) = frame.blocks
        /\ \A i \in 1..frame.blocks : run[i] =
              MakeSlot("concealed", dec.path.ref,
                       ConcealedLevel(Concealed(dec.path, lost + (i - 1)), Mute))
    <2>1. HasReference(left) /\ frame.blocks \in Nat
      BY <1>3, <1>6 DEF HasReference
    <2>2. /\ run \in Seq(Slot) /\ Len(run) = frame.blocks
          /\ \A i \in 1..frame.blocks : run[i] =
                MakeSlot("concealed", left.ref,
                         ConcealedLevel(Concealed(left, i - 1), Mute))
      BY ONLY <1>6, <2>1, ConcealedRunIs,
              run = ConcealedRun(left, frame.blocks)
    <2>3. ASSUME NEW i \in 1..frame.blocks
          PROVE  ConcealedLevel(Concealed(left, i - 1), Mute)
                    = ConcealedLevel(Concealed(p, lost + (i - 1)), Mute)
      <3>1. i - 1 \in Nat
        BY <1>3
      <3> QED
        BY ONLY <1>2, <1>5, <3>1, ConcealedFurther, lost \in Nat
    <2> QED
      BY <1>1, <1>6, <2>2, <2>3
  <1>10. CASE format = "i16"
    <2> PICK fill : fill = ConcealedRun(p, lost)
      OBVIOUS
    <2>1. more = fill \o run
      <3>1. SpectralFill(p, frame, lost) = fill
        BY <1>4 DEF SpectralFill
      <3> QED
        BY <1>10, <3>1 DEF FillOfCorrupt, CorruptRun
    <2>2. fill \in Seq(Slot) /\ Len(fill) = lost
      BY <1>2, ConcealedRunIs
    <2>3. \A i \in 1..lost : fill[i] =
             MakeSlot("concealed", p.ref,
                      ConcealedLevel(Concealed(p, i - 1), Mute))
      BY <1>2, ConcealedRunIs
    <2>4. run \in Seq(Slot) /\ Len(run) = frame.blocks
      BY <1>9
    <2>5. /\ more \in Seq(Slot)
          /\ Len(more) = Len(fill) + Len(run)
          /\ \A i \in 1..Len(fill) : more[i] = fill[i]
          /\ \A i \in (Len(fill) + 1)..(Len(fill) + Len(run)) :
                /\ i - Len(fill) \in 1..Len(run)
                /\ more[i] = run[i - Len(fill)]
      BY ONLY <2>1, <2>2, <2>4, JoinIs
    <2>6. /\ Len(more) = lost + frame.blocks
          /\ \A i \in 1..lost : more[i] = fill[i]
          /\ \A i \in (lost + 1)..(lost + frame.blocks) :
                /\ i - lost \in 1..frame.blocks
                /\ more[i] = run[i - lost]
      BY ONLY <2>2, <2>4, <2>5
    <2>7. ASSUME NEW i \in 1..(lost + frame.blocks)
          PROVE  more[i] =
                    MakeSlot("concealed", dec.path.ref,
                             ConcealedLevel(Concealed(dec.path, 0 + (i - 1)),
                                            Mute))
      <3>1. 0 + (i - 1) = i - 1 /\ lost + (i - lost - 1) = i - 1
        BY <1>3
      <3>2. CASE i <= lost
        <4>1. i \in 1..lost
          BY <1>3, <3>2
        <4> QED
          BY <1>1, <2>3, <2>6, <3>1, <4>1
      <3>3. CASE ~(i <= lost)
        <4>1. i \in (lost + 1)..(lost + frame.blocks)
          BY <1>3, <3>3
        <4>2. i - lost \in 1..frame.blocks /\ more[i] = run[i - lost]
          BY ONLY <2>6, <4>1
        <4> QED
          BY ONLY <1>9, <3>1, <4>2
      <3> QED
        BY <3>2, <3>3
    <2>8. FromSpectra(more, lost + frame.blocks, 0)
      BY <1>1, <2>7 DEF FromSpectra
    <2>9. lost + frame.blocks \in Nat \ {0}
          /\ 0 + (lost + frame.blocks) = lost + frame.blocks
      BY <1>3
    <2> QED
      BY <1>1, <1>8, <2>5, <2>6, <2>8, <2>9 DEF Conceals
  <1>11. CASE format # "i16"
    <2>1. more = run
      <3>1. FillOfCorrupt(p, frame, lost) = <<>>
        BY <1>11 DEF FillOfCorrupt
      <3> QED
        BY <1>9, <3>1 DEF CorruptRun
    <2>2. FromSpectra(more, frame.blocks, lost)
      BY <1>1, <1>9, <2>1 DEF FromSpectra
    <2> QED
      BY <1>1, <1>3, <1>8, <1>9, <1>11, <2>1, <2>2 DEF Conceals
  <1> QED
    BY <1>10, <1>11

-----------------------------------------------------------------------------
(* Steps *)

Kept == UNCHANGED <<spectral, user, format>>

(* A frame that decodes. *)
GoodStep(n, more, frame) ==
    /\ output' = output \o more
    /\ Blocked(more, n, frame)
    /\ Filled(more, n, frame)
    /\ dec' \in [cfg : Configs, path : Path]
    /\ dec'.cfg = frame.cfg
    /\ dec'.path.ref = frame.content /\ dec'.path.losses = 0
    /\ pcm' = HeldAfter(ConfiguredPcm(frame), frame)
    /\ Kept

(* A frame that does not, and is concealed. *)
ConcealStep(n, dropped, more) ==
    /\ output' = output \o more
    /\ more \in Seq(Slot)
    /\ Len(more) = n
    /\ FromSpectra(more, n, dropped)
    /\ dec' \in [cfg : Configs, path : Path]
    /\ dec'.cfg = dec.cfg
    /\ dec'.path.ref = dec.path.ref
    /\ dec'.path.losses = LeastOf(dec.path.losses + (dropped + n), UsizeMax)
    /\ UNCHANGED pcm
    /\ Kept

LEMMA GoodSteps ==
    ASSUME Typed, NEW gap \in Gaps, NEW frame \in Frame, DrainGood(gap, frame)
    PROVE  \E n \in Nat, more \in Seq(Slot) :
              /\ GoodStep(n, more, frame)
              /\ FillsAll(n, Estimate(gap, frame.bytes))
              /\ due' = due + (Estimate(gap, frame.bytes) + frame.blocks)
              /\ UNCHANGED call
  <1> PICK lost : lost = Estimate(gap, frame.bytes)
    OBVIOUS
  <1> PICK d : d = Configured(frame)
    OBVIOUS
  <1> PICK held : held = ConfiguredPcm(frame)
    OBVIOUS
  <1> PICK p : p = Configured(frame).path
    OBVIOUS
  <1> PICK more : more = IF format = "f32"
                         THEN ReturnedF32(p, held, frame, lost)
                         ELSE ReturnedI16(p, held, frame, lost)
    OBVIOUS
  <1> PICK left : left = FilledPath(p, frame, lost)
    OBVIOUS
  <1>1. /\ frame.fault = "none"
        /\ dec' = [d EXCEPT !.path =
                      DecodedAfter(FilledPath(@, frame, lost), frame.content,
                                   frame.blocks)]
        /\ pcm' = HeldAfter(held, frame)
        /\ GoOn(more, lost + frame.blocks)
        /\ Kept
    BY DEF DrainGood, Draining, Kept
  <1>2. lost \in Nat
    BY EstimateIs DEF Typed, TypeOK
  <1>3. left \in Path /\ \E n \in Nat : /\ Blocked(more, n, frame)
                                        /\ Filled(more, n, frame)
                                        /\ FillsAll(n, lost)
    <2>1. frame.fault = "none"
      BY <1>1
    <2> QED
      BY ONLY <1>2, <2>1, GoodReturns, Typed, frame \in Frame,
              p = Configured(frame).path, held = ConfiguredPcm(frame),
              more = IF format = "f32"
                     THEN ReturnedF32(p, held, frame, lost)
                     ELSE ReturnedI16(p, held, frame, lost),
              left = FilledPath(p, frame, lost)
  <1>4. d \in [cfg : Configs, path : Path] /\ d.cfg = frame.cfg /\ d.path = p
    BY ConfiguredIs DEF Typed
  <1>5. frame.content \in Contents /\ frame.blocks \in Nat \ {0}
    BY FrameIs
  <1> PICK after : after = DecodedAfter(left, frame.content, frame.blocks)
    OBVIOUS
  <1>6. after \in Path /\ after.ref = frame.content /\ after.losses = 0
    <2>1. frame.blocks \in Nat /\ frame.blocks # 0
      BY <1>5
    <2>2. after = Decoded(left, frame.content, frame.blocks)
      BY ONLY <1>3, <1>5, <2>1, DecodedAfterIs,
              after = DecodedAfter(left, frame.content, frame.blocks)
    <2> QED
      BY ONLY <1>3, <1>5, <2>1, <2>2, DecodedKeeps
  <1>7. dec' = [d EXCEPT !.path = after]
    BY <1>1, <1>4
  <1>8. /\ dec' \in [cfg : Configs, path : Path]
        /\ dec'.cfg = frame.cfg /\ dec'.path = after
    BY <1>4, <1>6, <1>7
  <1>9. /\ output' = output \o more /\ due' = due + (lost + frame.blocks)
        /\ UNCHANGED call
    BY <1>1 DEF GoOn
  <1>10. PICK n \in Nat : /\ Blocked(more, n, frame)
                          /\ Filled(more, n, frame)
                          /\ FillsAll(n, lost)
    BY <1>3
  <1>11. GoodStep(n, more, frame)
    BY <1>1, <1>6, <1>8, <1>9, <1>10 DEF GoodStep
  <1>12. more \in Seq(Slot)
    BY <1>10 DEF Blocked
  <1> QED
    BY <1>9, <1>10, <1>11, <1>12

LEMMA CorruptSteps ==
    ASSUME Typed, NEW gap \in Gaps, NEW frame \in Frame,
           DrainCorrupt(gap, frame)
    PROVE  \/ /\ \E n \in Nat \ {0}, dropped \in Nat, more \in Seq(Slot) :
                    /\ ConcealStep(n, dropped, more)
                    /\ format = "i16" =>
                          n = Estimate(gap, frame.bytes) + frame.blocks
              /\ due' = due + (Estimate(gap, frame.bytes) + frame.blocks)
              /\ UNCHANGED call
           \/ /\ Fail
              /\ dec' \in [cfg : Configs, path : Path]
              /\ pcm' \in {"off", NoContent} \cup Contents
              /\ SameStream'
  <1> PICK lost : lost = Estimate(gap, frame.bytes)
    OBVIOUS
  <1> PICK p : p = Configured(frame).path
    OBVIOUS
  <1> PICK left : left = FilledPath(p, frame, lost)
    OBVIOUS
  <1>1. /\ frame.fault = "syntax"
        /\ pcm' = ConfiguredPcm(frame)
        /\ Kept
        /\ IF spectral /\ HasReference(p)
           THEN /\ dec' = [Configured(frame) EXCEPT !.path =
                              ConcealedAfter(left, frame.blocks)]
                /\ GoOn(FillOfCorrupt(p, frame, lost)
                        \o ConcealedRun(left, frame.blocks),
                        lost + frame.blocks)
           ELSE dec' = [Configured(frame) EXCEPT !.path = left] /\ Fail
    BY DEF DrainCorrupt, Draining, Kept
  <1>2. lost \in Nat
    BY EstimateIs DEF Typed, TypeOK
  <1>3. /\ Configured(frame) \in [cfg : Configs, path : Path]
        /\ HasReference(p) => frame.cfg = dec.cfg
        /\ frame.cfg = dec.cfg => Configured(frame) = dec
        /\ Configured(frame).cfg = frame.cfg
        /\ ConfiguredPcm(frame) \in {"off", NoContent} \cup Contents
        /\ ConfiguredPcm(frame) \in Contents =>
              frame.cfg = dec.cfg /\ ConfiguredPcm(frame) = pcm
    BY ConfiguredIs DEF Typed
  <1>4. CASE spectral /\ HasReference(p)
    <2> PICK more : more = CorruptRun(p, left, frame, lost)
      OBVIOUS
    <2> PICK after : after = ConcealedAfter(left, frame.blocks)
      OBVIOUS
    <2>1. frame.fault = "syntax" /\ spectral /\ HasReference(p)
      BY <1>1, <1>4
    <2>2. /\ Configured(frame) = dec
          /\ after \in Path /\ after.ref = dec.path.ref
          /\ \E n \in Nat \ {0}, dropped \in Nat :
                Conceals(n, dropped, more, after, lost + frame.blocks)
      BY ONLY <1>2, <2>1, CorruptReturns, Typed, frame \in Frame,
              p = Configured(frame).path, left = FilledPath(p, frame, lost),
              more = CorruptRun(p, left, frame, lost),
              after = ConcealedAfter(left, frame.blocks)
    <2>3. /\ dec' = [dec EXCEPT !.path = after]
          /\ GoOn(more, lost + frame.blocks)
      <3>1. /\ dec' = [Configured(frame) EXCEPT !.path =
                            ConcealedAfter(left, frame.blocks)]
            /\ GoOn(FillOfCorrupt(p, frame, lost)
                    \o ConcealedRun(left, frame.blocks),
                    lost + frame.blocks)
        BY <1>1, <1>4
      <3>2. GoOn(more, lost + frame.blocks)
        BY <3>1 DEF CorruptRun
      <3>3. dec' = [Configured(frame) EXCEPT !.path = after]
        BY <3>1
      <3> QED
        BY ONLY <2>2, <3>2, <3>3
    <2>4. /\ output' = output \o more /\ due' = due + (lost + frame.blocks)
          /\ UNCHANGED call
      BY <2>3 DEF GoOn
    <2>5. /\ dec' \in [cfg : Configs, path : Path]
          /\ dec'.cfg = dec.cfg /\ dec'.path = after
      BY <2>2, <2>3 DEF Typed, TypeOK
    <2>6. UNCHANGED pcm
      <3>1. frame.cfg = dec.cfg
        BY <1>3, <1>4
      <3> QED
        BY <1>1, <3>1 DEF ConfiguredPcm
    <2>7. PICK n \in Nat \ {0}, dropped \in Nat :
             Conceals(n, dropped, more, after, lost + frame.blocks)
      BY <2>2
    <2>8. ConcealStep(n, dropped, more)
      BY <1>1, <2>2, <2>4, <2>5, <2>6, <2>7 DEF ConcealStep, Conceals
    <2> QED
      BY <2>4, <2>7, <2>8 DEF Conceals
  <1>5. CASE ~(spectral /\ HasReference(p))
    <2>1. left = p
      BY <1>5 DEF FilledPath
    <2>2. dec' = [Configured(frame) EXCEPT !.path = p] /\ Fail
      BY <1>1, <1>5, <2>1
    <2>3. dec' = Configured(frame)
      BY <1>3, <2>2
    <2>4. SameStream'
      <3>1. ASSUME pcm' \in Contents
            PROVE  Origin[pcm'] = dec'.cfg
        BY <1>1, <1>3, <2>3, <3>1 DEF Typed, SameStream
      <3>2. ASSUME HasReference(dec'.path)
            PROVE  Origin[dec'.path.ref] = dec'.cfg
        BY <1>3, <2>3, <3>2 DEF Typed, SameStream
      <3> QED
        BY <3>1, <3>2 DEF SameStream
    <2> QED
      BY <1>1, <1>3, <2>2, <2>3, <2>4
  <1> QED
    BY <1>4, <1>5

-----------------------------------------------------------------------------
(* What fills do to the output *)

(* Fills follow each other, and what they follow, without getting louder,  *)
(* and are silent from the eighth on.                                      *)
GoesDown(more, n) ==
    \A i \in 1..n : more[i].kind \in Fill =>
        /\ i > 1 /\ more[i - 1].kind \in Fill =>
              more[i - 1].level <= more[i].level
        /\ i = 1 /\ Len(output) > 0 /\ IsFill(Len(output)) =>
              output[Len(output)].level <= more[1].level
        /\ i > 7 => (UsizeMax > FadeOutLosses => more[i].level = Silent)
        /\ i <= 7 /\ EndsWithFills(8 - i) =>
              (UsizeMax > FadeOutLosses => more[i].level = Silent)

(* They are made of what was decoded last. *)
IsCurrent(more, n) ==
    \A i \in 1..n :
        /\ more[i].kind # "decoded"
        /\ more[i].kind \in Fill \cup {"interpolated"} =>
              IsLatest(more[i].content)

LevelOf(p) == ConcealedLevel(p, Mute)

LEMMA SlotIs ==
    ASSUME NEW kind, NEW content, NEW level
    PROVE  /\ MakeSlot(kind, content, level).kind = kind
           /\ MakeSlot(kind, content, level).content = content
           /\ MakeSlot(kind, content, level).level = level
  BY DEF MakeSlot

LEMMA LevelsRise ==
    ASSUME NEW p \in Path, NEW m \in Nat, NEW n \in Nat, m <= n
    PROVE  /\ LevelOf(Concealed(p, m)) \in Nat
           /\ LevelOf(Concealed(p, m)) <= LevelOf(Concealed(p, n))
           /\ UsizeMax > FadeOutLosses /\ p.losses + m >= Silent =>
                 LevelOf(Concealed(p, m)) = Silent
           /\ LevelOf(Concealed(p, 0)) = LevelOf(p)
  <1>1. p.losses \in Nat /\ UsizeMax \in Nat
    BY UsizeAssumption DEF Path
  <1>2. /\ LevelOf(Concealed(p, m)) =
              IF Mute THEN Silent ELSE LossLevel(LeastOf(p.losses + m, UsizeMax))
        /\ LevelOf(Concealed(p, n)) =
              IF Mute THEN Silent ELSE LossLevel(LeastOf(p.losses + n, UsizeMax))
    BY ConcealedKeeps DEF LevelOf
  <1>3. /\ LossLevel(LeastOf(p.losses + m, UsizeMax)) \in Nat
        /\ LossLevel(LeastOf(p.losses + m, UsizeMax))
              <= LossLevel(LeastOf(p.losses + n, UsizeMax))
        /\ UsizeMax > FadeOutLosses /\ p.losses + m >= Silent =>
              LossLevel(LeastOf(p.losses + m, UsizeMax)) = Silent
    BY <1>1 DEF LossLevel, LeastOf, Silent, FadeOutLosses
  <1>4. Concealed(p, 0) = p
    BY DEF Concealed
  <1> QED
    BY <1>2, <1>3, <1>4 DEF Silent

LEMMA SpectraGoDown ==
    ASSUME Typed, EndsOpenly, EndIsCounted,
           NEW more \in Seq(Slot), NEW n \in Nat, NEW dropped \in Nat,
           FromSpectra(more, n, dropped)
    PROVE  GoesDown(more, n)
  <1> PICK p : p = dec.path
    OBVIOUS
  <1>1. p \in Path /\ p.losses \in Nat
    BY DEF Typed, TypeOK, Path
  <1>2. \A i \in 1..n : /\ more[i].kind = "concealed"
                        /\ more[i].level = LevelOf(Concealed(p, dropped + (i - 1)))
    BY SlotIs DEF FromSpectra, LevelOf
  <1> SUFFICES ASSUME NEW i \in 1..n
               PROVE  /\ i > 1 /\ more[i - 1].kind \in Fill =>
                            more[i - 1].level <= more[i].level
                      /\ i = 1 /\ Len(output) > 0 /\ IsFill(Len(output)) =>
                            output[Len(output)].level <= more[1].level
                      /\ i > 7 => (UsizeMax > FadeOutLosses =>
                                      more[i].level = Silent)
                      /\ i <= 7 /\ EndsWithFills(8 - i) =>
                            (UsizeMax > FadeOutLosses => more[i].level = Silent)
    BY DEF GoesDown
  <1>3. dropped + (i - 1) \in Nat /\ more[i].level \in Nat
    <2>1. dropped + (i - 1) \in Nat
      OBVIOUS
    <2>2. LevelOf(Concealed(p, dropped + (i - 1))) \in Nat
      BY ONLY <1>1, <2>1, LevelsRise
    <2> QED
      BY <1>2, <2>1, <2>2
  <1>4. ASSUME i > 1
        PROVE  more[i - 1].level <= more[i].level
    <2>1. /\ i - 1 \in 1..n /\ dropped + (i - 1 - 1) \in Nat
          /\ dropped + (i - 1 - 1) <= dropped + (i - 1)
      BY <1>4
    <2>2. LevelOf(Concealed(p, dropped + (i - 1 - 1)))
             <= LevelOf(Concealed(p, dropped + (i - 1)))
      BY ONLY <1>1, <1>3, <2>1, LevelsRise
    <2> QED
      BY ONLY <1>2, <2>1, <2>2, i \in 1..n
  <1>5. ASSUME i = 1, Len(output) > 0, IsFill(Len(output))
        PROVE  output[Len(output)].level <= more[1].level
    <2> PICK last : last = output[Len(output)]
      OBVIOUS
    <2>1. last.level <= LevelOf(p) /\ last.level \in Nat
      <3>1. last \in Slot
        BY <1>5 DEF Typed
      <3>2. last.kind \in Fill
        BY <1>5 DEF IsFill
      <3>3. last.kind # "decoded"
        BY <3>2 DEF Fill
      <3> QED
        BY <1>5, <3>1, <3>3 DEF EndsOpenly, LevelOf, Slot
    <2>2. more[1].level = LevelOf(Concealed(p, dropped))
      <3>1. 1 \in 1..n /\ dropped + (1 - 1) = dropped
        BY <1>5
      <3> QED
        BY ONLY <1>2, <3>1
    <2>3. /\ LevelOf(Concealed(p, 0)) <= LevelOf(Concealed(p, dropped))
          /\ LevelOf(Concealed(p, 0)) = LevelOf(p)
          /\ LevelOf(Concealed(p, 0)) \in Nat
          /\ LevelOf(Concealed(p, dropped)) \in Nat
      <3>1. 0 \in Nat /\ 0 <= dropped /\ dropped <= dropped
        OBVIOUS
      <3> QED
        BY ONLY <1>1, <3>1, LevelsRise, dropped \in Nat
    <2> QED
      BY <2>1, <2>2, <2>3
  <1>6. ASSUME UsizeMax > FadeOutLosses,
               i > 7 \/ (i <= 7 /\ EndsWithFills(8 - i))
        PROVE  more[i].level = Silent
    <2>1. p.losses + (dropped + (i - 1)) >= Silent
      <3>1. CASE i > 7
        BY <1>1, <3>1 DEF Silent
      <3>2. CASE i <= 7 /\ EndsWithFills(8 - i)
        <4>1. 8 - i \in 1..Silent
          BY <3>2 DEF Silent
        <4>2. p.losses >= 8 - i
          BY <1>6, <3>2, <4>1 DEF EndIsCounted
        <4> QED
          BY <1>1, <4>2 DEF Silent
      <3> QED
        BY <1>6, <3>1, <3>2
    <2>2. dropped + (i - 1) <= dropped + (i - 1)
      BY <1>3
    <2>3. LevelOf(Concealed(p, dropped + (i - 1))) = Silent
      BY ONLY <1>1, <1>3, <1>6, <2>1, <2>2, LevelsRise
    <2> QED
      BY <1>2, <2>3
  <1> QED
    BY <1>4, <1>5, <1>6

LEMMA PcmGoesDown ==
    ASSUME Typed, EndsOpenly,
           NEW more \in Seq(Slot), NEW n \in Nat, FromPcm(more, n)
    PROVE  GoesDown(more, n)
  <1>1. \A i \in 1..n : more[i].level = PcmLevel(i)
    BY SlotIs DEF FromPcm
  <1>2. Len(output) > 0 => ~IsFill(Len(output))
    BY DEF FromPcm, EndsOpenly, IsFill, Fill
  <1>3. ASSUME NEW m \in 1..7
        PROVE  ~EndsWithFills(m)
    <2> SUFFICES ASSUME EndsWithFills(m)
                 PROVE  FALSE
      OBVIOUS
    <2>1. Len(output) \in Nat /\ Len(output) > 0
          /\ Len(output) \in (Len(output) - m + 1)..Len(output)
      BY DEF EndsWithFills, Typed
    <2> QED
      BY <1>2, <2>1 DEF EndsWithFills
  <1>4. \A i \in 1..n : /\ i > 1 => PcmLevel(i - 1) <= PcmLevel(i)
                        /\ i > 7 => PcmLevel(i) = Silent
    BY DEF PcmLevel, Silent, FadeOutLosses
  <1>5. \A i \in 1..n : i > 1 => i - 1 \in 1..n
    OBVIOUS
  <1>6. \A i \in 1..n : i <= 7 => 8 - i \in 1..7
    OBVIOUS
  <1> QED
    BY <1>1, <1>2, <1>3, <1>4, <1>5, <1>6 DEF GoesDown

LEMMA FilledFills ==
    ASSUME Typed, EndsOpenly, EndIsCounted, SourceIsLatest,
           NEW more \in Seq(Slot), NEW n \in Nat, NEW frame,
           Filled(more, n, frame)
    PROVE  GoesDown(more, n) /\ IsCurrent(more, n)
  <1>1. CASE n = 0
    BY <1>1 DEF GoesDown, IsCurrent
  <1>2. CASE FromSpectra(more, n, 0)
    <2>1. 0 \in Nat
      OBVIOUS
    <2>2. GoesDown(more, n)
      BY ONLY <1>2, <2>1, SpectraGoDown, Typed, EndsOpenly, EndIsCounted,
              more \in Seq(Slot), n \in Nat
    <2>3. \A i \in 1..n :
             more[i].kind = "concealed" /\ more[i].content = dec.path.ref
      BY <1>2, SlotIs DEF FromSpectra
    <2>4. IsCurrent(more, n)
      BY <2>3 DEF IsCurrent, SourceIsLatest
    <2> QED
      BY <2>2, <2>4
  <1>3. CASE FromPcm(more, n)
    <2>1. GoesDown(more, n)
      BY ONLY <1>3, PcmGoesDown, Typed, EndsOpenly, more \in Seq(Slot), n \in Nat
    <2>2. \A i \in 1..n : more[i].kind = "repeated" /\ more[i].content = pcm
      BY <1>3, SlotIs DEF FromPcm
    <2>3. IsLatest(pcm)
      BY <1>3 DEF FromPcm, SourceIsLatest
    <2>4. IsCurrent(more, n)
      BY <2>2, <2>3 DEF IsCurrent
    <2> QED
      BY <2>1, <2>4
  <1>4. CASE Between(more, n)
    <2>1. \A i \in 1..n :
             more[i].kind = "interpolated" /\ more[i].content = dec.path.ref
      BY <1>4, SlotIs DEF Between
    <2> QED
      BY <2>1 DEF GoesDown, IsCurrent, SourceIsLatest, Fill
  <1>5. CASE FromNothing(more, n)
    <2>1. \A i \in 1..n : more[i].kind = "silence"
      BY <1>5 DEF FromNothing, Silence
    <2> QED
      BY <2>1 DEF GoesDown, IsCurrent, Fill
  <1> QED
    BY <1>1, <1>2, <1>3, <1>4, <1>5 DEF Filled

-----------------------------------------------------------------------------
(* The output goes on with some fills and the blocks of a frame. *)
Appends(more, n) ==
    /\ output' = output \o more
    /\ output \in Seq(Slot) /\ more \in Seq(Slot)
    /\ n \in Nat /\ n <= Len(more)
    /\ \A i \in (n + 1)..Len(more) : more[i].kind = "decoded"

LEMMA Appended ==
    ASSUME NEW more, NEW n, Appends(more, n)
    PROVE  /\ Len(output) \in Nat /\ Len(more) \in Nat
           /\ output' \in Seq(Slot)
           /\ Len(output') = Len(output) + Len(more)
           /\ \A i \in 1..Len(output) : output'[i] = output[i]
           /\ \A i \in (Len(output) + 1)..(Len(output) + Len(more)) :
                 /\ i - Len(output) \in 1..Len(more)
                 /\ output'[i] = more[i - Len(output)]
  BY JoinIs DEF Appends

LEMMA RunsFadeOn ==
    ASSUME UsizeMax > FadeOutLosses, RunsFade,
           NEW more, NEW n, Appends(more, n), GoesDown(more, n)
    PROVE  RunsFade'
  <1> PICK l : l = Len(output)
    OBVIOUS
  <1> PICK out : out = output'
    OBVIOUS
  <1>1. /\ l \in Nat /\ Len(more) \in Nat
        /\ out \in Seq(Slot)
        /\ Len(out) = l + Len(more)
        /\ \A i \in 1..l : out[i] = output[i]
        /\ \A i \in (l + 1)..(l + Len(more)) :
              i - l \in 1..Len(more) /\ out[i] = more[i - l]
    BY Appended
  <1>2. n \in Nat /\ n <= Len(more)
        /\ \A i \in (n + 1)..Len(more) : more[i].kind = "decoded"
    BY DEF Appends
  <1> SUFFICES ASSUME NEW k \in 1..Len(out), out[k].kind \in Fill
               PROVE  /\ k > 1 /\ out[k - 1].kind \in Fill =>
                            out[k - 1].level <= out[k].level
                      /\ k > 7 /\ (\A j \in (k - 7)..k : out[j].kind \in Fill)
                            => out[k].level = Silent
    <2>1. DOMAIN output' = 1..Len(out)
      BY <1>1
    <2> QED
      BY <2>1 DEF RunsFade, IsFill
  <1>3. CASE k <= l
    <2>1. /\ k \in 1..l
          /\ k > 1 => k - 1 \in 1..l
          /\ k > 7 => \A j \in (k - 7)..k : j \in 1..l
      BY <1>1, <1>3
    <2>2. 1..l = DOMAIN output
      BY DEF Appends
    <2>3. output[k].kind \in Fill
      BY <1>1, <2>1
    <2>4. k > 1 /\ output[k - 1].kind \in Fill =>
             output[k - 1].level <= output[k].level
      BY <2>1, <2>2, <2>3 DEF RunsFade, IsFill
    <2>5. k > 7 /\ (\A j \in (k - 7)..k : output[j].kind \in Fill)
             => output[k].level = Silent
      BY <2>1, <2>2, <2>3 DEF RunsFade, IsFill
    <2> QED
      BY <1>1, <2>1, <2>4, <2>5
  <1>4. CASE k > l
    <2> PICK i : i = k - l
      OBVIOUS
    <2>1. i \in 1..Len(more) /\ out[k] = more[i]
      BY <1>1, <1>4
    <2>2. i \in 1..n
      <3>1. i \notin (n + 1)..Len(more)
        BY <1>2, <2>1 DEF Fill
      <3> QED
        BY <1>1, <1>2, <2>1, <3>1
    <2>3. /\ i > 1 /\ more[i - 1].kind \in Fill =>
                more[i - 1].level <= more[i].level
          /\ i = 1 /\ l > 0 /\ IsFill(l) => output[l].level <= more[1].level
          /\ i > 7 => more[i].level = Silent
          /\ i <= 7 /\ EndsWithFills(8 - i) => more[i].level = Silent
      BY <2>1, <2>2 DEF GoesDown
    <2>4. ASSUME k > 1, out[k - 1].kind \in Fill
          PROVE  out[k - 1].level <= out[k].level
      <3>1. CASE i > 1
        <4>1. out[k - 1] = more[i - 1]
          <5>1. k - 1 \in (l + 1)..(l + Len(more)) /\ k - 1 - l = i - 1
            BY <1>1, <2>1, <3>1
          <5> QED
            BY ONLY <1>1, <5>1
        <4> QED
          BY <2>1, <2>3, <2>4, <3>1, <4>1
      <3>2. CASE i = 1
        <4>1. k - 1 = l /\ l > 0 /\ l \in 1..l
          BY <1>1, <2>4, <3>2
        <4>2. out[k - 1] = output[l]
          BY <1>1, <4>1
        <4> QED
          BY <2>1, <2>3, <2>4, <3>2, <4>1, <4>2 DEF IsFill
      <3> QED
        BY <2>1, <3>1, <3>2
    <2>5. ASSUME k > 7, \A j \in (k - 7)..k : out[j].kind \in Fill
          PROVE  out[k].level = Silent
      <3>1. CASE i > 7
        BY <2>1, <2>3, <3>1
      <3>2. CASE i <= 7
        <4>1. 8 - i <= l
          BY <1>1, <2>1, <2>5, <3>2
        <4>2. ASSUME NEW j \in (l - (8 - i) + 1)..l
              PROVE  output[j].kind \in Fill
          <5>1. j \in 1..l /\ j \in (k - 7)..k
            BY <1>1, <2>1, <3>2, <4>1
          <5> QED
            BY <1>1, <2>5, <5>1
        <4>3. EndsWithFills(8 - i)
          BY <4>1, <4>2 DEF EndsWithFills, IsFill
        <4> QED
          BY <2>1, <2>3, <3>2, <4>3
      <3> QED
        BY <2>1, <3>1, <3>2
    <2> QED
      BY <2>4, <2>5
  <1> QED
    BY <1>1, <1>3, <1>4

LEMMA SourceGoesOn ==
    ASSUME FillIsFromLastFrame,
           NEW more, NEW n, Appends(more, n), IsCurrent(more, n)
    PROVE  FillIsFromLastFrame'
  <1> PICK l : l = Len(output)
    OBVIOUS
  <1> PICK out : out = output'
    OBVIOUS
  <1>1. /\ l \in Nat /\ Len(more) \in Nat
        /\ out \in Seq(Slot)
        /\ Len(out) = l + Len(more)
        /\ \A i \in 1..l : out[i] = output[i]
        /\ \A i \in (l + 1)..(l + Len(more)) :
              i - l \in 1..Len(more) /\ out[i] = more[i - l]
    BY Appended
  <1>2. n \in Nat /\ n <= Len(more)
        /\ \A i \in (n + 1)..Len(more) : more[i].kind = "decoded"
    BY DEF Appends
  <1> SUFFICES ASSUME NEW j \in 1..Len(out), NEW k \in 1..Len(out),
                      j < k,
                      out[j].kind = "decoded",
                      out[k].kind \in Fill \cup {"interpolated"},
                      \A i \in (j + 1)..(k - 1) : out[i].kind # "decoded"
               PROVE  out[k].content = out[j].content
    <2>1. DOMAIN output' = 1..Len(out)
      BY <1>1
    <2> QED
      BY <2>1 DEF FillIsFromLastFrame, IsFill
  <1>3. CASE k <= l
    <2>1. /\ j \in 1..l /\ k \in 1..l
          /\ \A i \in (j + 1)..(k - 1) : i \in 1..l
      BY <1>1, <1>3
    <2>2. 1..l = DOMAIN output
      BY DEF Appends
    <2>3. /\ output[j].kind = "decoded"
          /\ output[k].kind \in Fill \cup {"interpolated"}
          /\ \A i \in (j + 1)..(k - 1) : output[i].kind # "decoded"
      BY <1>1, <2>1
    <2>4. output[k].content = output[j].content
      BY <2>1, <2>2, <2>3 DEF FillIsFromLastFrame, IsFill
    <2> QED
      BY <1>1, <2>1, <2>4
  <1>4. CASE k > l
    <2> PICK i : i = k - l
      OBVIOUS
    <2>1. i \in 1..Len(more) /\ out[k] = more[i]
      BY <1>1, <1>4
    <2>2. i \in 1..n
      <3>1. i \notin (n + 1)..Len(more)
        BY <1>2, <2>1 DEF Fill
      <3> QED
        BY <1>1, <1>2, <2>1, <3>1
    <2>3. IsLatest(out[k].content)
      BY <2>1, <2>2 DEF IsCurrent
    <2>4. j <= l
      <3> SUFFICES ASSUME j > l
                   PROVE  FALSE
        BY <1>1
      <3>1. j \in (l + 1)..(l + Len(more)) /\ j - l \in 1..n
        <4>1. j \in Int /\ k \in Int /\ l \in Int /\ n \in Int
          BY <1>1, <1>2
        <4>2. k - l <= n /\ j < k /\ j > l /\ j <= l + Len(more)
          BY <1>1, <2>2
        <4> QED
          BY ONLY <1>1, <4>1, <4>2
      <3>2. out[j] = more[j - l]
        BY <1>1, <3>1
      <3> QED
        BY <3>1, <3>2 DEF IsCurrent
    <2>5. j \in 1..l /\ output[j].kind = "decoded" /\ out[j] = output[j]
      BY <1>1, <2>4
    <2>6. ASSUME NEW m \in (j + 1)..l
          PROVE  output[m].kind # "decoded"
      <3>1. m \in (j + 1)..(k - 1) /\ m \in 1..l
        BY <1>1, <1>4, <2>5
      <3> QED
        BY <1>1, <3>1
    <2>7. output[j].content = out[k].content
      BY <2>3, <2>5, <2>6 DEF IsLatest
    <2> QED
      BY <2>5, <2>7
  <1> QED
    BY <1>1, <1>3, <1>4

(* The first block fades in behind a fill, and has its layout. *)
Suits(fill, block) ==
    /\ Origin[block.content] = Origin[fill.content] => block.level > 0
    /\ fill.kind = "repeated" => Origin[block.content] = Origin[fill.content]

BlockSuits(more, n) ==
    n < Len(more) =>
        /\ n > 0 /\ more[n].kind \in Fill => Suits(more[n], more[n + 1])
        /\ n = 0 /\ Len(output) > 0 /\ IsFill(Len(output)) =>
              Suits(output[Len(output)], more[1])

LEMMA FilledSuits ==
    ASSUME Typed, EndsOpenly, NEW frame \in Frame, frame.fault = "none",
           NEW more, NEW n \in Nat,
           Blocked(more, n, frame), Filled(more, n, frame)
    PROVE  BlockSuits(more, n)
  <1>1. /\ frame.blocks \in Nat \ {0}
        /\ Origin[frame.content] = frame.cfg
    BY FrameIs
  <1>2. more[n + 1].content = frame.content /\ more \in Seq(Slot)
        /\ more[n + 1].level \in Nat
    <2>1. n + 1 \in (n + 1)..Len(more) /\ n + 1 \in 1..Len(more)
      BY <1>1 DEF Blocked
    <2>2. more[n + 1] \in Slot
      BY <2>1 DEF Blocked
    <2> QED
      BY <2>1, <2>2 DEF Blocked, Slot
  <1>3. pcm \in Contents => Origin[pcm] = dec.cfg
    BY DEF Typed, SameStream
  <1>4. HasReference(dec.path) => Origin[dec.path.ref] = dec.cfg
    BY DEF Typed, SameStream
  <1>5. ASSUME n > 0, more[n].kind \in Fill
        PROVE  Suits(more[n], more[n + 1])
    <2>1. n \in 1..n
      BY <1>5
    <2>2. CASE FromNothing(more, n)
      BY <1>5, <2>1, <2>2 DEF FromNothing, Silence, Fill
    <2>3. CASE Between(more, n)
      <3>1. more[n].kind = "interpolated"
        BY <2>3, SlotIs DEF Between
      <3> QED
        BY <1>5, <3>1 DEF Fill
    <2>4. CASE more[n + 1].level > 0 /\ FromSpectra(more, n, 0)
      <3>1. more[n].kind = "concealed"
        BY <2>1, <2>4, SlotIs DEF FromSpectra
      <3> QED
        BY <2>4, <3>1 DEF Suits
    <2>5. CASE frame.cfg = dec.cfg /\ more[n + 1].level > 0 /\ FromPcm(more, n)
      <3>1. more[n].content = pcm /\ pcm \in Contents
        BY <2>1, <2>5, SlotIs DEF FromPcm
      <3>2. Origin[more[n + 1].content] = Origin[more[n].content]
        BY <1>1, <1>2, <1>3, <2>5, <3>1
      <3> QED
        BY <2>5, <3>2 DEF Suits
    <2> QED
      BY <1>5, <2>2, <2>3, <2>4, <2>5 DEF Filled
  <1>6. ASSUME n = 0, Len(output) > 0, IsFill(Len(output))
        PROVE  Suits(output[Len(output)], more[1])
    <2>1. /\ output[Len(output)].kind = "concealed"
          /\ output[Len(output)].content = dec.path.ref
          /\ HasReference(dec.path) /\ dec.path.losses > 0
      BY <1>6 DEF EndsOpenly, IsFill, Fill
    <2>2. ASSUME Origin[more[1].content] = Origin[dec.path.ref]
          PROVE  more[1].level > 0
      <3>1. frame.cfg = dec.cfg
        BY <1>1, <1>2, <1>4, <1>6, <2>1, <2>2
      <3>2. more[1].level >= RecoveryFade(dec.path)
        BY <1>6, <3>1 DEF Filled
      <3>3. dec.path \in Path /\ dec.path.losses # 0
        BY <2>1 DEF Typed, TypeOK
      <3>4. RecoveryFade(dec.path) \in Nat /\ RecoveryFade(dec.path) > 0
        BY <3>3, FadeIsBounded DEF FadeInFrames
      <3>5. more[1].level \in Nat
        BY <1>2, <1>6
      <3> QED
        BY <3>2, <3>4, <3>5
    <2> QED
      BY <2>1, <2>2 DEF Suits
  <1> QED
    BY <1>5, <1>6 DEF BlockSuits

LEMMA BlocksGoOn ==
    ASSUME RecoveryFadesIn, RepeatedFitsFrame,
           NEW more, NEW n, Appends(more, n), BlockSuits(more, n),
           \A i \in 1..n : more[i].kind # "decoded"
    PROVE  RecoveryFadesIn' /\ RepeatedFitsFrame'
  <1> PICK l : l = Len(output)
    OBVIOUS
  <1> PICK out : out = output'
    OBVIOUS
  <1>1. /\ l \in Nat /\ Len(more) \in Nat
        /\ out \in Seq(Slot)
        /\ Len(out) = l + Len(more)
        /\ \A i \in 1..l : out[i] = output[i]
        /\ \A i \in (l + 1)..(l + Len(more)) :
              i - l \in 1..Len(more) /\ out[i] = more[i - l]
    BY Appended
  <1>2. n \in Nat /\ n <= Len(more)
        /\ \A i \in (n + 1)..Len(more) : more[i].kind = "decoded"
    BY DEF Appends
  <1>3. ASSUME NEW k \in 1..Len(out), k > 1,
               out[k - 1].kind \in Fill, out[k].kind = "decoded"
        PROVE  Suits(out[k - 1], out[k])
    <2>1. CASE k <= l
      <3>1. k \in 1..l /\ k - 1 \in 1..l
        BY <1>1, <1>3, <2>1
      <3>2. 1..l = DOMAIN output
        BY DEF Appends
      <3>3. output[k - 1].kind \in Fill /\ output[k].kind = "decoded"
        BY <1>1, <1>3, <3>1
      <3>4. Origin[output[k].content] = Origin[output[k - 1].content]
               => output[k].level > 0
        BY <1>3, <3>1, <3>2, <3>3 DEF RecoveryFadesIn, IsFill
      <3>5. output[k - 1].kind = "repeated"
               => Origin[output[k].content] = Origin[output[k - 1].content]
        BY <1>3, <3>1, <3>2, <3>3 DEF RepeatedFitsFrame
      <3> QED
        BY <1>1, <3>1, <3>4, <3>5 DEF Suits
    <2>2. CASE k > l
      <3> PICK i : i = k - l
        OBVIOUS
      <3>1. i \in 1..Len(more) /\ out[k] = more[i]
        BY <1>1, <2>2
      <3>2. i > n
        <4>1. i \notin 1..n
          BY <1>3, <3>1
        <4> QED
          BY <1>2, <3>1, <4>1
      <3>3. CASE i = 1
        <4>1. n = 0 /\ n < Len(more) /\ k - 1 = l /\ l > 0 /\ l \in 1..l
          BY <1>1, <1>2, <1>3, <3>1, <3>2, <3>3
        <4>2. out[k - 1] = output[l]
          BY <1>1, <4>1
        <4>3. IsFill(l)
          BY <1>3, <4>2 DEF IsFill
        <4> QED
          BY <3>1, <3>3, <4>1, <4>2, <4>3 DEF BlockSuits
      <3>4. CASE i # 1
        <4>1. k - 1 \in (l + 1)..(l + Len(more)) /\ k - 1 - l = i - 1
              /\ i - 1 \in 1..Len(more)
          BY <1>1, <3>1, <3>4
        <4>2. out[k - 1] = more[i - 1]
          BY ONLY <1>1, <4>1
        <4>3. i - 1 \notin (n + 1)..Len(more)
          BY <1>2, <1>3, <4>2 DEF Fill
        <4>4. i - 1 = n /\ n > 0 /\ n < Len(more) /\ i = n + 1
          <5>1. n \in Nat /\ Len(more) \in Nat
            BY <1>1, <1>2
          <5>2. i \in 1..Len(more) /\ i - 1 \in 1..Len(more)
            BY <3>1, <4>1
          <5> QED
            BY ONLY <3>2, <4>3, <5>1, <5>2
        <4> QED
          BY <1>3, <3>1, <4>2, <4>4 DEF BlockSuits
      <3> QED
        BY <3>3, <3>4
    <2> QED
      BY <1>1, <2>1, <2>2
  <1>4. DOMAIN output' = 1..Len(out)
    BY <1>1
  <1>5. RecoveryFadesIn'
    BY <1>3, <1>4 DEF RecoveryFadesIn, IsFill, Suits
  <1>6. RepeatedFitsFrame'
    BY <1>3, <1>4 DEF RepeatedFitsFrame, Fill, Suits
  <1> QED
    BY <1>5, <1>6

-----------------------------------------------------------------------------
(* The invariants *)

Rules ==
    /\ UsizeMax > FadeOutLosses => RunsFade
    /\ FillIsFromLastFrame
    /\ RecoveryFadesIn
    /\ RepeatedFitsFrame

InCall == SourceIsLatest /\ EndsOpenly /\ EndIsCounted /\ Rules

(* Nothing has been returned. *)
LEMMA EmptyCall == output = <<>> => InCall
  BY DEF InCall, SourceIsLatest, IsLatest, EndsOpenly, EndIsCounted,
         EndsWithFills, Silent, Rules, RunsFade, FillIsFromLastFrame,
         RecoveryFadesIn, RepeatedFitsFrame

LEMMA GoodCall ==
    ASSUME Typed, InCall, NEW frame \in Frame, frame.fault = "none",
           NEW n \in Nat, NEW more \in Seq(Slot), GoodStep(n, more, frame)
    PROVE  InCall'
  <1>1. /\ frame.blocks \in Nat \ {0} /\ frame.content \in Contents
    BY FrameIs
  <1>2. /\ Len(more) = n + frame.blocks
        /\ \A i \in (n + 1)..Len(more) :
              more[i].kind = "decoded" /\ more[i].content = frame.content
    BY DEF GoodStep, Blocked
  <1>3. Appends(more, n)
    BY <1>1, <1>2 DEF Appends, GoodStep, Typed
  <1>4. GoesDown(more, n) /\ IsCurrent(more, n)
    <2>1. Filled(more, n, frame)
      BY DEF GoodStep
    <2>2. SourceIsLatest /\ EndsOpenly /\ EndIsCounted
      BY DEF InCall
    <2> QED
      BY ONLY <2>1, <2>2, FilledFills, Typed, more \in Seq(Slot), n \in Nat
  <1>5. BlockSuits(more, n)
    BY FilledSuits DEF InCall, GoodStep
  <1>6. Rules'
    <2>1. UsizeMax > FadeOutLosses => RunsFade'
      BY <1>3, <1>4, RunsFadeOn DEF InCall, Rules
    <2>2. FillIsFromLastFrame'
      BY <1>3, <1>4, SourceGoesOn DEF InCall, Rules
    <2>3. RecoveryFadesIn' /\ RepeatedFitsFrame'
      <3>1. \A i \in 1..n : more[i].kind # "decoded"
        BY <1>4 DEF IsCurrent
      <3>2. RecoveryFadesIn /\ RepeatedFitsFrame
        BY DEF InCall, Rules
      <3> QED
        BY ONLY <1>3, <1>5, <3>1, <3>2, BlocksGoOn
    <2> QED
      BY <2>1, <2>2, <2>3 DEF Rules
  <1> PICK l : l = Len(output)
    OBVIOUS
  <1> PICK out : out = output'
    OBVIOUS
  <1>7. /\ l \in Nat /\ Len(more) \in Nat
        /\ out \in Seq(Slot)
        /\ Len(out) = l + Len(more)
        /\ \A i \in 1..l : out[i] = output[i]
        /\ \A i \in (l + 1)..(l + Len(more)) :
              i - l \in 1..Len(more) /\ out[i] = more[i - l]
    BY <1>3, Appended
  <1>8. ASSUME NEW i \in (l + n + 1)..Len(out)
        PROVE  out[i].kind = "decoded" /\ out[i].content = frame.content
    <2>1. i \in (l + 1)..(l + Len(more)) /\ i - l \in (n + 1)..Len(more)
      BY <1>7
    <2>2. out[i] = more[i - l]
      BY <1>7, <2>1
    <2> QED
      BY <1>2, <2>1, <2>2
  <1>9. Len(out) \in (l + n + 1)..Len(out) /\ Len(out) > 0
    BY <1>1, <1>2, <1>7
  <1>10. EndsOpenly'
    BY <1>8, <1>9 DEF EndsOpenly
  <1>11. EndIsCounted'
    <2>1. ASSUME NEW m \in 1..Silent
          PROVE  ~EndsWithFills(m)'
      <3>1. Len(out) \in (Len(out) - m + 1)..Len(out)
        BY <1>9 DEF Silent
      <3>2. out[Len(out)].kind \notin Fill
        BY <1>8, <1>9 DEF Fill
      <3> QED
        BY <3>1, <3>2 DEF EndsWithFills, IsFill
    <2> QED
      BY <2>1 DEF EndIsCounted
  <1>12. IsLatest(frame.content)'
    <2>1. ASSUME NEW j \in 1..Len(out), out[j].kind = "decoded",
                 \A i \in (j + 1)..Len(out) : out[i].kind # "decoded"
          PROVE  out[j].content = frame.content
      <3>1. Len(out) \notin (j + 1)..Len(out)
        BY <1>8, <1>9, <2>1
      <3>2. j = Len(out)
        BY <1>7, <3>1
      <3> QED
        BY <1>8, <1>9, <3>2
    <2> QED
      BY <2>1 DEF IsLatest
  <1>13. SourceIsLatest'
    <2>1. dec'.path.ref = frame.content
      BY DEF GoodStep
    <2>2. pcm' \in Contents /\ (format' = "f32" \/ ~spectral') =>
             pcm' = frame.content
      <3>1. "off" \notin Contents
        BY OffAssumption
      <3>2. /\ pcm' = HeldAfter(ConfiguredPcm(frame), frame)
            /\ format' = format /\ spectral' = spectral
        BY DEF GoodStep, Kept
      <3> QED
        BY <3>1, <3>2 DEF HeldAfter
    <2> QED
      BY <1>12, <2>1, <2>2 DEF SourceIsLatest
  <1> QED
    BY <1>6, <1>10, <1>11, <1>13 DEF InCall

LEMMA ConcealCall ==
    ASSUME Typed, InCall, NEW n \in Nat \ {0}, NEW dropped \in Nat,
           NEW more \in Seq(Slot), ConcealStep(n, dropped, more)
    PROVE  InCall'
  <1> PICK p : p = dec.path
    OBVIOUS
  <1> PICK q : q = dec'.path
    OBVIOUS
  <1>1. p \in Path /\ p.losses \in Nat /\ UsizeMax \in Nat
    BY UsizeAssumption DEF Typed, TypeOK, Path
  <1>2. /\ Len(more) = n
        /\ FromSpectra(more, n, dropped)
        /\ q \in Path /\ q.ref = p.ref
        /\ q.losses = LeastOf(p.losses + (dropped + n), UsizeMax)
        /\ pcm' = pcm /\ spectral' = spectral /\ user' = user
        /\ format' = format
    BY DEF ConcealStep, Kept
  <1>3. \A i \in 1..n :
           /\ more[i].kind = "concealed"
           /\ more[i].content = p.ref
           /\ more[i].level = LevelOf(Concealed(p, dropped + (i - 1)))
    BY <1>2, SlotIs DEF FromSpectra, LevelOf
  <1>4. Appends(more, n)
    BY <1>2 DEF Appends, ConcealStep, Typed
  <1>5. GoesDown(more, n)
    <2>1. n \in Nat /\ EndsOpenly /\ EndIsCounted
      BY DEF InCall
    <2> QED
      BY ONLY <1>2, <2>1, SpectraGoDown, Typed, more \in Seq(Slot),
              dropped \in Nat
  <1>6. IsCurrent(more, n)
    <2>1. IsLatest(p.ref)
      BY DEF InCall, SourceIsLatest
    <2> QED
      BY <1>3, <2>1 DEF IsCurrent
  <1>7. Rules'
    <2>1. BlockSuits(more, n)
      BY <1>2 DEF BlockSuits
    <2>2. UsizeMax > FadeOutLosses => RunsFade'
      BY <1>4, <1>5, RunsFadeOn DEF InCall, Rules
    <2>3. FillIsFromLastFrame'
      BY <1>4, <1>6, SourceGoesOn DEF InCall, Rules
    <2>4. RecoveryFadesIn' /\ RepeatedFitsFrame'
      <3>1. \A i \in 1..n : more[i].kind # "decoded"
        BY <1>3
      <3>2. RecoveryFadesIn /\ RepeatedFitsFrame
        BY DEF InCall, Rules
      <3> QED
        BY ONLY <1>4, <2>1, <3>1, <3>2, BlocksGoOn
    <2> QED
      BY <2>2, <2>3, <2>4 DEF Rules
  <1> PICK l : l = Len(output)
    OBVIOUS
  <1> PICK out : out = output'
    OBVIOUS
  <1>8. /\ l \in Nat
        /\ out \in Seq(Slot)
        /\ Len(out) = l + n
        /\ \A i \in 1..l : out[i] = output[i]
        /\ \A i \in (l + 1)..(l + n) :
              i - l \in 1..n /\ out[i] = more[i - l]
    BY <1>2, <1>4, Appended
  <1>9. EndsOpenly'
    <2>1. out[Len(out)] = more[n]
      <3>1. l + n \in (l + 1)..(l + n) /\ l + n - l = n
        BY <1>8
      <3> QED
        BY ONLY <1>8, <3>1
    <2>2. /\ more[n].kind = "concealed" /\ more[n].content = p.ref
          /\ more[n].level = LevelOf(Concealed(p, dropped + (n - 1)))
      <3>1. n \in 1..n
        OBVIOUS
      <3> QED
        BY ONLY <1>3, <3>1
    <2>3. LevelOf(Concealed(p, dropped + (n - 1)))
             <= LevelOf(Concealed(p, dropped + n))
      <3>1. /\ dropped + (n - 1) \in Nat /\ dropped + n \in Nat
            /\ dropped + (n - 1) <= dropped + n
        OBVIOUS
      <3> QED
        BY ONLY <1>1, <3>1, LevelsRise
    <2>4. LevelOf(Concealed(p, dropped + n)) = ConcealedLevel(dec.path, Mute)'
      <3>1. ConcealedLevel(dec.path, Mute)'
               = IF Mute THEN Silent ELSE LossLevel(q.losses)
        BY <1>2 DEF ConcealedLevel, Mute
      <3>2. dropped + n \in Nat
        OBVIOUS
      <3>3. LevelOf(Concealed(p, dropped + n))
               = IF Mute THEN Silent
                 ELSE LossLevel(LeastOf(p.losses + (dropped + n), UsizeMax))
        BY <1>1, <3>2, ConcealedKeeps DEF LevelOf
      <3> QED
        BY <1>2, <3>1, <3>3
    <2>5. q.losses > 0
      BY <1>1, <1>2, UsizeAssumption DEF LeastOf
    <2>6. spectral' /\ HasReference(dec.path)'
      BY <1>2 DEF FromSpectra, HasReference
    <2>7. output'[Len(output')].level <= ConcealedLevel(dec.path, Mute)'
      BY <2>1, <2>2, <2>3, <2>4
    <2> QED
      BY <1>2, <2>1, <2>2, <2>5, <2>6, <2>7 DEF EndsOpenly
  <1>10. EndIsCounted'
    <2> SUFFICES ASSUME UsizeMax > FadeOutLosses,
                        NEW m \in 1..Silent, EndsWithFills(m)'
                 PROVE  q.losses >= m
      BY DEF EndIsCounted
    <2>1. CASE m <= n
      BY <1>1, <1>2, <2>1 DEF LeastOf, Silent, FadeOutLosses
    <2>2. CASE m > n
      <3>1. m - n \in 1..Silent /\ m <= l + n /\ m - n <= l
        BY <1>8, <2>2 DEF EndsWithFills, Silent
      <3>2. ASSUME NEW j \in (l - (m - n) + 1)..l
            PROVE  IsFill(j)
        <4>1. j \in 1..l /\ j \in (Len(out) - m + 1)..Len(out)
          BY <1>8, <3>1
        <4>2. out[j].kind \in Fill
          BY <4>1 DEF EndsWithFills, IsFill
        <4> QED
          BY <1>8, <4>1, <4>2 DEF IsFill
      <3>3. EndsWithFills(m - n)
        BY <3>1, <3>2 DEF EndsWithFills
      <3>4. p.losses >= m - n
        BY <3>1, <3>3 DEF InCall, EndIsCounted
      <3> QED
        BY <1>1, <1>2, <3>1, <3>4 DEF LeastOf, Silent, FadeOutLosses
    <2> QED
      BY <2>1, <2>2
  <1>11. SourceIsLatest'
    <2>1. ASSUME NEW c, IsLatest(c)
          PROVE  IsLatest(c)'
      <3> SUFFICES ASSUME NEW j \in 1..Len(out), out[j].kind = "decoded",
                          \A i \in (j + 1)..Len(out) : out[i].kind # "decoded"
                   PROVE  out[j].content = c
        BY DEF IsLatest
      <3>1. j \in 1..l
        <4> SUFFICES ASSUME j \notin 1..l
                     PROVE  FALSE
          OBVIOUS
        <4>1. j \in (l + 1)..(l + n)
          BY <1>8
        <4>2. out[j].kind = "concealed"
          BY <1>3, <1>8, <4>1
        <4> QED
          BY <4>2
      <3>2. output[j].kind = "decoded" /\ out[j] = output[j]
        BY <1>8, <3>1
      <3>3. ASSUME NEW i \in (j + 1)..l
            PROVE  output[i].kind # "decoded"
        <4>1. i \in 1..l /\ i \in (j + 1)..Len(out)
          BY <1>8, <3>1
        <4> QED
          BY <1>8, <4>1
      <3> QED
        BY <2>1, <3>1, <3>2, <3>3 DEF IsLatest
    <2>2. IsLatest(p.ref)'
      BY <2>1 DEF InCall, SourceIsLatest
    <2>3. ASSUME pcm' \in Contents, format' = "f32" \/ ~spectral'
          PROVE  IsLatest(pcm)'
      <3> PICK c : c = pcm
        OBVIOUS
      <3>1. IsLatest(c)
        BY <1>2, <2>3 DEF InCall, SourceIsLatest
      <3>2. IsLatest(c)'
        BY ONLY <2>1, <3>1
      <3> QED
        BY <1>2, <3>2 DEF IsLatest
    <2>4. IsLatest(dec.path.ref)'
      BY <1>2, <2>2 DEF IsLatest
    <2> QED
      BY <2>3, <2>4 DEF SourceIsLatest
  <1> QED
    BY <1>7, <1>9, <1>10, <1>11 DEF InCall

-----------------------------------------------------------------------------
(* While a call has not failed, every access unit that passed has its      *)
(* frame.                                                                  *)
FilledSoFar ==
    /\ call # "failed"
    /\ Fills
    /\ format = "i16" \/ ~spectral
    => Len(output) = due

IInv == Typed /\ InCall /\ FilledSoFar /\ EstimateIsNearest

(* The calls between drains. *)
Resets ==
    /\ output' = <<>> /\ due' = 0 /\ drift' = 0 /\ slack' = 0 /\ count' = 0
    /\ call' \in {"draining", "returned"}
    /\ pcm' \in {pcm, NoContent, "off"}
    /\ spectral' \in BOOLEAN /\ estimates' \in BOOLEAN
    /\ user' \in Methods \cup {"energy"}
    /\ UNCHANGED <<dec, format>>

LEMMA CallsReset ==
    ASSUME TypeOK,
           \/ StartDrain \/ SetAverageBitrate \/ EnablePcm \/ DisablePcm
           \/ EnableSpectral \/ DisableSpectral
           \/ \E method \in Methods : SetConcealMethod(method)
    PROVE  Resets
  BY DEF Resets, StartDrain, Configuring, SetAverageBitrate, EnablePcm,
         DisablePcm, EnableSpectral, DisableSpectral, SetConcealMethod, TypeOK

LEMMA ResetHolds == IInv /\ Resets => IInv'
  <1> SUFFICES ASSUME IInv, Resets
               PROVE  IInv'
    OBVIOUS
  <1>1. output' = <<>>
    BY DEF Resets
  <1>2. InCall'
    <2>1. (output = <<>> => InCall)'
      BY EmptyCall, PTL
    <2> QED
      BY <1>1, <2>1
  <1>3. TypeOK'
    BY DrainAssumption DEF IInv, Typed, TypeOK, Resets
  <1>4. SameStream'
    <2>1. NoContent \notin Contents /\ "off" \notin Contents
      BY ContentAssumption, OffAssumption
    <2> QED
      BY <2>1 DEF IInv, Typed, SameStream, Resets
  <1>5. Typed'
    BY <1>1, <1>3, <1>4 DEF Typed
  <1>6. FilledSoFar'
    BY DEF FilledSoFar, Resets
  <1>7. EstimateIsNearest'
    BY DrainAssumption DEF EstimateIsNearest, Resets
  <1> QED
    BY <1>2, <1>5, <1>6, <1>7 DEF IInv

(* A call that fails returns nothing. *)
LEMMA FailHolds ==
    ASSUME IInv, Fail, Draining,
           dec' \in [cfg : Configs, path : Path],
           pcm' \in {"off", NoContent} \cup Contents,
           SameStream', drift' \in Int, slack' \in Nat, EstimateIsNearest'
    PROVE  IInv'
  <1>1. output' = <<>> /\ call' = "failed" /\ due' = due
    BY DEF Fail
  <1>2. InCall'
    <2>1. (output = <<>> => InCall)'
      BY EmptyCall, PTL
    <2> QED
      BY <1>1, <2>1
  <1>3. count' \in 0..FrameBound
    BY DrainAssumption DEF Draining, IInv, Typed, TypeOK
  <1>4. TypeOK'
    BY <1>1, <1>3 DEF IInv, Typed, TypeOK, Draining
  <1> QED
    BY <1>1, <1>2, <1>4 DEF IInv, Typed, FilledSoFar

(* A frame moves the drift by what it adds to the slack at most. *)
LEMMA DriftHolds ==
    ASSUME IInv, NEW gap \in Gaps, NEW frame \in Frame,
           Drift(gap, frame, Estimate(gap, frame.bytes))
    PROVE  drift' \in Int /\ slack' \in Nat /\ EstimateIsNearest'
  <1> PICK lost : lost = Estimate(gap, frame.bytes)
    OBVIOUS
  <1>1. /\ lost \in Nat /\ AuBytes \in Nat /\ gap \in Nat
        /\ Deviation(frame) \in Nat
        /\ gap # 0 /\ estimates =>
              /\ 2 * (gap - AuBytes * lost) <= AuBytes + 2 * Deviation(frame)
              /\ -(2 * (gap - AuBytes * lost)) <= AuBytes + 2 * Deviation(frame)
    BY EstimateIs DEF IInv, Typed, TypeOK
  <1>2. /\ drift \in Int /\ slack \in Nat
        /\ 2 * drift <= slack /\ -(2 * drift) <= slack
    BY DEF IInv, Typed, TypeOK, EstimateIsNearest
  <1>3. CASE gap = 0 \/ ~estimates
    BY <1>2, <1>3 DEF Drift, EstimateIsNearest
  <1>4. CASE gap # 0 /\ estimates
    <2> PICK x \in Int : x = gap - AuBytes * lost
      BY <1>1
    <2> PICK y \in Nat : y = AuBytes + 2 * Deviation(frame)
      BY <1>1
    <2>1. 2 * x <= y /\ -(2 * x) <= y
      BY <1>1, <1>4
    <2>2. drift' = drift + x /\ slack' = slack + y
      BY <1>1, <1>2, <1>4 DEF Drift
    <2> QED
      BY <1>2, <2>1, <2>2 DEF EstimateIsNearest
  <1> QED
    BY <1>3, <1>4

LEMMA GoodHolds ==
    ASSUME IInv, NEW gap \in Gaps, NEW frame \in Frame, DrainGood(gap, frame)
    PROVE  IInv'
  <1> PICK lost : lost = Estimate(gap, frame.bytes)
    OBVIOUS
  <1>1. /\ Draining /\ frame.fault = "none"
        /\ Drift(gap, frame, lost)
    BY DEF DrainGood
  <1>2. drift' \in Int /\ slack' \in Nat /\ EstimateIsNearest'
    BY <1>1, DriftHolds
  <1>3. lost \in Nat
    BY EstimateIs DEF IInv, Typed, TypeOK
  <1>4. /\ frame.blocks \in Nat \ {0} /\ frame.content \in Contents
        /\ Origin[frame.content] = frame.cfg
    BY <1>1, FrameIs
  <1>5. PICK n \in Nat, more \in Seq(Slot) :
              /\ GoodStep(n, more, frame)
              /\ FillsAll(n, lost)
              /\ due' = due + (lost + frame.blocks)
              /\ UNCHANGED call
    BY GoodSteps DEF IInv
  <1>6. /\ output' \in Seq(Slot)
        /\ Len(output) \in Nat
        /\ Len(output') = Len(output) + (n + frame.blocks)
    <2>1. Len(more) = n + frame.blocks
      BY <1>5 DEF GoodStep, Blocked
    <2>2. output' = output \o more /\ output \in Seq(Slot)
      BY <1>5 DEF GoodStep, IInv, Typed
    <2>3. /\ output' \in Seq(Slot) /\ Len(output) \in Nat
          /\ Len(output') = Len(output) + Len(more)
      BY ONLY <2>2, JoinIs, more \in Seq(Slot)
    <2> QED
      BY ONLY <2>1, <2>3
  <1>7. InCall'
    BY <1>1, <1>5, GoodCall DEF IInv
  <1>8. /\ pcm' \in {"off", NoContent} \cup Contents
        /\ pcm' = "off" <=> pcm = "off"
        /\ pcm' \in Contents => Origin[pcm'] = frame.cfg
    <2> PICK held : held = ConfiguredPcm(frame)
      OBVIOUS
    <2>1. /\ held \in {"off", NoContent} \cup Contents
          /\ held = "off" <=> pcm = "off"
          /\ held \in Contents => frame.cfg = dec.cfg /\ held = pcm
      BY ConfiguredIs DEF IInv, Typed
    <2>2. pcm' = held \/ (held # "off" /\ pcm' = frame.content)
      BY <1>5 DEF GoodStep, HeldAfter
    <2>3. frame.content # "off"
      BY <1>4, ContentIsNoMark
    <2>4. pcm \in Contents => Origin[pcm] = dec.cfg
      BY DEF IInv, Typed, SameStream
    <2> QED
      BY <1>4, <2>1, <2>2, <2>3, <2>4
  <1>9. SameStream'
    BY <1>4, <1>5, <1>8 DEF SameStream, GoodStep
  <1>10. TypeOK'
    <2>1. count' \in 0..FrameBound /\ due' \in Nat
      <3>1. count < FrameBound /\ count' = count + 1
        BY <1>1 DEF Draining
      <3>2. count \in 0..FrameBound /\ due \in Nat /\ FrameBound \in Nat
        BY DrainAssumption DEF IInv, Typed, TypeOK
      <3>3. due' = due + (lost + frame.blocks)
        BY <1>5
      <3> QED
        BY ONLY <1>3, <1>4, <3>1, <3>2, <3>3
    <2>2. \A k \in DOMAIN output' : output'[k] \in Slot
      BY <1>6
    <2>3. dec' \in [cfg : Configs, path : Path]
      BY <1>5 DEF GoodStep
    <2> QED
      BY <1>1, <1>2, <1>5, <1>8, <2>1, <2>2, <2>3
      DEF IInv, Typed, TypeOK, Draining
  <1>11. FilledSoFar'
    <2> SUFFICES ASSUME call' # "failed", Fills',
                        format' = "i16" \/ ~spectral'
                 PROVE  Len(output') = due'
      BY DEF FilledSoFar
    <2>1. /\ call # "failed" /\ Fills
          /\ format = "i16" \/ ~spectral
      BY <1>5, <1>8 DEF Fills, GoodStep, Kept
    <2>2. n = lost
      BY <1>5, <2>1 DEF FillsAll
    <2>3. Len(output) = due
      BY <2>1 DEF IInv, FilledSoFar
    <2> QED
      BY <1>3, <1>4, <1>5, <1>6, <2>2, <2>3
  <1> QED
    BY <1>2, <1>6, <1>7, <1>9, <1>10, <1>11 DEF IInv, Typed

LEMMA CorruptHolds ==
    ASSUME IInv, NEW gap \in Gaps, NEW frame \in Frame,
           DrainCorrupt(gap, frame)
    PROVE  IInv'
  <1> PICK lost : lost = Estimate(gap, frame.bytes)
    OBVIOUS
  <1>1. Draining /\ Drift(gap, frame, lost)
    BY DEF DrainCorrupt
  <1>2. drift' \in Int /\ slack' \in Nat /\ EstimateIsNearest'
    BY <1>1, DriftHolds
  <1>3. lost \in Nat
    BY EstimateIs DEF IInv, Typed, TypeOK
  <1>4. frame.blocks \in Nat \ {0}
    BY FrameIs
  <1>5. CASE /\ Fail
             /\ dec' \in [cfg : Configs, path : Path]
             /\ pcm' \in {"off", NoContent} \cup Contents
             /\ SameStream'
    BY <1>1, <1>2, <1>5, FailHolds
  <1>6. CASE /\ \E n \in Nat \ {0}, dropped \in Nat, more \in Seq(Slot) :
                   /\ ConcealStep(n, dropped, more)
                   /\ format = "i16" => n = lost + frame.blocks
             /\ due' = due + (lost + frame.blocks)
             /\ UNCHANGED call
    <2>1. PICK n \in Nat \ {0}, dropped \in Nat, more \in Seq(Slot) :
                   /\ ConcealStep(n, dropped, more)
                   /\ format = "i16" => n = lost + frame.blocks
      BY <1>6
    <2>2. /\ output' \in Seq(Slot)
          /\ Len(output) \in Nat
          /\ Len(output') = Len(output) + n
      <3>1. Len(more) = n /\ output' = output \o more /\ output \in Seq(Slot)
        BY <2>1 DEF ConcealStep, IInv, Typed
      <3>2. /\ output' \in Seq(Slot) /\ Len(output) \in Nat
            /\ Len(output') = Len(output) + Len(more)
        BY ONLY <3>1, JoinIs, more \in Seq(Slot)
      <3> QED
        BY ONLY <3>1, <3>2
    <2>3. InCall'
      BY <2>1, ConcealCall DEF IInv
    <2>4. /\ dec' \in [cfg : Configs, path : Path] /\ dec'.cfg = dec.cfg
          /\ dec'.path.ref = dec.path.ref /\ pcm' = pcm
          /\ spectral' = spectral /\ user' = user /\ format' = format
      BY <2>1 DEF ConcealStep, Kept
    <2>5. SameStream'
      BY <2>4 DEF IInv, Typed, SameStream, HasReference
    <2>6. TypeOK'
      <3>1. count' \in 0..FrameBound /\ due' \in Nat
        <4>1. count < FrameBound /\ count' = count + 1
          BY <1>1 DEF Draining
        <4>2. count \in 0..FrameBound /\ due \in Nat /\ FrameBound \in Nat
          BY DrainAssumption DEF IInv, Typed, TypeOK
        <4>3. due' = due + (lost + frame.blocks)
          BY <1>6
        <4> QED
          BY ONLY <1>3, <1>4, <4>1, <4>2, <4>3
      <3>2. \A k \in DOMAIN output' : output'[k] \in Slot
        BY <2>2
      <3> QED
        BY <1>1, <1>2, <1>6, <2>4, <3>1, <3>2
        DEF IInv, Typed, TypeOK, Draining
    <2>7. FilledSoFar'
      <3> SUFFICES ASSUME call' # "failed", Fills',
                          format' = "i16" \/ ~spectral'
                   PROVE  Len(output') = due'
        BY DEF FilledSoFar
      <3>1. spectral
        BY <2>1 DEF ConcealStep, FromSpectra
      <3>2. /\ call # "failed" /\ Fills /\ format = "i16"
        BY <1>6, <2>4, <3>1 DEF Fills
      <3>3. Len(output) = due
        BY <3>2 DEF IInv, FilledSoFar
      <3> QED
        BY <1>3, <1>4, <1>6, <2>1, <2>2, <3>2, <3>3
    <2> QED
      BY <1>2, <2>2, <2>3, <2>5, <2>6, <2>7 DEF IInv, Typed
  <1> QED
    BY <1>5, <1>6, CorruptSteps DEF IInv

LEMMA RejectHolds ==
    ASSUME IInv, NEW frame \in Frame, RejectConfig(frame)
    PROVE  IInv'
  <1>1. Draining /\ Fail /\ UNCHANGED <<dec, pcm, drift, slack>>
    BY DEF RejectConfig
  <1>2. EstimateIsNearest'
    BY <1>1 DEF IInv, EstimateIsNearest
  <1>3. SameStream'
    BY <1>1 DEF IInv, Typed, SameStream, HasReference
  <1>4. /\ dec' \in [cfg : Configs, path : Path]
        /\ pcm' \in {"off", NoContent} \cup Contents
        /\ drift' \in Int /\ slack' \in Nat
    BY <1>1 DEF IInv, Typed, TypeOK
  <1> QED
    BY <1>1, <1>2, <1>3, <1>4, FailHolds

LEMMA InitHolds == Init => IInv
  <1> SUFFICES ASSUME Init
               PROVE  IInv
    OBVIOUS
  <1>1. PICK c \in Configs : dec = FreshDecoder(c)
    BY DEF Init
  <1>2. FreshPath \in Path /\ ~HasReference(FreshPath)
    BY UsizeAssumption DEF FreshPath, Path, States, HasReference, FadeInFrames
  <1>3. InCall
    BY EmptyCall DEF Init
  <1>4. TypeOK
    <2>1. dec \in [cfg : Configs, path : Path]
      BY <1>1, <1>2 DEF FreshDecoder
    <2>2. /\ pcm = "off" /\ spectral = FALSE /\ estimates = FALSE
          /\ user = "energy" /\ format \in Formats /\ call = "returned"
          /\ count = 0 /\ output = <<>> /\ due = 0 /\ drift = 0 /\ slack = 0
      BY DEF Init
    <2>3. \A k \in DOMAIN output : output[k] \in Slot
      BY <2>2
    <2>4. /\ count \in 0..FrameBound /\ due \in Nat /\ drift \in Int
          /\ slack \in Nat
      BY <2>2, DrainAssumption
    <2>5. spectral \in BOOLEAN /\ estimates \in BOOLEAN
      BY <2>2
    <2>6. /\ pcm \in {"off", NoContent} \cup Contents
          /\ user \in Methods \cup {"energy"}
          /\ format \in Formats
          /\ call \in {"draining", "returned", "failed"}
      BY <2>2
    <2> QED
      BY ONLY <2>1, <2>3, <2>4, <2>5, <2>6 DEF TypeOK
  <1>5. SameStream
    BY <1>1, <1>2, OffAssumption DEF Init, SameStream, FreshDecoder
  <1>6. FilledSoFar /\ EstimateIsNearest
    BY DrainAssumption DEF Init, FilledSoFar, EstimateIsNearest
  <1>7. output \in Seq(Slot)
    BY DEF Init
  <1> QED
    BY <1>3, <1>4, <1>5, <1>6, <1>7 DEF IInv, Typed

LEMMA StutterHolds ==
    ASSUME IInv,
           UNCHANGED <<dec, pcm, spectral, estimates, user, format, count,
                       output, due, drift, slack>>,
           call' = call \/ (call # "failed" /\ call' = "returned")
    PROVE  IInv'
  <1>1. TypeOK'
    BY DEF IInv, Typed, TypeOK
  <1>2. Typed'
    BY <1>1 DEF IInv, Typed, SameStream, HasReference
  <1>3. InCall'
    <2>1. /\ dec' = dec /\ pcm' = pcm /\ spectral' = spectral
          /\ user' = user /\ format' = format /\ output' = output
      OBVIOUS
    <2>2. SourceIsLatest'
      BY ONLY <2>1, IInv DEF IInv, InCall, SourceIsLatest, IsLatest
    <2>3. EndsOpenly'
      BY ONLY <2>1, IInv
      DEF IInv, InCall, EndsOpenly, HasReference, Mute, ConcealedLevel
    <2>4. EndIsCounted'
      BY ONLY <2>1, IInv
      DEF IInv, InCall, EndIsCounted, EndsWithFills, IsFill
    <2>5. RunsFade => RunsFade'
      BY ONLY <2>1 DEF RunsFade, IsFill
    <2>6. FillIsFromLastFrame => FillIsFromLastFrame'
      BY ONLY <2>1 DEF FillIsFromLastFrame, IsFill
    <2>7. RecoveryFadesIn => RecoveryFadesIn'
      BY ONLY <2>1 DEF RecoveryFadesIn, IsFill
    <2>8. RepeatedFitsFrame => RepeatedFitsFrame'
      BY ONLY <2>1 DEF RepeatedFitsFrame
    <2> QED
      BY <2>2, <2>3, <2>4, <2>5, <2>6, <2>7, <2>8 DEF IInv, InCall, Rules
  <1>4. FilledSoFar' /\ EstimateIsNearest'
    BY DEF IInv, FilledSoFar, EstimateIsNearest, Fills
  <1> QED
    BY <1>2, <1>3, <1>4 DEF IInv

LEMMA StepHolds == IInv /\ [Next]_vars => IInv'
  <1> SUFFICES ASSUME IInv, [Next]_vars
               PROVE  IInv'
    OBVIOUS
  <1>1. CASE \/ StartDrain \/ SetAverageBitrate \/ EnablePcm \/ DisablePcm
             \/ EnableSpectral \/ DisableSpectral
             \/ \E method \in Methods : SetConcealMethod(method)
    BY <1>1, CallsReset, ResetHolds DEF IInv, Typed
  <1>2. ASSUME NEW frame \in Frame, RejectConfig(frame)
        PROVE  IInv'
    BY <1>2, RejectHolds
  <1>3. ASSUME NEW frame \in Frame, NEW gap \in Gaps, DrainGood(gap, frame)
        PROVE  IInv'
    BY <1>3, GoodHolds
  <1>4. ASSUME NEW frame \in Frame, NEW gap \in Gaps, DrainCorrupt(gap, frame)
        PROVE  IInv'
    BY <1>4, CorruptHolds
  <1>5. CASE ReturnOutput
    BY <1>5, StutterHolds DEF ReturnOutput
  <1>6. CASE UNCHANGED vars
    BY <1>6, StutterHolds DEF vars
  <1> QED
    BY <1>1, <1>2, <1>3, <1>4, <1>5, <1>6 DEF Next

LEMMA AlwaysHolds == Spec => []IInv
  BY InitHolds, StepHolds, PTL DEF Spec

-----------------------------------------------------------------------------
(* The drain keeps its types, for all streams, gaps and settings.          *)
THEOREM TypeCorrect == Spec => []TypeOK
  <1>1. IInv => TypeOK
    BY DEF IInv, Typed
  <1> QED
    BY <1>1, AlwaysHolds, PTL

(* A drain that returns has a frame for every access unit that passed.     *)
THEOREM LossesFilled == Spec => []LossesAreFilled
  <1>1. IInv => LossesAreFilled
    BY DEF IInv, FilledSoFar, LossesAreFilled, AllFilled
  <1> QED
    BY <1>1, AlwaysHolds, PTL

(* The estimates drift by half an access unit for each gap and by what the *)
(* frames behind the gaps are longer or shorter than one, for every bit    *)
(* rate, every length of a frame and every number of bytes discarded.      *)
THEOREM NearestEstimate == Spec => []EstimateIsNearest
  <1>1. IInv => EstimateIsNearest
    BY DEF IInv
  <1> QED
    BY <1>1, AlwaysHolds, PTL

(* A fill is made from the last frame decoded before it.                   *)
THEOREM LatestSource == Spec => []FillIsFromLastFrame
  <1>1. IInv => FillIsFromLastFrame
    BY DEF IInv, InCall, Rules
  <1> QED
    BY <1>1, AlwaysHolds, PTL

(* The frame after a fill fades in.                                        *)
THEOREM RecoveryFades == Spec => []RecoveryFadesIn
  <1>1. IInv => RecoveryFadesIn
    BY DEF IInv, InCall, Rules
  <1> QED
    BY <1>1, AlwaysHolds, PTL

(* What is repeated in front of a frame has its layout.                    *)
THEOREM RepeatedFits == Spec => []RepeatedFitsFrame
  <1>1. IInv => RepeatedFitsFrame
    BY DEF IInv, InCall, Rules
  <1> QED
    BY <1>1, AlwaysHolds, PTL

(* A run of fills never gets louder and is silent from its eighth frame    *)
(* on, if the counter of the losses does not stop before that.             *)
THEOREM RunsGoDown ==
    ASSUME UsizeMax > FadeOutLosses
    PROVE  Spec => []RunsFade
  <1>1. IInv => RunsFade
    BY DEF IInv, InCall, Rules
  <1> QED
    BY <1>1, AlwaysHolds, PTL
=============================================================================
