---------------------------- MODULE FramingProofs ----------------------------
(***************************************************************************)
(* Proofs about IncrementalFraming, for all streams and header lengths.    *)
(* EveryByteAccounted is inductive once it is known that the reader never  *)
(* takes more bytes out of its buffer than were pushed.                    *)
(***************************************************************************)
EXTENDS IncrementalFraming, FiniteSetTheorems, SequenceTheorems,
        WellFoundedInduction, TLAPS

-----------------------------------------------------------------------------
(* Numbers, sets of bytes and buffers *)

LEMMA MinIsMember ==
    ASSUME NEW S \in SUBSET Nat, S # {}
    PROVE  Min(S) \in S /\ \A y \in S : Min(S) <= y
  <1> DEFINE Initials == {1..x : x \in S}
             Strict == StrictSubsetOrdering(Nat)
  <1>1. Initials \subseteq FiniteSubsetsOf(Nat) /\ Initials # {}
    <2>1. \A x \in S : IsFiniteSet(1..x) /\ 1..x \subseteq Nat
      BY FS_Interval
    <2> QED
      BY <2>1 DEF FiniteSubsetsOf
  <1>2. PICK I \in Initials : \A J \in Initials : <<J, I>> \notin Strict
    BY <1>1, FS_StrictSubsetOrderingWellFounded, WFMin
  <1>3. PICK x \in S : I = 1..x
    BY <1>2
  <1>4. \A y \in S : x <= y
    <2> SUFFICES ASSUME NEW y \in S, y < x
                 PROVE  FALSE
      OBVIOUS
    <2>1. 1..y \subseteq 1..x /\ x \in 1..x /\ x \notin 1..y
      OBVIOUS
    <2>2. <<1..y, 1..x>> \in Strict
      BY <2>1 DEF StrictSubsetOrdering
    <2> QED
      BY <1>2, <1>3, <2>2
  <1> QED
    BY <1>4 DEF Min

LEMMA BytesBeyond ==
    ASSUME NEW t \in Nat, NEW n \in Nat, NEW F \in SUBSET (1..t)
    PROVE  /\ Cardinality((1..t) \ F) \in Nat
           /\ Cardinality((1..(t + n)) \ F) = Cardinality((1..t) \ F) + n
  <1> DEFINE Old == (1..t) \ F
             New == (t + 1)..(t + n)
  <1>1. IsFiniteSet(1..t) /\ IsFiniteSet(New) /\ Cardinality(New) = n
    BY FS_Interval
  <1>2. IsFiniteSet(Old)
    BY <1>1, FS_Difference
  <1>3. Cardinality(Old) \in Nat
    BY <1>2, FS_CardinalityType
  <1>4. (1..(t + n)) \ F = Old \cup New /\ Old \cap New = {}
    OBVIOUS
  <1>5. Cardinality(Old \cup New) = Cardinality(Old) + n - Cardinality({})
    BY <1>1, <1>2, <1>4, FS_Union, SMTT(30)
  <1> QED
    BY <1>3, <1>4, <1>5, FS_EmptySet

LEMMA FromIsSuffix ==
    ASSUME NEW s \in Seq(Byte), NEW n \in 0..Len(s)
    PROVE  /\ From(s, n + 1) \in Seq(Byte)
           /\ Len(From(s, n + 1)) = Len(s) - n
           /\ \A j \in 1..(Len(s) - n) : From(s, n + 1)[j] = s[n + j]
  BY DEF From

LEMMA IsSubSeq ==
    ASSUME NEW s \in Seq(Byte), NEW b \in Seq(Byte),
           NEW m \in Nat, NEW n \in m..Len(s),
           Len(b) = n - m, \A j \in 1..(n - m) : b[j] = s[m + j]
    PROVE  b = SubSeq(s, m + 1, n)
  <1>1. /\ SubSeq(s, m + 1, n) \in Seq(Byte)
        /\ Len(SubSeq(s, m + 1, n)) = n - m
        /\ \A j \in 1..(n - m) : SubSeq(s, m + 1, n)[j] = s[m + j]
    BY SubSeqProperties
  <1> QED
    BY <1>1, SeqEqual

-----------------------------------------------------------------------------
(* The inductive invariant *)

(* What the reader took out of its buffer had been pushed. *)
TakenWasSent == Taken \in 0..sent

IInv == TypeOK /\ EveryByteAccounted /\ TakenWasSent

LEMMA TypeFacts ==
    ASSUME TypeOK
    PROVE  /\ stream \in Seq(Byte) /\ Len(stream) \in Nat
           /\ sent \in Nat /\ sent <= Len(stream)
           /\ buffered \in Seq(Byte) /\ Len(buffered) \in Nat
           /\ discarded \in Nat
           /\ frames \in Seq(1..Len(stream)) /\ Len(frames) \in Nat
  BY StreamsAreBytes DEF TypeOK

LEMMA BufferIsStream ==
    ASSUME IInv
    PROVE  /\ stream \in Seq(Byte)
           /\ Taken \in Nat /\ sent \in Nat /\ Taken + Len(buffered) = sent
           /\ \A i \in 1..Len(buffered) : buffered[i] = stream[Taken + i]
           /\ Framed \in SUBSET (1..Taken)
  <1>1. stream \in Seq(Byte)
    BY StreamsAreBytes DEF IInv, TypeOK
  <1>2. Taken \in Nat /\ sent \in Nat /\ Taken + Len(buffered) = sent
    BY <1>1 DEF IInv, TypeOK, TakenWasSent, Taken
  <1>3. \A i \in 1..Len(buffered) : buffered[i] = stream[Taken + i]
    <2>1. buffered = SubSeq(stream, Taken + 1, sent) /\ sent <= Len(stream)
      BY <1>1 DEF IInv, EveryByteAccounted, TypeOK
    <2>2. \A i \in 1..(sent - Taken) :
             SubSeq(stream, Taken + 1, sent)[i] = stream[Taken + i]
      BY <1>1, <1>2, <2>1
    <2> QED
      BY <1>2, <2>1, <2>2
  <1>4. Framed \in SUBSET (1..Taken)
    BY DEF IInv, EveryByteAccounted, Framed
  <1> QED
    BY <1>1, <1>2, <1>3, <1>4

(* Bytes taken that go into no frame. *)
LEMMA DiscardHolds ==
    ASSUME IInv, NEW n \in 0..Len(buffered), Discard(n),
           UNCHANGED <<stream, sent, frames>>,
           status' \in {"pushed", "polling", "empty"}
    PROVE  IInv'
  <1>1. /\ stream \in Seq(Byte) /\ Taken \in Nat /\ sent \in Nat
        /\ Taken + Len(buffered) = sent
        /\ \A i \in 1..Len(buffered) : buffered[i] = stream[Taken + i]
        /\ Framed \in SUBSET (1..Taken)
    BY BufferIsStream
  <1>2. /\ buffered' \in Seq(Byte) /\ Len(buffered') = Len(buffered) - n
        /\ \A j \in 1..(Len(buffered) - n) : buffered'[j] = buffered[n + j]
    BY FromIsSuffix, TypeFacts DEF Discard, IInv
  <1>3. Taken' = Taken + n
    BY <1>1, <1>2 DEF Taken
  <1>4. discarded' \in Nat /\ TypeOK'
    BY <1>2 DEF IInv, TypeOK, Discard
  <1>5. TakenWasSent'
    BY <1>1, <1>2, <1>3 DEF TakenWasSent
  <1>6. buffered' = SubSeq(stream', Taken' + 1, sent')
    <2>1. Taken + n \in Nat /\ sent \in (Taken + n)..Len(stream)
      BY <1>1, TypeFacts DEF IInv
    <2>2. /\ Len(buffered') = sent - (Taken + n)
          /\ \A j \in 1..(sent - (Taken + n)) :
                buffered'[j] = stream[(Taken + n) + j]
      BY <1>1, <1>2, SMTT(30)
    <2>3. buffered' = SubSeq(stream, (Taken + n) + 1, sent)
      BY ONLY <1>1, <1>2, <2>1, <2>2, IsSubSeq
    <2> QED
      BY <1>3, <2>3
  <1>7. \A k \in 1..Len(frames) : Extent(frames[k])' \subseteq 1..Taken'
    BY <1>1, <1>3 DEF IInv, EveryByteAccounted, Extent
  <1>8. discarded' = Cardinality((1..Taken') \ Framed')
    <2>1. Framed' = Framed
      BY DEF Framed, Extent
    <2>2. /\ discarded = Cardinality((1..Taken) \ Framed)
          /\ discarded' = discarded + n
      BY DEF Discard, IInv, EveryByteAccounted
    <2>3. n \in Nat
      BY DEF IInv, TypeOK
    <2>4. Cardinality((1..(Taken + n)) \ Framed)
             = Cardinality((1..Taken) \ Framed) + n
      BY <1>1, <2>3, BytesBeyond
    <2> QED
      BY <1>3, <2>1, <2>2, <2>4
  <1> QED
    BY <1>4, <1>5, <1>6, <1>7, <1>8 DEF IInv, EveryByteAccounted

LEMMA PushHolds ==
    ASSUME IInv, NEW n \in 1..(Len(stream) - sent), Push(n)
    PROVE  IInv'
  <1>1. /\ stream \in Seq(Byte) /\ Taken \in Nat /\ sent \in Nat
        /\ Taken + Len(buffered) = sent
        /\ \A i \in 1..Len(buffered) : buffered[i] = stream[Taken + i]
    BY BufferIsStream
  <1> DEFINE chunk == SubSeq(stream, sent + 1, sent + n)
  <1>2. n \in Nat /\ sent + n \in 0..Len(stream)
    BY <1>1 DEF Push
  <1>3. /\ chunk \in Seq(Byte) /\ Len(chunk) = n
        /\ \A j \in 1..n : chunk[j] = stream[sent + j]
    <2>1. \A i \in (sent + 1)..(sent + n) : stream[i] \in Byte
      BY <1>1, <1>2
    <2>2. sent + 1 \in Int /\ sent + n \in Int
      BY <1>1, <1>2
    <2>3. /\ chunk \in Seq(Byte)
          /\ Len(chunk) = IF sent + 1 <= sent + n
                          THEN (sent + n) - (sent + 1) + 1 ELSE 0
          /\ \A i \in 1..((sent + n) - (sent + 1) + 1) :
                chunk[i] = stream[(sent + 1) + i - 1]
      BY ONLY <2>1, <2>2, SubSeqProperties
    <2>4. \A j \in 1..n : /\ j \in 1..((sent + n) - (sent + 1) + 1)
                          /\ (sent + 1) + j - 1 = sent + j
      BY <1>1, <1>2
    <2>5. \A j \in 1..n : chunk[j] = stream[sent + j]
      BY ONLY <2>3, <2>4
    <2> HIDE DEF chunk
    <2> QED
      BY <1>1, <1>2, <2>3, <2>5, SMTT(30)
  <1> HIDE DEF chunk
  <1>4. /\ buffered' = buffered \o chunk /\ sent' = sent + n
        /\ stream' = stream /\ frames' = frames /\ discarded' = discarded
        /\ status' = "pushed"
    BY DEF Push, chunk
  <1>5. /\ buffered' \in Seq(Byte) /\ Len(buffered') = Len(buffered) + n
        /\ \A j \in 1..Len(buffered) : buffered'[j] = buffered[j]
        /\ \A j \in 1..n : buffered'[Len(buffered) + j] = chunk[j]
    <2>1. buffered \in Seq(Byte) /\ Len(buffered) \in Nat
      BY TypeFacts DEF IInv
    <2>2. /\ buffered \o chunk \in Seq(Byte)
          /\ Len(buffered \o chunk) = Len(buffered) + Len(chunk)
          /\ \A i \in 1..(Len(buffered) + Len(chunk)) :
                (buffered \o chunk)[i] = IF i <= Len(buffered)
                                         THEN buffered[i]
                                         ELSE chunk[i - Len(buffered)]
      BY ONLY <1>3, <2>1, ConcatProperties
    <2> QED
      BY ONLY <1>2, <1>3, <1>4, <2>1, <2>2
  <1>6. Taken' = Taken
    BY <1>1, <1>2, <1>4, <1>5, TypeFacts DEF Taken, IInv
  <1>7. buffered' = SubSeq(stream, Taken + 1, sent + n)
    <2>1. ASSUME NEW j \in 1..(sent + n - Taken)
          PROVE  buffered'[j] = stream[Taken + j]
      <3>1. CASE j \in 1..Len(buffered)
        BY <1>1, <1>5, <3>1
      <3>2. CASE j > Len(buffered)
        <4>1. j - Len(buffered) \in 1..n /\ Len(buffered) \in Nat
          BY <1>1, <1>2, <3>2, TypeFacts DEF IInv
        <4>2. buffered'[Len(buffered) + (j - Len(buffered))]
                 = stream[sent + (j - Len(buffered))]
          BY <1>3, <1>5, <4>1
        <4> QED
          BY <1>1, <4>1, <4>2
      <3> QED
        BY <1>1, <1>2, <3>1, <3>2, TypeFacts DEF IInv
    <2>2. sent + n \in Taken..Len(stream) /\ Len(buffered') = sent + n - Taken
      <3>1. /\ Len(buffered') = Len(buffered) + n /\ Len(buffered) \in Nat
            /\ Taken \in Nat /\ sent \in Nat /\ Taken + Len(buffered) = sent
            /\ n \in Nat /\ sent + n <= Len(stream) /\ Len(stream) \in Nat
        BY <1>1, <1>2, <1>5, TypeFacts DEF IInv
      <3> QED
        BY ONLY <3>1
    <2>3. \A j \in 1..(sent + n - Taken) : buffered'[j] = stream[Taken + j]
      BY <2>1
    <2> QED
      <3>1. PICK last \in Nat : last = sent + n
        BY <1>2
      <3>2. last \in Taken..Len(stream) /\ Len(buffered') = last - Taken
        BY <1>1, <1>2, <2>2, <3>1
      <3>3. \A j \in 1..(last - Taken) : buffered'[j] = stream[Taken + j]
        BY <1>1, <1>2, <2>3, <3>1
      <3>4. buffered' = SubSeq(stream, Taken + 1, last)
        BY ONLY <1>1, <1>5, <3>2, <3>3, IsSubSeq
      <3> QED
        BY <3>1, <3>4
  <1>8. TypeOK'
    BY <1>2, <1>4, <1>5 DEF IInv, TypeOK
  <1>9. TakenWasSent'
    BY <1>1, <1>2, <1>4, <1>6 DEF IInv, TakenWasSent
  <1>10. Framed' = Framed /\ \A k \in 1..Len(frames) :
                                Extent(frames[k])' = Extent(frames[k])
    BY <1>4 DEF Framed, Extent
  <1> QED
    BY <1>4, <1>6, <1>7, <1>8, <1>9, <1>10 DEF IInv, EveryByteAccounted

(* The frame given out lies behind everything taken before it. *)
LEMMA ReturnHolds ==
    ASSUME IInv, ReturnFrame
    PROVE  IInv'
  <1>1. PICK i \in Syncs(buffered) :
           /\ IsBuffered(buffered, i) /\ buffered[i].verdict = "good"
           /\ buffered' = From(buffered, i + buffered[i].length)
           /\ discarded' = discarded + i - 1
           /\ frames' = Append(frames, sent - Len(buffered) + i)
           /\ status' = "pushed" /\ stream' = stream /\ sent' = sent
    BY DEF ReturnFrame
  <1>2. /\ stream \in Seq(Byte) /\ Taken \in Nat /\ sent \in Nat
        /\ Taken + Len(buffered) = sent
        /\ \A j \in 1..Len(buffered) : buffered[j] = stream[Taken + j]
        /\ Framed \in SUBSET (1..Taken)
    BY BufferIsStream
  <1> DEFINE length == buffered[i].length
             place  == Taken + i
             taken  == i - 1 + length
  <1>3. /\ i \in 1..Len(buffered) /\ buffered[i].kind = "mark"
        /\ buffered[i] \in Byte /\ buffered[i] = stream[place]
    <2>1. buffered \in Seq(Byte) /\ Len(buffered) \in Nat
      BY TypeFacts DEF IInv
    <2>2. i \in 1..(Len(buffered) - 1) /\ buffered[i].kind = "mark"
      BY DEF Syncs
    <2>3. i \in 1..Len(buffered) /\ buffered[i] \in Byte
      BY <2>1, <2>2
    <2> QED
      BY <1>2, <2>2, <2>3
  <1>4. length \in Nat /\ length >= 2
    BY <1>3, HeaderHoldsSync DEF Byte, Lengths
  <1>5. i \in Nat /\ taken \in 0..Len(buffered) /\ place \in 1..Len(stream)
    <2>1. Len(buffered) \in Nat /\ Len(stream) \in Nat /\ sent <= Len(stream)
      BY TypeFacts DEF IInv
    <2>2. Len(buffered) - i + 1 >= length
      BY <1>1 DEF IsBuffered
    <2> HIDE DEF length
    <2> QED
      BY <1>2, <1>3, <1>4, <2>1, <2>2
  <1>6. buffered' = From(buffered, taken + 1)
    <2>1. buffered' = From(buffered, i + length)
      BY <1>1
    <2> HIDE DEF length
    <2>2. i + length = taken + 1
      BY <1>4, <1>5
    <2> QED
      BY <2>1, <2>2
  <1>7. frames' = Append(frames, place)
    BY <1>1, <1>2, <1>5 DEF Taken
  <1> HIDE DEF length, place, taken
  <1>8. /\ buffered' \in Seq(Byte) /\ Len(buffered') = Len(buffered) - taken
        /\ \A j \in 1..(Len(buffered) - taken) :
              buffered'[j] = buffered[taken + j]
    BY <1>5, <1>6, FromIsSuffix, TypeFacts DEF IInv
  <1>9. Taken' = Taken + taken /\ Taken' = place - 1 + length
    <2>1. Taken' = sent - (Len(buffered) - taken) /\ Len(buffered) \in Nat
      BY <1>1, <1>8, TypeFacts DEF Taken, IInv
    <2>2. Taken' = Taken + taken
      BY <1>2, <1>5, <2>1
    <2> QED
      BY <1>2, <1>4, <1>5, <2>2 DEF taken, place
  <1>10. TypeOK'
    <2>1. frames' \in Seq(1..Len(stream))
      BY <1>5, <1>7, TypeFacts DEF IInv
    <2>2. discarded + i - 1 \in Nat
      BY <1>3, <1>5, TypeFacts DEF IInv
    <2> QED
      BY <1>1, <1>8, <2>1, <2>2 DEF IInv, TypeOK
  <1>11. TakenWasSent'
    BY <1>1, <1>2, <1>5, <1>8, <1>9 DEF TakenWasSent
  <1>12. buffered' = SubSeq(stream, Taken' + 1, sent)
    <2>1. Taken + taken \in Nat /\ sent \in (Taken + taken)..Len(stream)
      BY <1>2, <1>5, TypeFacts DEF IInv
    <2>2. /\ Len(buffered') = sent - (Taken + taken)
          /\ \A j \in 1..(sent - (Taken + taken)) :
                buffered'[j] = stream[(Taken + taken) + j]
      BY <1>2, <1>5, <1>8, SMTT(30)
    <2>3. buffered' = SubSeq(stream, (Taken + taken) + 1, sent)
      BY ONLY <1>2, <1>8, <2>1, <2>2, TypeFacts, IsSubSeq
    <2> QED
      BY <1>9, <2>3
  <1>13. /\ Extent(place) = place..(place - 1 + length)
         /\ place = Taken + i
    <2>1. Extent(place) = place..(place + length - 1)
      BY <1>3 DEF Extent, length
    <2> QED
      BY <1>4, <1>5, <2>1 DEF place
  <1>14. ASSUME NEW k \in 1..Len(frames')
         PROVE  /\ stream[frames'[k]].kind = "mark"
                /\ stream[frames'[k]].verdict = "good"
                /\ Extent(frames'[k]) \subseteq 1..Taken'
                /\ k > 1 => frames'[k - 1] + stream[frames'[k - 1]].length
                               <= frames'[k]
    <2>1. /\ Len(frames) \in Nat /\ Len(frames') = Len(frames) + 1
          /\ \A j \in 1..Len(frames) : frames'[j] = frames[j]
          /\ frames'[Len(frames) + 1] = place
      BY <1>7, TypeFacts DEF IInv
    <2>2. CASE k \in 1..Len(frames)
      <3>1. k > 1 => k - 1 \in 1..Len(frames)
        BY <2>1, <2>2
      <3>2. 1..Taken \subseteq 1..Taken'
        BY <1>2, <1>5, <1>9
      <3>3. /\ stream[frames[k]].kind = "mark"
            /\ stream[frames[k]].verdict = "good"
            /\ Extent(frames[k]) \subseteq 1..Taken
            /\ k > 1 => frames[k - 1] + stream[frames[k - 1]].length
                           <= frames[k]
        BY <2>2 DEF IInv, EveryByteAccounted
      <3> QED
        BY <2>1, <2>2, <3>1, <3>2, <3>3
    <2>3. CASE k = Len(frames) + 1
      <3>1. Extent(place) \subseteq 1..Taken'
        BY <1>4, <1>5, <1>9, <1>13
      <3>2. stream[place].kind = "mark" /\ stream[place].verdict = "good"
        BY <1>1, <1>3
      <3>3. ASSUME k > 1
            PROVE  frames[k - 1] + stream[frames[k - 1]].length <= place
        <4> DEFINE p == frames[k - 1]
        <4>1. /\ k - 1 \in 1..Len(frames) /\ p \in 1..Len(stream)
              /\ stream[p].kind = "mark" /\ Extent(p) \subseteq 1..Taken
          BY <2>1, <2>3, <3>3 DEF IInv, TypeOK, EveryByteAccounted
        <4>2. stream[p].length \in Nat /\ stream[p].length >= 2
          <5>1. stream[p] \in Byte
            BY <1>2, <4>1
          <5> QED
            BY <4>1, <5>1, HeaderHoldsSync DEF Byte, Lengths
        <4>3. p + stream[p].length - 1 \in Extent(p)
          <5> HIDE DEF p
          <5> QED
            BY <4>1, <4>2 DEF Extent
        <4>4. p + stream[p].length - 1 <= Taken /\ Taken < place
          BY <1>2, <1>3, <1>5, <4>1, <4>3, <1>13
        <4> HIDE DEF p
        <4>5. p + stream[p].length <= place
          <5>1. p \in Nat /\ Taken \in Nat /\ place \in Nat
            BY <1>2, <1>5, <4>1
          <5> QED
            BY ONLY <4>2, <4>4, <5>1
        <4> QED
          BY <4>5 DEF p
      <3>4. k > 1 => frames'[k - 1] = frames[k - 1]
        BY <2>1, <2>3
      <3> QED
        BY <2>1, <2>3, <3>1, <3>2, <3>3, <3>4
    <2> QED
      BY <2>1, <2>2, <2>3
  <1>15. Framed' = Framed \cup Extent(place)
    <2>1. /\ Len(frames) \in Nat /\ Len(frames') = Len(frames) + 1
          /\ \A j \in 1..Len(frames) : frames'[j] = frames[j]
          /\ frames'[Len(frames) + 1] = place
      BY <1>7, TypeFacts DEF IInv
    <2>2. 1..Len(frames') = 1..Len(frames) \cup {Len(frames) + 1}
      BY <2>1
    <2>3. \A p : Extent(p)' = Extent(p)
      BY <1>1 DEF Extent
    <2>4. Framed' = UNION {Extent(frames'[j]) : j \in 1..Len(frames')}
      BY <1>1 DEF Framed, Extent
    <2>5. \A x : x \in UNION {Extent(frames'[j]) : j \in 1..Len(frames')}
                 <=> \/ \E j \in 1..Len(frames) : x \in Extent(frames[j])
                     \/ x \in Extent(place)
      BY <2>1, <2>2
    <2> QED
      BY <2>4, <2>5 DEF Framed
  <1>16. discarded' = Cardinality((1..Taken') \ Framed')
    <2>1. (1..Taken') \ Framed' = (1..(Taken + (i - 1))) \ Framed
      <3>1. Taken' = Taken + i - 1 + length /\ Taken + (i - 1) = place - 1
        BY <1>2, <1>4, <1>5, <1>9, <1>13
      <3> QED
        BY <1>2, <1>4, <1>5, <1>9, <1>15, <1>13, <3>1
    <2>2. i - 1 \in Nat
      BY <1>3, <1>5
    <2>3. /\ Cardinality((1..Taken) \ Framed) \in Nat
          /\ Cardinality((1..(Taken + (i - 1))) \ Framed)
                = Cardinality((1..Taken) \ Framed) + (i - 1)
      BY <1>2, <2>2, BytesBeyond
    <2>4. discarded = Cardinality((1..Taken) \ Framed)
      BY DEF IInv, EveryByteAccounted
    <2> QED
      BY <1>1, <1>5, <2>1, <2>3, <2>4
  <1>17. \A p : Extent(p)' = Extent(p)
    BY <1>1 DEF Extent
  <1> QED
    BY <1>1, <1>10, <1>11, <1>12, <1>14, <1>16, <1>17
    DEF IInv, EveryByteAccounted, Extent

-----------------------------------------------------------------------------
(* The theorems *)

LEMMA InitHolds == Init => IInv
  <1> SUFFICES ASSUME Init
               PROVE  IInv
    OBVIOUS
  <1>1. stream \in Seq(Byte)
    BY StreamsAreBytes DEF Init
  <1>2. TypeOK /\ Taken = 0 /\ TakenWasSent
    <2>1. buffered \in Seq(Byte) /\ Len(buffered) = 0
      BY DEF Init
    <2>2. frames \in Seq(1..Len(stream)) /\ Len(stream) \in Nat
      BY <1>1 DEF Init
    <2>3. Taken = 0 /\ sent = 0
      <3>1. sent = 0
        BY DEF Init
      <3> QED
        BY <2>1, <3>1 DEF Taken
    <2>4. TakenWasSent
      BY <2>3 DEF TakenWasSent
    <2>5. TypeOK
      BY <2>1, <2>2, <2>3 DEF Init, TypeOK
    <2> QED
      BY <2>3, <2>4, <2>5
  <1>3. SubSeq(stream, 1, 0) = <<>>
    BY <1>1
  <1>4. (1..0) \ Framed = {}
    OBVIOUS
  <1>5. discarded = Cardinality((1..Taken) \ Framed)
    BY <1>2, <1>4, FS_EmptySet DEF Init
  <1>6. buffered = SubSeq(stream, Taken + 1, sent) /\ Len(frames) = 0
    BY <1>2, <1>3 DEF Init
  <1> QED
    BY <1>2, <1>5, <1>6 DEF IInv, EveryByteAccounted

LEMMA IterateHolds ==
    ASSUME IInv, Iterate
    PROVE  IInv'
  <1> USE DEF ReturnNone, GoOn
  <1>1. buffered \in Seq(Byte) /\ Len(buffered) \in Nat
        /\ status \in {"pushed", "polling", "empty"}
    BY DEF IInv, TypeOK
  <1>2. \A i \in Syncs(buffered) : /\ i - 1 \in 0..Len(buffered)
                                   /\ i \in 0..Len(buffered)
    BY <1>1 DEF Syncs
  <1>3. CASE NoSyncword
    <2>1. Len(buffered) - Kept(buffered) \in 0..Len(buffered)
      BY <1>1 DEF Kept
    <2> QED
      BY <1>3, <2>1, DiscardHolds DEF NoSyncword
  <1>4. CASE IncompleteHeader
    BY <1>2, <1>4, DiscardHolds DEF IncompleteHeader
  <1>5. CASE RefuseHeader
    BY <1>1, <1>2, <1>5, DiscardHolds DEF RefuseHeader
  <1>6. CASE IncompleteFrame
    BY <1>2, <1>6, DiscardHolds DEF IncompleteFrame
  <1>7. CASE Recover
    <2>1. PICK i \in Syncs(buffered) :
             /\ Recoveries(buffered, i) # {}
             /\ Discard(Min(Recoveries(buffered, i)) - 1)
             /\ UNCHANGED <<stream, sent, frames, status>>
      BY <1>7 DEF Recover
    <2>2. Recoveries(buffered, i) \subseteq Syncs(buffered)
          /\ Recoveries(buffered, i) \in SUBSET Nat
      BY <1>1 DEF Recoveries, CompleteFrames, Syncs
    <2>3. Min(Recoveries(buffered, i)) - 1 \in 0..Len(buffered)
      BY <1>2, <2>1, <2>2, MinIsMember
    <2> QED
      BY <1>1, <2>1, <2>3, DiscardHolds
  <1>8. CASE RefuseFrame
    <2>1. PICK i \in Syncs(buffered) :
             /\ IsBuffered(buffered, i)
             /\ Discard(i - 1 + buffered[i].length)
             /\ UNCHANGED <<stream, sent, frames, status>>
      BY <1>8 DEF RefuseFrame
    <2>2. buffered[i] \in Byte /\ buffered[i].kind = "mark"
      BY <1>1 DEF Syncs
    <2>3. buffered[i].length \in Nat
      BY <2>2, HeaderHoldsSync DEF Byte, Lengths
    <2>4. i - 1 + buffered[i].length \in 0..Len(buffered)
      BY <1>1, <1>2, <2>1, <2>3 DEF IsBuffered
    <2> QED
      BY <1>1, <2>1, <2>4, DiscardHolds
  <1>9. CASE ReturnFrame
    BY <1>9, ReturnHolds
  <1> QED
    BY <1>3, <1>4, <1>5, <1>6, <1>7, <1>8, <1>9 DEF Iterate

LEMMA StepHolds == IInv /\ [Next]_vars => IInv'
  <1> SUFFICES ASSUME IInv, [Next]_vars
               PROVE  IInv'
    OBVIOUS
  <1>1. CASE \E n \in 1..(Len(stream) - sent) : Push(n)
    BY <1>1, PushHolds
  <1>2. CASE NextFrame
    <2>1. /\ UNCHANGED <<stream, sent, buffered, discarded, frames>>
          /\ status' = "polling"
      BY <1>2 DEF NextFrame
    <2> QED
      BY <2>1 DEF IInv, TypeOK, EveryByteAccounted, TakenWasSent, Taken,
                  Framed, Extent
  <1>3. CASE Iterate
    BY <1>3, IterateHolds
  <1>4. CASE UNCHANGED vars
    BY <1>4 DEF vars, IInv, TypeOK, EveryByteAccounted, TakenWasSent, Taken,
                Framed, Extent
  <1> QED
    BY <1>1, <1>2, <1>3, <1>4 DEF Next

LEMMA AlwaysHolds == Spec => []IInv
  BY InitHolds, StepHolds, PTL DEF Spec

(* The reader's state has its type, and a frame given out begins inside    *)
(* the stream.                                                             *)
THEOREM TypeCorrect == Spec => []TypeOK
  <1>1. IInv => TypeOK
    BY DEF IInv
  <1> QED
    BY <1>1, AlwaysHolds, PTL

(* discarded_bytes of both readers (adts.rs, loas.rs) counts every byte    *)
(* outside the frames given out once, whatever the stream and however it   *)
(* is cut into chunks.                                                     *)
THEOREM ByteAccounts == Spec => []EveryByteAccounted
  <1>1. IInv => EveryByteAccounted
    BY DEF IInv
  <1> QED
    BY <1>1, AlwaysHolds, PTL

-----------------------------------------------------------------------------
(* The refinement *)

LEMMA DiscardSkips ==
    ASSUME IInv, NEW n \in 0..Len(buffered), Discard(n),
           UNCHANGED <<stream, sent, frames>>
    PROVE  [Reader!Next]_(Reader!vars)
  <1>1. /\ Taken \in Nat /\ sent \in Nat /\ Taken + Len(buffered) = sent
        /\ n \in Nat /\ Len(buffered) \in Nat /\ discarded \in Nat
    BY BufferIsStream, TypeFacts DEF IInv
  <1>2. Len(buffered') = Len(buffered) - n /\ discarded' = discarded + n
    BY FromIsSuffix, TypeFacts DEF Discard, IInv
  <1>3. Taken' = Taken + n
    BY <1>1, <1>2 DEF Taken
  <1>4. Whole' = Whole
    BY DEF Whole
  <1>5. CASE n = 0
    BY <1>1, <1>2, <1>3, <1>4, <1>5 DEF Reader!vars
  <1>6. CASE n # 0
    <2>1. n \in 1..(sent - Taken)
      BY <1>1, <1>6
    <2> QED
      BY <1>2, <1>3, <1>4, <2>1 DEF Reader!Next, Reader!Skip
  <1> QED
    BY <1>5, <1>6

LEMMA ReturnGives ==
    ASSUME IInv, ReturnFrame
    PROVE  Reader!Give
  <1>1. PICK i \in Syncs(buffered) :
           /\ IsBuffered(buffered, i) /\ buffered[i].verdict = "good"
           /\ buffered' = From(buffered, i + buffered[i].length)
           /\ discarded' = discarded + i - 1
           /\ frames' = Append(frames, sent - Len(buffered) + i)
           /\ stream' = stream /\ sent' = sent
    BY DEF ReturnFrame
  <1>2. /\ Taken \in Nat /\ sent \in Nat /\ Taken + Len(buffered) = sent
        /\ \A j \in 1..Len(buffered) : buffered[j] = stream[Taken + j]
    BY BufferIsStream
  <1>3. /\ buffered \in Seq(Byte) /\ Len(buffered) \in Nat
        /\ Len(stream) \in Nat /\ sent <= Len(stream) /\ discarded \in Nat
    BY TypeFacts DEF IInv
  <1>4. /\ i \in 1..Len(buffered) /\ buffered[i].kind = "mark"
        /\ buffered[i] \in Byte
    BY <1>3 DEF Syncs
  <1>5. PICK length \in Nat : length = buffered[i].length /\ length >= 2
    BY <1>4, HeaderHoldsSync DEF Byte, Lengths
  <1>6. PICK place \in 1..Len(stream) : place = Taken + i
    BY <1>2, <1>3, <1>4
  <1>7. stream[place] = buffered[i]
    BY <1>2, <1>4, <1>6
  <1>8. PICK taken \in 0..Len(buffered) : taken = i - 1 + length
    <2>1. Len(buffered) - i + 1 >= length
      BY <1>1, <1>5 DEF IsBuffered
    <2> QED
      BY <1>3, <1>4, <1>5, <2>1
  <1>9. Len(buffered') = Len(buffered) - taken
    <2>1. i + length = taken + 1
      BY <1>4, <1>5, <1>8
    <2>2. buffered' = From(buffered, taken + 1)
      BY <1>1, <1>5, <2>1
    <2> QED
      BY <1>3, <1>8, <2>2, FromIsSuffix
  <1>10. Taken' = place + length - 1
    <2>1. Taken' = sent - (Len(buffered) - taken)
      BY <1>1, <1>9 DEF Taken
    <2>2. /\ i \in Nat /\ length \in Nat /\ taken \in Nat /\ place \in Nat
          /\ Taken \in Nat /\ sent \in Nat /\ Len(buffered) \in Nat
          /\ Taken + Len(buffered) = sent
      BY <1>2, <1>3, <1>4
    <2> QED
      BY ONLY <1>6, <1>8, <2>1, <2>2
  <1>11. PICK f \in Whole : f.first = place /\ f.last = place + length - 1
    <2>1. stream[place].kind = "mark" /\ stream[place].verdict = "good"
          /\ stream[place].length = length
      BY <1>1, <1>4, <1>5, <1>7
    <2>2. [first |-> place, last |-> place + stream[place].length - 1] \in Whole
      BY <2>1 DEF Whole
    <2> QED
      BY <2>1, <2>2
  <1>12. frames' = Append(frames, f.first)
    <2>1. /\ i \in Nat /\ place \in Nat
          /\ Taken \in Nat /\ sent \in Nat /\ Len(buffered) \in Nat
          /\ Taken + Len(buffered) = sent
      BY <1>2, <1>3, <1>4
    <2>2. sent - Len(buffered) + i = place
      BY ONLY <1>6, <2>1
    <2> QED
      BY <1>1, <1>11, <2>2
  <1>a. /\ i \in Nat /\ i >= 1 /\ length \in Nat /\ length >= 2
        /\ taken \in Nat /\ taken <= Len(buffered) /\ place \in Nat
        /\ Taken \in Nat /\ sent \in Nat /\ Len(buffered) \in Nat
        /\ discarded \in Nat
        /\ Taken + Len(buffered) = sent
        /\ place = Taken + i /\ taken = i - 1 + length
    BY <1>2, <1>3, <1>4, <1>5, <1>6, <1>8
  <1>13. discarded' = discarded + (f.first - 1 - Taken)
    <2>1. discarded' = discarded + i - 1 /\ f.first = place
      BY <1>1, <1>11
    <2>2. discarded + i - 1 = discarded + (place - 1 - Taken)
      BY ONLY <1>a
    <2> QED
      BY ONLY <2>1, <2>2
  <1>14. Taken < f.first /\ f.last <= sent /\ Taken' = f.last
    <2>1. Taken < place /\ place + length - 1 <= sent
      BY ONLY <1>a
    <2> QED
      BY ONLY <2>1, <1>10, <1>11
  <1>15. Whole' = Whole
    BY <1>1 DEF Whole
  <1> QED
    BY <1>1, <1>12, <1>13, <1>14, <1>15 DEF Reader!Give

LEMMA PushPushes ==
    ASSUME IInv, NEW n \in 1..(Len(stream) - sent), Push(n)
    PROVE  Reader!Push
  <1>1. stream \in Seq(Byte) /\ Taken \in Nat /\ sent \in Nat
    BY BufferIsStream
  <1>2. /\ buffered \in Seq(Byte) /\ Len(buffered) \in Nat
        /\ Len(stream) \in Nat
    BY TypeFacts DEF IInv
  <1>3. n \in Nat /\ n > 0 /\ sent' = sent + n /\ sent + n <= Len(stream)
    BY <1>1, <1>2 DEF Push
  <1>4. /\ SubSeq(stream, sent + 1, sent + n) \in Seq(Byte)
        /\ Len(SubSeq(stream, sent + 1, sent + n)) = n
    <2>1. \A i \in (sent + 1)..(sent + n) : stream[i] \in Byte
      BY <1>1, <1>3
    <2>2. sent + 1 \in Int /\ sent + n \in Int
      BY <1>1, <1>3
    <2>3. /\ SubSeq(stream, sent + 1, sent + n) \in Seq(Byte)
          /\ Len(SubSeq(stream, sent + 1, sent + n))
                = IF sent + 1 <= sent + n
                  THEN (sent + n) - (sent + 1) + 1 ELSE 0
      BY ONLY <2>1, <2>2, SubSeqProperties
    <2> QED
      BY ONLY <1>1, <1>3, <2>3
  <1>5. Len(buffered') = Len(buffered) + n
    <2>1. buffered' = buffered \o SubSeq(stream, sent + 1, sent + n)
      BY DEF Push
    <2> QED
      BY ONLY <1>2, <1>4, <2>1, ConcatProperties
  <1>6. Taken' = Taken
    BY <1>1, <1>2, <1>3, <1>5 DEF Taken
  <1>7. /\ Whole' = Whole /\ discarded' = discarded /\ frames' = frames
        /\ sent' > sent
    BY <1>1, <1>3 DEF Push, Whole
  <1> QED
    BY <1>6, <1>7 DEF Reader!Push

LEMMA StepReads ==
    ASSUME IInv, [Next]_vars
    PROVE  [Reader!Next]_(Reader!vars)
  <1> USE DEF ReturnNone, GoOn
  <1>1. buffered \in Seq(Byte) /\ Len(buffered) \in Nat
    BY DEF IInv, TypeOK
  <1>2. \A i \in Syncs(buffered) : /\ i - 1 \in 0..Len(buffered)
                                   /\ i \in 0..Len(buffered)
    BY <1>1 DEF Syncs
  <1>3. CASE \E n \in 1..(Len(stream) - sent) : Push(n)
    BY <1>3, PushPushes DEF Reader!Next
  <1>4. CASE NextFrame \/ UNCHANGED vars
    <2>1. UNCHANGED <<stream, sent, buffered, discarded, frames>>
      BY <1>4 DEF NextFrame, vars
    <2>2. Taken' = Taken /\ Whole' = Whole
      BY <2>1 DEF Taken, Whole
    <2> QED
      BY <2>1, <2>2 DEF Reader!vars
  <1>5. CASE NoSyncword
    <2>1. Len(buffered) - Kept(buffered) \in 0..Len(buffered)
      BY <1>1 DEF Kept
    <2> QED
      BY <1>5, <2>1, DiscardSkips DEF NoSyncword
  <1>6. CASE IncompleteHeader
    BY <1>2, <1>6, DiscardSkips DEF IncompleteHeader
  <1>7. CASE RefuseHeader
    BY <1>2, <1>7, DiscardSkips DEF RefuseHeader
  <1>8. CASE IncompleteFrame
    BY <1>2, <1>8, DiscardSkips DEF IncompleteFrame
  <1>9. CASE Recover
    <2>1. PICK i \in Syncs(buffered) :
             /\ Recoveries(buffered, i) # {}
             /\ Discard(Min(Recoveries(buffered, i)) - 1)
             /\ UNCHANGED <<stream, sent, frames, status>>
      BY <1>9 DEF Recover
    <2>2. Recoveries(buffered, i) \subseteq Syncs(buffered)
          /\ Recoveries(buffered, i) \in SUBSET Nat
      BY <1>1 DEF Recoveries, CompleteFrames, Syncs
    <2>3. Min(Recoveries(buffered, i)) - 1 \in 0..Len(buffered)
      BY <1>2, <2>1, <2>2, MinIsMember
    <2> QED
      BY <2>1, <2>3, DiscardSkips
  <1>10. CASE RefuseFrame
    <2>1. PICK i \in Syncs(buffered) :
             /\ IsBuffered(buffered, i)
             /\ Discard(i - 1 + buffered[i].length)
             /\ UNCHANGED <<stream, sent, frames, status>>
      BY <1>10 DEF RefuseFrame
    <2>2. buffered[i] \in Byte /\ buffered[i].kind = "mark"
      BY <1>1 DEF Syncs
    <2>3. buffered[i].length \in Nat
      BY <2>2, HeaderHoldsSync DEF Byte, Lengths
    <2>4. i - 1 + buffered[i].length \in 0..Len(buffered)
      BY <1>1, <1>2, <2>1, <2>3, SMTT(30) DEF IsBuffered
    <2> QED
      BY <2>1, <2>4, DiscardSkips
  <1>11. CASE ReturnFrame
    BY <1>11, ReturnGives DEF Reader!Next
  <1> QED
    BY <1>3, <1>4, <1>5, <1>6, <1>7, <1>8, <1>9, <1>10, <1>11
    DEF Next, Iterate

LEMMA InitReads ==
    ASSUME Init
    PROVE  Reader!Init
  <1>1. sent = 0 /\ buffered = <<>>
    BY DEF Init
  <1>2. Len(buffered) = 0 /\ sent = 0
    BY <1>1
  <1>3. Taken = 0
    BY ONLY <1>2 DEF Taken
  <1> QED
    BY <1>1, <1>3 DEF Init, Reader!Init

(* Every behaviour of the readers of adts.rs and loas.rs is one of         *)
(* FrameReader, for every stream and every way of cutting it.              *)
THEOREM Refinement == Spec => ImplementsReader
  <1>1. Init => Reader!Init
    BY InitReads
  <1>2. IInv /\ [Next]_vars => [Reader!Next]_(Reader!vars)
    BY StepReads
  <1> QED
    BY <1>1, <1>2, AlwaysHolds, PTL DEF Spec, ImplementsReader, Reader!Spec

-----------------------------------------------------------------------------
(* Arrival *)

(* The reader takes nothing of a frame out of its buffer that it does not  *)
(* give out, unless a false header covers the frame or another lies in it. *)
NonePassed ==
    \A i \in 1..Len(stream) :
        /\ stream[i].kind = "mark" /\ stream[i].verdict = "good"
        /\ Uncovered(i) /\ Plain(i)
        => i \in GivenOut \/ i > Taken

(* A syncword of the buffer in the stream. *)
LEMMA SyncIsInStream ==
    ASSUME IInv, NEW i \in Syncs(buffered)
    PROVE  /\ i \in Nat /\ i >= 1 /\ i <= Len(buffered) - 1
           /\ buffered[i].kind = "mark"
           /\ buffered[i].length \in Nat /\ buffered[i].length >= 2
           /\ buffered[i].length >= HeaderLength
           /\ Taken + i \in 1..Len(stream)
           /\ stream[Taken + i] = buffered[i]
  <1>1. /\ buffered \in Seq(Byte) /\ Len(buffered) \in Nat
        /\ Len(stream) \in Nat /\ sent <= Len(stream)
    BY TypeFacts DEF IInv
  <1>2. i \in 1..(Len(buffered) - 1) /\ buffered[i].kind = "mark"
    BY DEF Syncs
  <1>3. i \in 1..Len(buffered) /\ i \in Nat
    BY <1>1, <1>2
  <1>4. buffered[i] \in Byte
    BY <1>1, <1>3
  <1>5. /\ buffered[i].length \in Nat /\ buffered[i].length >= 2
        /\ buffered[i].length >= HeaderLength
    BY <1>2, <1>4, HeaderHoldsSync DEF Byte, Lengths
  <1>6. /\ Taken \in Nat /\ sent \in Nat /\ Taken + Len(buffered) = sent
        /\ stream[Taken + i] = buffered[i]
    BY <1>3, BufferIsStream
  <1>7. Taken + i \in 1..Len(stream)
    BY <1>1, <1>3, <1>6
  <1> QED
    BY <1>1, <1>2, <1>3, <1>5, <1>6, <1>7

(* All but one byte of the buffer can go, or all of it. *)
LEMMA KeptIsByte ==
    ASSUME IInv
    PROVE  /\ Len(buffered) - Kept(buffered) \in 0..Len(buffered)
           /\ Len(buffered) - (Len(buffered) - Kept(buffered)) <= 1
  <1>1. buffered \in Seq(Byte) /\ Len(buffered) \in Nat
    BY TypeFacts DEF IInv
  <1>2. buffered # <<>> => Len(buffered) >= 1
    BY <1>1
  <1>3. PICK kept \in 0..1 : kept = Kept(buffered) /\ kept <= Len(buffered)
    BY <1>1, <1>2 DEF Kept
  <1> QED
    BY <1>1, <1>3

(* What lies before the first syncword is not a mark. *)
LEMMA FirstSyncword ==
    ASSUME IInv, NEW i, AtSyncword(i), NEW k \in 1..Len(buffered), k < i
    PROVE  buffered[k].kind # "mark"
  <1>1. /\ Syncs(buffered) \in SUBSET Nat /\ Syncs(buffered) # {}
        /\ i = Min(Syncs(buffered)) /\ Len(buffered) \in Nat
    BY TypeFacts DEF IInv, AtSyncword, Syncs
  <1>2. i \in Syncs(buffered) /\ \A y \in Syncs(buffered) : i <= y
    BY <1>1, MinIsMember
  <1>3. i <= Len(buffered) - 1 /\ i \in Nat
    BY <1>2, SyncIsInStream
  <1>4. k \in 1..(Len(buffered) - 1) /\ k \notin Syncs(buffered)
    BY <1>1, <1>2, <1>3
  <1> QED
    BY <1>4 DEF Syncs

(* A syncword that is not refused covers the bytes of its length. *)
LEMMA CandidateCovers ==
    ASSUME IInv, NEW i \in Syncs(buffered), buffered[i].verdict # "header",
           NEW k \in Nat, i < k, k < i + buffered[i].length
    PROVE  ~Uncovered(Taken + k)
  <1>1. PICK length \in Nat : length = buffered[i].length
    BY SyncIsInStream
  <1>2. PICK t \in Nat : t = Taken
    BY BufferIsStream
  <1>3. /\ i \in Nat /\ i >= 1 /\ stream[t + i] = buffered[i]
        /\ buffered[i].kind = "mark"
    BY <1>2, SyncIsInStream
  <1>4. /\ t + i \in 1..(t + k - 1)
        /\ ~(t + i + length <= t + k)
    BY <1>1, <1>3
  <1> QED
    BY <1>1, <1>2, <1>3, <1>4 DEF Uncovered

(* A step that takes n bytes keeps NonePassed if none of them begins a     *)
(* frame that should have been given out.                                  *)
LEMMA PassingHolds ==
    ASSUME IInv, NonePassed, NEW n \in 0..Len(buffered),
           stream' = stream, Taken' = Taken + n, GivenOut \subseteq GivenOut',
           \A k \in 1..n :
              /\ buffered[k].kind = "mark" /\ buffered[k].verdict = "good"
              /\ Uncovered(Taken + k) /\ Plain(Taken + k)
              => Taken + k \in GivenOut'
    PROVE  NonePassed'
  <1>1. /\ Taken \in Nat /\ Len(buffered) \in Nat /\ n \in Nat
        /\ \A i \in 1..Len(buffered) : buffered[i] = stream[Taken + i]
    BY BufferIsStream, TypeFacts DEF IInv
  <1>2. \A i : Uncovered(i)' = Uncovered(i) /\ Plain(i)' = Plain(i)
    BY DEF Uncovered, Plain, Extent
  <1>3. ASSUME NEW i \in 1..Len(stream),
               stream[i].kind = "mark", stream[i].verdict = "good",
               Uncovered(i), Plain(i), ~(i > Taken')
        PROVE  i \in GivenOut'
    <2>1. Len(stream) \in Nat /\ i \in Nat
      BY TypeFacts DEF IInv
    <2>2. CASE i > Taken
      <3>1. PICK k \in 1..n : i = Taken + k
        <4>1. i - Taken \in 1..n /\ i = Taken + (i - Taken)
          BY <1>1, <1>3, <2>1, <2>2
        <4> QED
          BY <4>1
      <3>2. buffered[k] = stream[i]
        BY <1>1, <3>1
      <3> QED
        BY <1>3, <3>1, <3>2
    <2>3. CASE ~(i > Taken)
      BY <1>3, <2>3 DEF NonePassed
    <2> QED
      BY <2>2, <2>3
  <1> QED
    BY <1>2, <1>3 DEF NonePassed

LEMMA DiscardPasses ==
    ASSUME IInv, NonePassed, NEW n \in 0..Len(buffered), Discard(n),
           UNCHANGED <<stream, sent, frames>>,
           \A k \in 1..n : ~(/\ buffered[k].kind = "mark"
                             /\ buffered[k].verdict = "good"
                             /\ Uncovered(Taken + k) /\ Plain(Taken + k))
    PROVE  NonePassed'
  <1>1. Len(buffered') = Len(buffered) - n
    BY FromIsSuffix, TypeFacts DEF Discard, IInv
  <1>2. Taken' = Taken + n
    <2>1. Taken \in Nat /\ Taken + Len(buffered) = sent /\ sent \in Nat
          /\ Len(buffered) \in Nat /\ n \in Nat
      BY BufferIsStream, TypeFacts DEF IInv
    <2> QED
      BY <1>1, <2>1 DEF Taken
  <1>3. GivenOut' = GivenOut
    BY DEF GivenOut
  <1> QED
    BY <1>2, <1>3, PassingHolds

LEMMA IteratePasses ==
    ASSUME IInv, NonePassed, Iterate
    PROVE  NonePassed'
  <1> USE DEF ReturnNone, GoOn
  <1>1. buffered \in Seq(Byte) /\ Len(buffered) \in Nat
    BY TypeFacts DEF IInv
  <1>2. \A i \in Syncs(buffered) :
           /\ i \in Nat /\ i - 1 \in 0..Len(buffered) /\ i \in 0..Len(buffered)
           /\ buffered[i].length \in Nat /\ buffered[i].length >= 2
    BY <1>1, SyncIsInStream
  <1>3. ASSUME NEW i \in Syncs(buffered), AtSyncword(i), Discard(i - 1),
               UNCHANGED <<stream, sent, frames>>
        PROVE  NonePassed'
    <2>1. \A k \in 1..(i - 1) : buffered[k].kind # "mark"
      BY <1>1, <1>2, <1>3, FirstSyncword
    <2> QED
      BY <1>2, <1>3, <2>1, DiscardPasses
  <1>4. CASE NoSyncword
    <2>1. PICK n \in 0..Len(buffered) : n = Len(buffered) - Kept(buffered)
      BY KeptIsByte
    <2>2. ASSUME NEW k \in 1..n
          PROVE  buffered[k].kind # "mark"
      <3>1. CASE k = Len(buffered)
        <4>1. PICK kept \in 0..1 : kept = Kept(buffered)
          BY DEF Kept
        <4>2. Kept(buffered) = 0 /\ Len(buffered) # 0
          BY <1>1, <2>1, <3>1, <4>1
        <4>3. buffered # <<>>
          BY <1>1, <4>2
        <4> QED
          BY <3>1, <4>2, <4>3 DEF Kept
      <3>2. CASE k # Len(buffered)
        <4>1. k \in 1..(Len(buffered) - 1) /\ k \notin Syncs(buffered)
          BY <1>1, <1>4, <2>1, <3>2 DEF NoSyncword
        <4> QED
          BY <4>1 DEF Syncs
      <3> QED
        BY <3>1, <3>2
    <2>3. Discard(n) /\ UNCHANGED <<stream, sent, frames>>
      BY <1>4, <2>1 DEF NoSyncword
    <2> QED
      BY <2>2, <2>3, DiscardPasses
  <1>5. CASE IncompleteHeader
    BY <1>3, <1>5 DEF IncompleteHeader
  <1>6. CASE IncompleteFrame
    BY <1>3, <1>6 DEF IncompleteFrame, Candidate
  <1>7. CASE RefuseHeader
    <2>1. PICK i \in Syncs(buffered) :
             /\ AtSyncword(i) /\ buffered[i].verdict = "header" /\ Discard(i)
             /\ UNCHANGED <<stream, sent, frames>>
      BY <1>7 DEF RefuseHeader
    <2>2. \A k \in 1..i : \/ buffered[k].kind # "mark"
                          \/ buffered[k].verdict # "good"
      <3>1. \A k \in 1..i : k < i => buffered[k].kind # "mark"
        BY <1>1, <1>2, <2>1, FirstSyncword
      <3>2. \A k \in 1..i : k < i \/ k = i
        BY <1>2
      <3> QED
        BY <2>1, <3>1, <3>2
    <2> QED
      BY <1>2, <2>1, <2>2, DiscardPasses
  <1>8. CASE Recover
    <2>1. PICK i \in Syncs(buffered) :
             /\ AtSyncword(i) /\ buffered[i].verdict # "header"
             /\ ~IsBuffered(buffered, i)
             /\ Recoveries(buffered, i) # {}
             /\ Discard(Min(Recoveries(buffered, i)) - 1)
             /\ UNCHANGED <<stream, sent, frames>>
      BY <1>8 DEF Recover, Candidate
    <2>2. Recoveries(buffered, i) \subseteq Syncs(buffered)
          /\ Recoveries(buffered, i) \in SUBSET Nat
      BY <1>1 DEF Recoveries, CompleteFrames, Syncs
    <2>3. PICK r \in Recoveries(buffered, i) : r = Min(Recoveries(buffered, i))
      BY <2>1, <2>2, MinIsMember
    <2>4. /\ r \in Syncs(buffered) /\ r > i
          /\ buffered[r].verdict = "good" /\ IsBuffered(buffered, r)
      BY <2>3 DEF Recoveries, CompleteFrames
    <2>5. PICK length \in Nat, inner \in Nat :
             /\ length = buffered[i].length /\ inner = buffered[r].length
             /\ ~(Len(buffered) - i + 1 >= length)
             /\ Len(buffered) - r + 1 >= inner
             /\ inner >= 2
      BY <1>2, <2>1, <2>4 DEF IsBuffered
    <2>6. i \in Nat /\ r \in Nat /\ r > i /\ r <= Len(buffered)
      BY <1>2, <2>4
    <2>7. ASSUME NEW k \in 1..(r - 1)
          PROVE  ~(/\ buffered[k].kind = "mark" /\ buffered[k].verdict = "good"
                   /\ Uncovered(Taken + k) /\ Plain(Taken + k))
      <3>1. k \in 1..Len(buffered) /\ k \in Nat
        BY <1>1, <2>6
      <3>2. CASE k < i
        BY <2>1, <3>1, <3>2, FirstSyncword
      <3>3. CASE k = i
        <4>1. PICK t \in Nat : t = Taken
          BY BufferIsStream
        <4>2. /\ stream[t + i] = buffered[i] /\ stream[t + r] = buffered[r]
              /\ buffered[r].kind = "mark" /\ t + r <= Len(stream)
          BY <2>4, <4>1, SyncIsInStream
        <4>3. /\ t + r \in (t + i)..(t + i + length - 1)
              /\ t + r # t + i
              /\ ~(t + r + inner >= t + i + length)
          <5>1. PICK l \in Nat : l = Len(buffered)
            BY <1>1
          <5>2. /\ ~(l - i + 1 >= length) /\ l - r + 1 >= inner /\ r <= l
                /\ length \in Nat /\ inner \in Nat /\ t \in Nat
                /\ i \in Nat /\ r \in Nat /\ r > i
            BY <2>5, <2>6, <4>1, <5>1
          <5> QED
            BY ONLY <5>1, <5>2
        <4>4. ~Plain(t + i)
          BY <2>4, <2>5, <4>2, <4>3 DEF Plain, Extent
        <4> QED
          BY <3>3, <4>1, <4>4
      <3>4. CASE k > i
        <4>1. k < i + length
          BY <1>1, <2>5, <2>6, <3>1
        <4> QED
          BY <2>1, <2>5, <3>1, <3>4, <4>1, CandidateCovers
      <3> QED
        BY <2>6, <3>1, <3>2, <3>3, <3>4
    <2>8. r - 1 \in 0..Len(buffered)
      BY <1>1, <2>6
    <2> QED
      BY <2>1, <2>3, <2>7, <2>8, DiscardPasses
  <1>9. ASSUME NEW i \in Syncs(buffered), AtSyncword(i),
               buffered[i].verdict # "header", IsBuffered(buffered, i),
               NEW k \in 1..(i - 1 + buffered[i].length),
               k # i, buffered[k].kind = "mark"
        PROVE  ~Uncovered(Taken + k)
    <2>1. PICK length \in Nat :
             /\ length = buffered[i].length
             /\ Len(buffered) - i + 1 >= length
      BY <1>2, <1>9 DEF IsBuffered
    <2>2. k \in 1..Len(buffered) /\ k \in Nat /\ i \in Nat
      BY <1>1, <1>2, <1>9, <2>1
    <2>3. CASE k < i
      BY <1>9, <2>2, <2>3, FirstSyncword
    <2>4. CASE k > i
      <3>1. k < i + length
        BY <1>9, <2>1, <2>2
      <3> QED
        BY <1>9, <2>1, <2>2, <2>4, <3>1, CandidateCovers
    <2> QED
      BY <1>9, <2>2, <2>3, <2>4
  <1>10. CASE RefuseFrame
    <2>1. PICK i \in Syncs(buffered) :
             /\ AtSyncword(i) /\ IsBuffered(buffered, i)
             /\ buffered[i].verdict = "frame"
             /\ Discard(i - 1 + buffered[i].length)
             /\ UNCHANGED <<stream, sent, frames>>
      BY <1>10 DEF RefuseFrame, Candidate
    <2>2. PICK n \in 0..Len(buffered) : n = i - 1 + buffered[i].length
      BY <1>1, <1>2, <2>1 DEF IsBuffered
    <2>3. \A k \in 1..n : ~(/\ buffered[k].kind = "mark"
                            /\ buffered[k].verdict = "good"
                            /\ Uncovered(Taken + k) /\ Plain(Taken + k))
      BY <1>9, <2>1, <2>2
    <2> QED
      BY <2>1, <2>2, <2>3, DiscardPasses
  <1>11. CASE ReturnFrame
    <2>1. PICK i \in Syncs(buffered) :
             /\ AtSyncword(i) /\ IsBuffered(buffered, i)
             /\ buffered[i].verdict = "good"
             /\ buffered' = From(buffered, i + buffered[i].length)
             /\ frames' = Append(frames, sent - Len(buffered) + i)
             /\ stream' = stream /\ sent' = sent
      BY <1>11 DEF ReturnFrame, Candidate
    <2>2. PICK length \in Nat : length = buffered[i].length /\ length >= 2
      BY <1>2
    <2>3. PICK n \in 0..Len(buffered) : n = i - 1 + length
      BY <1>1, <1>2, <2>1, <2>2 DEF IsBuffered
    <2>4. Len(buffered') = Len(buffered) - n
      <3>1. i + length = n + 1
        <4>1. i \in Nat /\ length \in Nat
          BY <1>2, <2>2
        <4> QED
          BY ONLY <2>3, <4>1
      <3> QED
        BY <1>1, <2>1, <2>2, <2>3, <3>1, FromIsSuffix
    <2>5. /\ Taken' = Taken + n
          /\ sent - Len(buffered) + i = Taken + i
      <3>1. /\ Taken \in Nat /\ Taken + Len(buffered) = sent /\ sent \in Nat
            /\ n \in Nat /\ i \in Nat
        BY <1>1, <1>2, BufferIsStream
      <3>2. Taken' = sent - (Len(buffered) - n)
        BY <2>1, <2>4 DEF Taken
      <3> QED
        BY ONLY <1>1, <3>1, <3>2
    <2>6. GivenOut \subseteq GivenOut' /\ Taken + i \in GivenOut'
      <3>1. /\ Len(frames') = Len(frames) + 1 /\ Len(frames) \in Nat
            /\ frames'[Len(frames) + 1] = Taken + i
            /\ \A k \in 1..Len(frames) : frames'[k] = frames[k]
        BY <2>1, <2>5, TypeFacts DEF IInv
      <3> QED
        BY <3>1 DEF GivenOut
    <2>7. \A k \in 1..n :
             /\ buffered[k].kind = "mark" /\ buffered[k].verdict = "good"
             /\ Uncovered(Taken + k) /\ Plain(Taken + k)
             => Taken + k \in GivenOut'
      BY <1>9, <2>1, <2>2, <2>3, <2>6
    <2> QED
      BY <2>1, <2>5, <2>6, <2>7, PassingHolds
  <1> QED
    BY <1>4, <1>5, <1>6, <1>7, <1>8, <1>10, <1>11 DEF Iterate

(* What is complete in the rest of a buffer was complete in all of it. *)
LEMMA CompleteInRest ==
    ASSUME NEW s \in Seq(Byte), NEW n \in 0..Len(s),
           NEW k \in CompleteFrames(From(s, n + 1))
    PROVE  /\ k \in Nat /\ k >= 1 /\ k <= Len(s) - n
           /\ Len(s) - n - k + 1 >= HeaderLength
           /\ n + k \in CompleteFrames(s)
  <1>1. PICK r \in Seq(Byte) :
           /\ r = From(s, n + 1) /\ Len(r) = Len(s) - n
           /\ \A j \in 1..(Len(s) - n) : r[j] = s[n + j]
    BY FromIsSuffix
  <1>2. /\ k \in 1..(Len(r) - 1) /\ r[k].kind = "mark"
        /\ Len(r) - k + 1 >= HeaderLength /\ r[k].verdict = "good"
        /\ Len(r) - k + 1 >= r[k].length
    BY <1>1 DEF CompleteFrames, Syncs, HasHeader, IsBuffered
  <1>3. PICK l \in Nat : l = Len(s)
    OBVIOUS
  <1>4. /\ k \in 1..(l - n - 1) /\ k \in 1..(l - n)
        /\ n + k \in 1..(l - 1) /\ n \in Nat /\ k \in Nat
    BY <1>1, <1>2, <1>3
  <1>5. r[k] = s[n + k]
    BY <1>1, <1>3, <1>4
  <1>6. HeaderLength \in Nat /\ r[k].length \in Nat
    <2>1. r[k] \in Byte
      BY <1>1, <1>3, <1>4
    <2> QED
      BY <1>2, <2>1, HeaderHoldsSync DEF Byte, Lengths
  <1>7. PICK h \in Nat, m \in Nat :
           /\ h = HeaderLength /\ m = s[n + k].length
           /\ l - n - k + 1 >= h /\ l - n - k + 1 >= m
    BY <1>1, <1>2, <1>3, <1>5, <1>6
  <1>8. l - (n + k) + 1 >= h /\ l - (n + k) + 1 >= m
    BY ONLY <1>3, <1>4, <1>7
  <1>9. n + k \in CompleteFrames(s)
    BY <1>2, <1>3, <1>4, <1>5, <1>7, <1>8
       DEF CompleteFrames, Syncs, HasHeader, IsBuffered
  <1> QED
    BY <1>3, <1>4, <1>7, <1>9

LEMMA IterateUnpins ==
    ASSUME IInv, Iterate
    PROVE  NothingPinned'
  <1> USE DEF ReturnNone, GoOn, NothingPinned
  <1>1. buffered \in Seq(Byte) /\ Len(buffered) \in Nat
    BY TypeFacts DEF IInv
  <1>2. CASE NoSyncword
    <2>1. PICK n \in 0..Len(buffered) :
             n = Len(buffered) - Kept(buffered) /\ Len(buffered) - n <= 1
      BY KeptIsByte
    <2>2. buffered' = From(buffered, n + 1)
      BY <1>2, <2>1 DEF NoSyncword, Discard
    <2>3. ASSUME NEW k \in CompleteFrames(buffered')
          PROVE  FALSE
      <3>1. /\ k \in Nat /\ k >= 1 /\ Len(buffered) - n - k + 1 >= HeaderLength
        BY <1>1, <2>2, <2>3, CompleteInRest
      <3> QED
        BY <1>1, <2>1, <3>1, HeaderHoldsSync
    <2> QED
      BY <2>3
  <1>3. CASE IncompleteHeader
    <2>1. PICK i \in Syncs(buffered) :
             ~HasHeader(buffered, i) /\ Discard(i - 1)
      BY <1>3 DEF IncompleteHeader
    <2>2. PICK n \in 0..Len(buffered) : n = i - 1 /\ i = n + 1
      BY <1>1, <2>1, SyncIsInStream
    <2>3. buffered' = From(buffered, n + 1)
      BY <2>1, <2>2 DEF Discard
    <2>4. ASSUME NEW k \in CompleteFrames(buffered')
          PROVE  FALSE
      <3>1. /\ k \in Nat /\ k >= 1 /\ Len(buffered) - n - k + 1 >= HeaderLength
        BY <1>1, <2>3, <2>4, CompleteInRest
      <3>2. ~(Len(buffered) - (n + 1) + 1 >= HeaderLength)
        BY <2>1, <2>2 DEF HasHeader
      <3> QED
        BY <1>1, <2>2, <3>1, <3>2, HeaderHoldsSync
    <2> QED
      BY <2>4
  <1>4. CASE IncompleteFrame
    <2>1. PICK i \in Syncs(buffered) :
             /\ ~IsBuffered(buffered, i) /\ Recoveries(buffered, i) = {}
             /\ Discard(i - 1)
      BY <1>4 DEF IncompleteFrame
    <2>2. PICK n \in 0..Len(buffered) : n = i - 1 /\ i = n + 1
      BY <1>1, <2>1, SyncIsInStream
    <2>3. buffered' = From(buffered, n + 1)
      BY <2>1, <2>2 DEF Discard
    <2>4. ASSUME NEW k \in CompleteFrames(buffered')
          PROVE  FALSE
      <3>1. /\ k \in Nat /\ k >= 1 /\ n + k \in CompleteFrames(buffered)
        BY <1>1, <2>3, <2>4, CompleteInRest
      <3>2. CASE k = 1
        BY <2>1, <2>2, <3>1, <3>2 DEF CompleteFrames
      <3>3. CASE k # 1
        <4>1. n + k > i
          BY <2>2, <3>1, <3>3
        <4> QED
          BY <2>1, <3>1, <4>1 DEF Recoveries
      <3> QED
        BY <3>2, <3>3
    <2> QED
      BY <2>4
  <1>5. CASE RefuseHeader \/ Recover \/ RefuseFrame \/ ReturnFrame
    <2>1. status' # "empty"
      BY <1>5 DEF RefuseHeader, Recover, RefuseFrame, ReturnFrame, Candidate,
                  AtSyncword
    <2> QED
      BY <2>1
  <1> QED
    BY <1>2, <1>3, <1>4, <1>5 DEF Iterate

LEMMA ArrivalHolds ==
    ASSUME IInv, NothingPinned, NonePassed, [Next]_vars
    PROVE  NothingPinned' /\ NonePassed'
  <1>1. CASE \E n \in 1..(Len(stream) - sent) : Push(n)
    <2>1. PICK n \in 1..(Len(stream) - sent) : Push(n)
      BY <1>1
    <2>2. /\ Taken' = Taken /\ stream' = stream /\ frames' = frames
          /\ status' = "pushed"
      BY <2>1, PushPushes DEF Reader!Push, Push
    <2>3. GivenOut' = GivenOut /\ Taken' = Taken + 0 /\ 0 \in 0..Len(buffered)
      BY <2>2, BufferIsStream, TypeFacts DEF GivenOut, IInv
    <2>4. NonePassed'
      BY <2>2, <2>3, PassingHolds
    <2> QED
      BY <2>2, <2>4 DEF NothingPinned
  <1>2. CASE NextFrame \/ UNCHANGED vars
    <2>1. /\ UNCHANGED <<stream, sent, buffered, frames>>
          /\ status' = status \/ status' = "polling"
      BY <1>2 DEF NextFrame, vars
    <2>2. NonePassed'
      BY <2>1 DEF NonePassed, Uncovered, Plain, Extent, GivenOut, Taken
    <2> QED
      BY <2>1, <2>2 DEF NothingPinned
  <1>3. CASE Iterate
    BY <1>3, IteratePasses, IterateUnpins
  <1> QED
    BY <1>1, <1>2, <1>3 DEF Next

(* What was not passed and is not pinned was given out. *)
LEMMA ArrivalFollows ==
    ASSUME IInv, NothingPinned, NonePassed
    PROVE  GoodFramesArrive
  <1> SUFFICES ASSUME status = "empty", NEW i \in GoodFrames,
                      Uncovered(i), Plain(i), i \notin GivenOut
               PROVE  FALSE
    BY DEF GoodFramesArrive
  <1>1. /\ Len(stream) \in Nat /\ stream \in Seq(Byte)
        /\ buffered \in Seq(Byte) /\ Len(buffered) \in Nat
        /\ sent \in Nat /\ sent <= Len(stream)
    BY TypeFacts DEF IInv
  <1>2. /\ i \in 1..Len(stream) /\ stream[i].kind = "mark"
        /\ stream[i].verdict = "good" /\ i + stream[i].length - 1 <= sent
        /\ stream[i] \in Byte
    BY <1>1 DEF GoodFrames
  <1>3. PICK length \in Nat :
           /\ length = stream[i].length
           /\ length >= 2 /\ length >= HeaderLength
    BY <1>2, HeaderHoldsSync DEF Byte, Lengths
  <1>4. i > Taken
    BY <1>2 DEF NonePassed
  <1>5. PICK t \in Nat : t = Taken /\ t + Len(buffered) = sent
    BY BufferIsStream
  <1>6. PICK k \in 1..(Len(buffered) - 1) :
           /\ i = t + k
           /\ Len(buffered) - k + 1 >= length
    <2>1. /\ i - t \in 1..(Len(buffered) - 1) /\ i = t + (i - t)
          /\ Len(buffered) - (i - t) + 1 >= length
      BY <1>1, <1>2, <1>3, <1>4, <1>5
    <2> QED
      BY <2>1
  <1>7. k \in 1..Len(buffered)
    BY <1>1
  <1>8. buffered[k] = stream[i]
    BY <1>5, <1>6, <1>7, BufferIsStream
  <1>9. Len(buffered) - k + 1 >= HeaderLength
    BY <1>1, <1>3, <1>6, HeaderHoldsSync
  <1>10. k \in CompleteFrames(buffered)
    BY <1>2, <1>3, <1>6, <1>8, <1>9
       DEF CompleteFrames, Syncs, HasHeader, IsBuffered
  <1> QED
    BY <1>10 DEF NothingPinned

LEMMA ArrivalInvariance == Spec => [](IInv /\ NothingPinned /\ NonePassed)
  <1>1. Init => NothingPinned /\ NonePassed
    <2> SUFFICES ASSUME Init
                 PROVE  NothingPinned /\ NonePassed
      OBVIOUS
    <2>1. NothingPinned
      BY DEF Init, NothingPinned
    <2>2. IInv
      BY InitHolds
    <2>3. Taken = 0
      BY InitReads DEF Reader!Init
    <2>4. \A i \in 1..Len(stream) : i > Taken
      BY <2>2, <2>3, TypeFacts DEF IInv
    <2> QED
      BY <2>1, <2>4 DEF NonePassed
  <1>2. IInv /\ NothingPinned /\ NonePassed /\ [Next]_vars
           => NothingPinned' /\ NonePassed'
    BY ArrivalHolds
  <1> QED
    BY <1>1, <1>2, AlwaysHolds, PTL DEF Spec

(* When next_frame has nothing to give out, no complete frame is in the    *)
(* buffer, for every stream, cut and damage.                               *)
THEOREM Unpinned == Spec => []NothingPinned
  BY ArrivalInvariance, PTL

(* Every good frame that no false header covers is given out as soon as it *)
(* was pushed and the reader drained, for every stream and every way of    *)
(* cutting it.                                                             *)
THEOREM Arrival == Spec => []GoodFramesArrive
  <1>1. IInv /\ NothingPinned /\ NonePassed => GoodFramesArrive
    BY ArrivalFollows
  <1> QED
    BY <1>1, ArrivalInvariance, PTL

-----------------------------------------------------------------------------
(* Requests end *)

(* What is left to do: a byte has to be pushed and then to be passed, and  *)
(* a request to be made and answered.                                      *)
Pace ==
    IF status = "empty" THEN 0 ELSE IF status = "polling" THEN 1 ELSE 2

LeftToDo == 5 * (Len(stream) - sent) + 2 * Len(buffered) + Pace

(* A frame in the buffer, and what lies in front of it. *)
LEMMA FrameIsTaken ==
    ASSUME IInv, NEW i \in Syncs(buffered), IsBuffered(buffered, i)
    PROVE  \E n \in 0..Len(buffered) :
              /\ n >= 2
              /\ n = i - 1 + buffered[i].length
              /\ i + buffered[i].length = n + 1
  <1>1. PICK length \in Nat : length = buffered[i].length /\ length >= 2
    BY SyncIsInStream
  <1>2. PICK held \in Nat : held = Len(buffered)
    BY TypeFacts DEF IInv
  <1>3. i \in Nat /\ i >= 1
    BY SyncIsInStream
  <1>4. held - i + 1 >= length
    BY <1>1, <1>2 DEF IsBuffered
  <1>5. PICK n \in 0..held : n = i - 1 + length /\ n >= 2 /\ i + length = n + 1
    <2>1. i - 1 + length \in 0..held /\ i - 1 + length >= 2
      BY ONLY <1>1, <1>3, <1>4, held \in Nat
    <2> QED
      BY ONLY <1>1, <1>3, <2>1
  <1> QED
    BY ONLY <1>1, <1>2, <1>5

(* An iteration that goes on discards a byte at least, one that returns a  *)
(* frame takes that.                                                       *)
LEMMA IterateShrinks ==
    ASSUME IInv, Iterate
    PROVE  /\ status = "polling" /\ stream' = stream /\ sent' = sent
           /\ \E n \in 0..Len(buffered) :
                 /\ Len(buffered') = Len(buffered) - n
                 /\ \/ status' = "empty"
                    \/ status' = "polling" /\ n >= 1
                    \/ status' = "pushed" /\ n >= 2
  <1> USE DEF ReturnNone, GoOn
  <1>1. buffered \in Seq(Byte) /\ Len(buffered) \in Nat
    BY TypeFacts DEF IInv
  <1>2. \A n \in 0..Len(buffered) :
           Discard(n) => Len(buffered') = Len(buffered) - n
    BY <1>1, FromIsSuffix DEF Discard
  <1>3. status = "polling" /\ stream' = stream /\ sent' = sent
    BY DEF Iterate, NoSyncword, IncompleteHeader, RefuseHeader,
           IncompleteFrame, Recover, RefuseFrame, ReturnFrame, Candidate,
           AtSyncword
  <1>4. CASE NoSyncword
    <2>1. Len(buffered) - Kept(buffered) \in 0..Len(buffered)
      BY KeptIsByte
    <2> QED
      BY <1>2, <1>3, <1>4, <2>1 DEF NoSyncword
  <1>5. CASE IncompleteHeader \/ IncompleteFrame
    <2>1. PICK i \in Syncs(buffered) : Discard(i - 1) /\ status' = "empty"
      BY <1>5 DEF IncompleteHeader, IncompleteFrame
    <2>2. i - 1 \in 0..Len(buffered)
      BY <1>1, SyncIsInStream
    <2> QED
      BY <1>2, <1>3, <2>1, <2>2
  <1>6. CASE RefuseHeader
    <2>1. PICK i \in Syncs(buffered) : Discard(i) /\ status' = status
      BY <1>6 DEF RefuseHeader
    <2>2. i \in 0..Len(buffered) /\ i >= 1
      BY <1>1, SyncIsInStream
    <2> QED
      BY <1>2, <1>3, <2>1, <2>2
  <1>7. CASE Recover
    <2>1. PICK i \in Syncs(buffered) :
             /\ Recoveries(buffered, i) # {}
             /\ Discard(Min(Recoveries(buffered, i)) - 1)
             /\ status' = status
      BY <1>7 DEF Recover
    <2>2. /\ Recoveries(buffered, i) \subseteq Syncs(buffered)
          /\ \A j \in Recoveries(buffered, i) : j > i
          /\ Recoveries(buffered, i) \in SUBSET Nat
      BY <1>1 DEF Recoveries, CompleteFrames, Syncs
    <2>3. PICK m \in Recoveries(buffered, i) : m = Min(Recoveries(buffered, i))
      BY <2>1, <2>2, MinIsMember
    <2>4. m \in Nat /\ i \in Nat /\ i >= 1 /\ m > i /\ m <= Len(buffered) - 1
      BY <2>2, <2>3, SyncIsInStream
    <2>5. m - 1 \in 0..Len(buffered) /\ m - 1 >= 1
      BY ONLY <1>1, <2>4
    <2> QED
      BY <1>2, <1>3, <2>1, <2>3, <2>5
  <1>8. CASE RefuseFrame
    <2>1. PICK i \in Syncs(buffered) :
             /\ IsBuffered(buffered, i)
             /\ Discard(i - 1 + buffered[i].length)
             /\ status' = status
      BY <1>8 DEF RefuseFrame
    <2>2. PICK n \in 0..Len(buffered) :
             n >= 2 /\ n = i - 1 + buffered[i].length
      BY <2>1, FrameIsTaken
    <2> QED
      BY <1>2, <1>3, <2>1, <2>2
  <1>9. CASE ReturnFrame
    <2>1. PICK i \in Syncs(buffered) :
             /\ IsBuffered(buffered, i)
             /\ buffered' = From(buffered, i + buffered[i].length)
             /\ status' = "pushed"
      BY <1>9 DEF ReturnFrame
    <2>2. PICK n \in 0..Len(buffered) :
             n >= 2 /\ i + buffered[i].length = n + 1
      BY <2>1, FrameIsTaken
    <2>3. Len(buffered') = Len(buffered) - n
      BY <1>1, <2>1, <2>2, FromIsSuffix
    <2> QED
      BY <1>3, <2>1, <2>2, <2>3
  <1> QED
    BY <1>4, <1>5, <1>6, <1>7, <1>8, <1>9 DEF Iterate

LEMMA StepShrinks ==
    IInv /\ [Next]_vars => [LeftToDo' \in Nat /\ LeftToDo' < LeftToDo]_vars
  <1> SUFFICES ASSUME IInv, Next
               PROVE  LeftToDo' \in Nat /\ LeftToDo' < LeftToDo
    OBVIOUS
  <1> PICK unsent \in Nat : unsent = Len(stream) - sent
    BY TypeFacts DEF IInv
  <1> PICK held \in Nat : held = Len(buffered)
    BY TypeFacts DEF IInv
  <1>1. status \in {"pushed", "polling", "empty"}
    BY DEF IInv, TypeOK
  <1>2. LeftToDo = 5 * unsent + 2 * held + Pace
    BY DEF LeftToDo
  <1>3. CASE \E n \in 1..(Len(stream) - sent) : Push(n)
    <2>1. PICK n \in 1..unsent : Push(n)
      BY <1>3
    <2>2. /\ stream' = stream /\ sent' = sent + n /\ status' = "pushed"
          /\ status # "polling"
      BY <2>1 DEF Push
    <2>3. Len(buffered') = held + n
      <3>1. /\ stream \in Seq(Byte) /\ buffered \in Seq(Byte)
            /\ sent \in Nat /\ Len(stream) \in Nat /\ n \in Nat
            /\ sent + n <= Len(stream)
        BY <2>1, TypeFacts DEF IInv, Push
      <3>2. /\ SubSeq(stream, sent + 1, sent + n) \in Seq(Byte)
            /\ Len(SubSeq(stream, sent + 1, sent + n)) = n
        BY <3>1
      <3> QED
        BY <2>1, <3>1, <3>2 DEF Push
    <2>4. Len(stream') - sent' = unsent - n
      BY <2>2, TypeFacts DEF IInv
    <2>5. Pace \in {0, 2} /\ Pace' = 2
      BY <2>2, <1>1 DEF Pace
    <2>6. LeftToDo' = 5 * (unsent - n) + 2 * (held + n) + 2
      BY <2>3, <2>4, <2>5 DEF LeftToDo
    <2> QED
      BY ONLY <1>2, <2>5, <2>6, unsent \in Nat, held \in Nat, n \in 1..unsent
  <1>4. CASE NextFrame
    <2>1. LeftToDo' = 5 * unsent + 2 * held + 1
      BY <1>4 DEF NextFrame, LeftToDo, Pace
    <2>2. Pace = 2
      BY <1>4 DEF NextFrame, Pace
    <2> QED
      BY <1>2, <2>1, <2>2
  <1>5. CASE Iterate
    <2>1. PICK n \in 0..held :
             /\ Len(buffered') = held - n
             /\ \/ status' = "empty"
                \/ status' = "polling" /\ n >= 1
                \/ status' = "pushed" /\ n >= 2
      BY <1>5, IterateShrinks
    <2>2. status = "polling" /\ stream' = stream /\ sent' = sent
      BY <1>5, IterateShrinks
    <2>3. /\ Pace = 1
          /\ \/ Pace' = 0
             \/ Pace' = 1 /\ n >= 1
             \/ Pace' = 2 /\ n >= 2
      BY <2>1, <2>2 DEF Pace
    <2>4. LeftToDo' = 5 * unsent + 2 * (held - n) + Pace'
      BY <2>1, <2>2 DEF LeftToDo
    <2> QED
      BY ONLY <1>2, <2>3, <2>4, unsent \in Nat, held \in Nat, n \in 0..held
  <1> QED
    BY <1>3, <1>4, <1>5 DEF Next

(* The heart of RequestsEnd, for every stream: whatever is pushed, asked   *)
(* for, refused or recovered from, every step leaves less to do, so that   *)
(* next_frame cannot loop on a damaged buffer and a drain cannot ask       *)
(* forever.  An iteration that takes no byte returns None.                 *)
THEOREM EveryStepShrinks ==
    Spec => [][LeftToDo' \in Nat /\ LeftToDo' < LeftToDo]_vars
  BY AlwaysHolds, StepShrinks, PTL DEF Spec
=============================================================================
