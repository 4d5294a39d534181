-------------------------- MODULE IncrementalFraming ------------------------
(***************************************************************************)
(* The resynchronizing frame readers of adts.rs (AdtsIncrementalStream)    *)
(* and loas.rs (LoasIncrementalStream).  An application pushes chunks cut  *)
(* anywhere and asks for frames until there is none.                       *)
(*                                                                         *)
(* A byte is what the reader can tell of it: "data"; "half", a first sync  *)
(* byte that no second one follows; or "mark", a first sync byte with its  *)
(* second, and then the length its header gives, the header's included,    *)
(* and the verdict on it: the header is refused ("header"), or the bytes   *)
(* of that length are ("frame"), or it is a frame ("good").  LOAS headers  *)
(* and frames are never refused.  A mark is seen once its second byte is.  *)
(* The stream and the frames given out are kept to state what is right.    *)
(***************************************************************************)
EXTENDS Integers, Sequences, FiniteSets, FiniteSetsExt

CONSTANTS
    Streams,        \* the streams an application may push
    HeaderLength    \* bytes of a header

Lengths == HeaderLength..(HeaderLength + 8)
Byte == [kind : {"data", "half"}]
        \cup [kind : {"mark"}, verdict : {"good", "header", "frame"},
              length : Lengths]

ASSUME StreamsAreBytes == Streams \subseteq Seq(Byte)
ASSUME HeaderHoldsSync == HeaderLength \in Nat /\ HeaderLength >= 2
(* The second byte of a syncword begins another one in 0xff 0xff only,     *)
(* which is a mark whose header is refused.                                *)
ASSUME SyncwordsApart ==
    \A s \in Streams : \A i \in 1..(Len(s) - 1) :
        \/ s[i].kind = "data"
        \/ s[i].kind = "mark" /\ s[i].verdict = "header"
        \/ s[i + 1].kind = "data"

VARIABLES
    stream,     \* everything the application will push
    sent,       \* bytes of it pushed so far
    buffered,   \* Vec<u8>
    discarded,  \* discarded_bytes
    frames,     \* where the frames given out begin in the stream, in order
    status      \* "polling": in next_frame; "empty": it returned None last

vars == <<stream, sent, buffered, discarded, frames, status>>

-----------------------------------------------------------------------------
(* What the reader sees in a buffer. *)

Syncs(s) == {i \in 1..(Len(s) - 1) : s[i].kind = "mark"}

From(s, i) == SubSeq(s, i, Len(s))

HasHeader(s, i) == Len(s) - i + 1 >= HeaderLength

IsBuffered(s, i) == Len(s) - i + 1 >= s[i].length

(* find_complete_adts_frame, find_complete_loas_frame *)
CompleteFrames(s) ==
    {i \in Syncs(s) : HasHeader(s, i) /\ s[i].verdict = "good"
                      /\ IsBuffered(s, i)}

(* Mutant of Recoveries: a stuck candidate is always waited for. *)
SearchNothing(s, i) == {}

(* The search looks behind the candidate the buffer begins with. *)
Recoveries(s, i) == {j \in CompleteFrames(s) : j > i}

(* Mutant of Kept: the half of a syncword at the end of a chunk goes too. *)
KeepNothing(s) == 0

(* The last byte may be the first half of a syncword. *)
Kept(s) == IF s # <<>> /\ s[Len(s)].kind # "data" THEN 1 ELSE 0

Discard(n) ==
    /\ buffered' = From(buffered, n + 1)
    /\ discarded' = discarded + n

-----------------------------------------------------------------------------
Init ==
    /\ stream \in Streams
    /\ sent = 0
    /\ buffered = <<>>
    /\ discarded = 0
    /\ frames = <<>>
    /\ status = "pushed"

Push(n) ==
    /\ status # "polling"
    /\ sent + n <= Len(stream)
    /\ sent' = sent + n
    /\ buffered' = buffered \o SubSeq(stream, sent + 1, sent + n)
    /\ status' = "pushed"
    /\ UNCHANGED <<stream, discarded, frames>>

NextFrame ==
    /\ status = "pushed"
    /\ status' = "polling"
    /\ UNCHANGED <<stream, sent, buffered, discarded, frames>>

ReturnNone == status' = "empty" /\ UNCHANGED <<stream, sent, frames>>
GoOn       == UNCHANGED <<stream, sent, frames, status>>

NoSyncword ==
    /\ status = "polling"
    /\ Syncs(buffered) = {}
    /\ Discard(Len(buffered) - Kept(buffered))
    /\ ReturnNone

(* The first syncword, with one action for each way its iteration ends. *)
AtSyncword(i) ==
    /\ status = "polling"
    /\ Syncs(buffered) # {}
    /\ i = Min(Syncs(buffered))

IncompleteHeader == \E i \in Syncs(buffered) :
    /\ AtSyncword(i)
    /\ ~HasHeader(buffered, i)
    /\ Discard(i - 1)
    /\ ReturnNone

(* Mutant of RefuseHeader: the refused syncword itself stays. *)
RefuseAndStay == \E i \in Syncs(buffered) :
    /\ AtSyncword(i)
    /\ HasHeader(buffered, i)
    /\ buffered[i].verdict = "header"
    /\ Discard(i - 1)
    /\ GoOn

RefuseHeader == \E i \in Syncs(buffered) :
    /\ AtSyncword(i)
    /\ HasHeader(buffered, i)
    /\ buffered[i].verdict = "header"
    /\ Discard(i)
    /\ GoOn

Candidate(i) ==
    /\ AtSyncword(i)
    /\ HasHeader(buffered, i)
    /\ buffered[i].verdict # "header"

IncompleteFrame == \E i \in Syncs(buffered) :
    /\ Candidate(i)
    /\ ~IsBuffered(buffered, i)
    /\ Recoveries(buffered, i) = {}
    /\ Discard(i - 1)
    /\ ReturnNone

Recover == \E i \in Syncs(buffered) :
    /\ Candidate(i)
    /\ ~IsBuffered(buffered, i)
    /\ Recoveries(buffered, i) # {}
    /\ Discard(Min(Recoveries(buffered, i)) - 1)
    /\ GoOn

(* Mutant of RefuseFrame: only the frame is counted, not what precedes it. *)
RefuseUncounted == \E i \in Syncs(buffered) :
    /\ Candidate(i)
    /\ IsBuffered(buffered, i)
    /\ buffered[i].verdict = "frame"
    /\ buffered' = From(buffered, i + buffered[i].length)
    /\ discarded' = discarded + buffered[i].length
    /\ GoOn

RefuseFrame == \E i \in Syncs(buffered) :
    /\ Candidate(i)
    /\ IsBuffered(buffered, i)
    /\ buffered[i].verdict = "frame"
    /\ Discard(i - 1 + buffered[i].length)
    /\ GoOn

(* Mutant of ReturnFrame: the place is taken behind the frame. *)
ReturnBehind == \E i \in Syncs(buffered) :
    /\ Candidate(i)
    /\ IsBuffered(buffered, i)
    /\ buffered[i].verdict = "good"
    /\ buffered' = From(buffered, i + buffered[i].length)
    /\ discarded' = discarded + i - 1
    /\ frames' = Append(frames, sent - Len(buffered') + 1)
    /\ status' = "pushed"
    /\ UNCHANGED <<stream, sent>>

(* The application asks again after a frame. *)
ReturnFrame == \E i \in Syncs(buffered) :
    /\ Candidate(i)
    /\ IsBuffered(buffered, i)
    /\ buffered[i].verdict = "good"
    /\ buffered' = From(buffered, i + buffered[i].length)
    /\ discarded' = discarded + i - 1
    /\ frames' = Append(frames, sent - Len(buffered) + i)
    /\ status' = "pushed"
    /\ UNCHANGED <<stream, sent>>

Iterate ==
    \/ NoSyncword
    \/ IncompleteHeader
    \/ RefuseHeader
    \/ IncompleteFrame
    \/ Recover
    \/ RefuseFrame
    \/ ReturnFrame

Next ==
    \/ \E n \in 1..(Len(stream) - sent) : Push(n)
    \/ NextFrame
    \/ Iterate

(* A call runs to its end, and the application asks until there is none. *)
Spec == Init /\ [][Next]_vars /\ WF_vars(NextFrame) /\ WF_vars(Iterate)

-----------------------------------------------------------------------------
TypeOK ==
    /\ stream \in Streams
    /\ sent \in 0..Len(stream)
    /\ buffered \in Seq(Byte)
    /\ discarded \in Nat
    /\ frames \in Seq(1..Len(stream))
    /\ status \in {"pushed", "polling", "empty"}

Taken == sent - Len(buffered)
Extent(i) == i..(i + stream[i].length - 1)
Framed == UNION {Extent(frames[k]) : k \in 1..Len(frames)}

(* The frames given out are whole, valid, in the order of the stream and   *)
(* apart from each other, and discarded_bytes is exactly the number of     *)
(* bytes taken from the buffer that are in none of them: what a caller     *)
(* computes from it is neither short nor double.                           *)
EveryByteAccounted ==
    /\ buffered = SubSeq(stream, Taken + 1, sent)
    /\ \A k \in 1..Len(frames) :
          /\ stream[frames[k]].kind = "mark"
          /\ stream[frames[k]].verdict = "good"
          /\ Extent(frames[k]) \subseteq 1..Taken
          /\ k > 1 => frames[k - 1] + stream[frames[k - 1]].length <= frames[k]
    /\ discarded = Cardinality((1..Taken) \ Framed)

(* Nothing before i, once synchronized on, reaches over it. *)
Uncovered(i) ==
    \A j \in 1..(i - 1) :
        stream[j].kind = "mark" /\ stream[j].verdict # "header"
        => j + stream[j].length <= i

(* No frame lies inside i and ends before i does. *)
Plain(i) ==
    \A j \in Extent(i) \ {i} :
        j <= Len(stream) /\ stream[j].kind = "mark" /\ stream[j].verdict = "good"
        => j + stream[j].length >= i + stream[i].length

GoodFrames ==
    {i \in 1..Len(stream) :
        /\ stream[i].kind = "mark" /\ stream[i].verdict = "good"
        /\ i + stream[i].length - 1 <= sent}

GivenOut == {frames[k] : k \in 1..Len(frames)}

(* However the stream is cut into chunks and whatever damage lies around   *)
(* it, a good frame that no false header reaches over and that has no      *)
(* frame inside is given out once all of it was pushed and the application *)
(* has drained the reader: a syncword cut in two, a refused header and a   *)
(* truncated frame cost their own bytes only.                              *)
GoodFramesArrive ==
    status = "empty" =>
        \A i \in GoodFrames : Uncovered(i) /\ Plain(i) => i \in GivenOut

(* A damaged header does not pin the reader: when it has nothing to give   *)
(* out, no complete frame is in its buffer.                                *)
NothingPinned == status = "empty" => CompleteFrames(buffered) = {}

(* Every request is answered: an iteration that goes on has discarded      *)
(* something, so the loop of next_frame ends, and the drain with it.       *)
RequestsEnd == (status # "empty") ~> (status = "empty")

Whole ==
    {[first |-> i, last |-> i + stream[i].length - 1] :
        i \in {j \in 1..Len(stream) :
                 stream[j].kind = "mark" /\ stream[j].verdict = "good"}}

Reader == INSTANCE FrameReader WITH
    whole <- Whole, pushed <- sent, passed <- Taken, skipped <- discarded

(* The reader implements FrameReader: whatever it finds in its buffer, a   *)
(* step passes over bytes once, counts those it skips, and gives out only  *)
(* whole frames of the stream that lie behind everything it has passed.    *)
ImplementsReader == Reader!Spec

=============================================================================
