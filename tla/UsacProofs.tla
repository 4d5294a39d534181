------------------------------ MODULE UsacProofs ------------------------------
(***************************************************************************)
(* Proofs about UsacDecoder, for prerolls nested to every depth and all    *)
(* numbers of frames: the preroll depth, the seam between the frames that  *)
(* are played, and random access.                                          *)
(***************************************************************************)
EXTENDS UsacDecoder, TLAPS

-----------------------------------------------------------------------------
(* Types *)

(* What a decoder keeps is never from before it was rebuilt. *)
Age == Nothing..Middle

Memory == [context : Age, overlap : Age, lpd : Age]

Decoders ==
    [config : Configs,
     channel : UNION {[Channels(config) -> Memory] : config \in Configs},
     downmix : Age, strayed : SUBSET {1, 2}, gain : Age,
     pending : PreRolls \cup {NoPreRoll},
     depth : Int, source : Int, last : Nat]

Stages ==
    {"leading", "preroll", "nested", "core", "trailing", "finish", "failed"}

Calls ==
    [independent : BOOLEAN, stage : Stages, units : Nat, opened : BOOLEAN,
     heard : Age, coded : Age, stray : BOOLEAN]

TypeOK ==
    /\ decoder \in Decoders
    /\ decoder.channel \in [Channels(decoder.config) -> Memory]
    /\ calls \in Seq(Calls)
    /\ played \in Nat
    /\ tail \in Nat
    /\ asked \in BOOLEAN

-----------------------------------------------------------------------------
(* The invariants *)

(* The callers of the innermost access unit are in their prerolls. *)
CallersWait == \A i \in 1..(Len(calls) - 1) : calls[i].stage = "nested"

(* The prerolls that are open, the innermost access unit's own included. *)
OpenPreRolls ==
    IF calls = <<>> THEN 0
    ELSE IF Top.stage = "nested" THEN Len(calls) ELSE Len(calls) - 1

DepthIsOpen == decoder.depth = OpenPreRolls

(* The seam is kept at every moment, whatever is in progress. *)
SeamIsKept ==
    /\ decoder.last = tail
    /\ decoder.source = IF asked THEN tail ELSE Nothing

IInv == TypeOK /\ CallersWait /\ DepthIsOpen /\ SeamIsKept

(* The spectra and overlaps of the FD channels are of the last access      *)
(* point or since, whichever unit failed after it, but for the overlaps of *)
(* frames that strayed.                                                    *)
FdIsRecent ==
    \A c \in Core : /\ decoder.channel[c].context <= Young
                    /\ \/ decoder.channel[c].overlap <= Young
                       \/ c \in decoder.strayed

(* What is heard in the FD channels of an access unit. *)
Recent(x) == x.coded <= Young \/ x.stray

CodedIsRecent == \A i \in 1..Len(calls) : Recent(calls[i])

RInv == FdIsRecent /\ CodedIsRecent

-----------------------------------------------------------------------------
(* Ages *)

LEMMA AgeIs ==
    /\ Age = {Nothing, Young, Middle}
    /\ Nothing \in Age /\ Young \in Age /\ Middle \in Age
    /\ \A a \in Age : a \in Int /\ a # Old
  BY DEF Age, Nothing, Young, Middle, Old

LEMMA OldestIsMember ==
    ASSUME NEW S \in SUBSET Age, S # {}
    PROVE  Max(S) \in S /\ \A a \in S : a <= Max(S)
  <1>1. \E a \in S : \A b \in S : a >= b
    <2>1. S \subseteq {-1, 0, 1}
      BY DEF Age, Nothing, Middle
    <2>2. CASE 1 \in S
      BY <2>1, <2>2
    <2>3. CASE 1 \notin S /\ 0 \in S
      BY <2>1, <2>3
    <2>4. CASE 1 \notin S /\ 0 \notin S
      <3>1. \A b \in S : b = -1
        BY <2>1, <2>4
      <3>2. PICK b \in S : TRUE
        OBVIOUS
      <3> QED
        BY <3>1, <3>2
    <2> QED
      BY <2>2, <2>3, <2>4
  <1>2. Max(S) \in S /\ \A b \in S : Max(S) >= b
    BY <1>1 DEF Max
  <1> QED
    BY <1>2, AgeIs

LEMMA OlderType ==
    ASSUME NEW a \in Age, NEW least \in Age
    PROVE  Older(a, least) \in Age
  <1>1. {a, least} \in SUBSET Age /\ {a, least} # {}
    OBVIOUS
  <1> QED
    BY <1>1, OldestIsMember, AgeIs DEF Older

(* Remembering longer keeps everything of a decoder but the ages. *)
LEMMA AgedKeeps ==
    ASSUME NEW d \in Decoders, NEW age
    PROVE  /\ Aged(d, age).source = d.source
           /\ Aged(d, age).last = d.last
           /\ Aged(d, age).depth = d.depth
  BY DEF Aged, Decoders

LEMMA AgedType ==
    ASSUME NEW d \in Decoders, d.channel \in [Channels(d.config) -> Memory]
    PROVE  /\ Aged(d, Middle) \in Decoders
           /\ Aged(d, Middle).config = d.config
           /\ Aged(d, Middle).channel \in [Channels(d.config) -> Memory]
  <1> PICK old : old = d.channel
    OBVIOUS
  <1> PICK new : new = [c \in DOMAIN old |->
                          [part \in DOMAIN old[c] |-> Older(old[c][part], Middle)]]
    OBVIOUS
  <1>1. ASSUME NEW c \in Channels(d.config)
        PROVE  new[c] \in Memory
    <2>1. PICK m \in Memory : m = old[c]
      OBVIOUS
    <2>2. DOMAIN m = {"context", "overlap", "lpd"}
      BY DEF Memory
    <2>3. /\ m["context"] \in Age /\ m["overlap"] \in Age /\ m["lpd"] \in Age
      BY DEF Memory
    <2>4. new[c] = [part \in DOMAIN m |-> Older(m[part], Middle)]
      BY <2>1
    <2>5. new[c] = [context |-> Older(m["context"], Middle),
                    overlap |-> Older(m["overlap"], Middle),
                    lpd |-> Older(m["lpd"], Middle)]
      BY <2>2, <2>4
    <2> QED
      BY <2>3, <2>5, OlderType, AgeIs DEF Memory
  <1>2. new \in [Channels(d.config) -> Memory]
    BY <1>1
  <1>3. Aged(d, Middle) =
          [d EXCEPT !.channel = new,
                    !.downmix = Older(@, Middle),
                    !.gain = Older(@, Middle)]
    BY DEF Aged
  <1>4. d.config \in Configs /\ d.downmix \in Age /\ d.gain \in Age
    BY DEF Decoders
  <1>5. Older(d.downmix, Middle) \in Age /\ Older(d.gain, Middle) \in Age
    BY <1>4, OlderType, AgeIs
  <1> QED
    BY <1>2, <1>3, <1>4, <1>5 DEF Decoders

(* A decoder without a past. *)
Blank(d) ==
    \A c \in DOMAIN d.channel : /\ d.channel[c].context = Nothing
                                /\ d.channel[c].overlap = Nothing

LEMMA FreshType ==
    ASSUME NEW k \in Configs
    PROVE  /\ FreshDecoder(k) \in Decoders
           /\ FreshDecoder(k).config = k
           /\ FreshDecoder(k).channel \in [Channels(k) -> Memory]
           /\ FreshDecoder(k).source = Nothing
           /\ FreshDecoder(k).last = 0 /\ FreshDecoder(k).depth = 0
           /\ Blank(FreshDecoder(k))
  <1> PICK blank : blank = [context |-> Nothing, overlap |-> Nothing,
                            lpd |-> Nothing]
    OBVIOUS
  <1> PICK channel : channel = [c \in Channels(k) |-> blank]
    OBVIOUS
  <1>1. blank \in Memory /\ blank.context = Nothing /\ blank.overlap = Nothing
    BY AgeIs DEF Memory
  <1>2. channel \in [Channels(k) -> Memory]
    BY <1>1
  <1>3. FreshDecoder(k) =
          [config |-> k, channel |-> channel, downmix |-> Nothing,
           strayed |-> {}, gain |-> Nothing, pending |-> NoPreRoll,
           depth |-> 0, source |-> Nothing, last |-> 0]
    BY DEF FreshDecoder
  <1>4. FreshDecoder(k) \in Decoders
    BY <1>2, <1>3, AgeIs DEF Decoders, Nothing
  <1> QED
    BY <1>1, <1>2, <1>3, <1>4 DEF Blank

-----------------------------------------------------------------------------
(* The stack of access units *)

LEMMA TopType ==
    ASSUME calls \in Seq(Calls), calls # <<>>
    PROVE  /\ Len(calls) \in Nat /\ Len(calls) >= 1
           /\ Top = calls[Len(calls)] /\ Top \in Calls
  BY DEF Last, Top

LEMMA LastReplaced ==
    ASSUME NEW s \in Seq(Calls), s # <<>>, NEW x \in Calls,
           NEW t, t = [s EXCEPT ![Len(s)] = x]
    PROVE  /\ t \in Seq(Calls) /\ Len(t) = Len(s) /\ t[Len(s)] = x
           /\ \A i \in 1..(Len(s) - 1) : t[i] = s[i]
  <1> PICK n \in Nat : n = Len(s)
    OBVIOUS
  <1>1. n >= 1 /\ s \in [1..n -> Calls]
    OBVIOUS
  <1>2. t = [s EXCEPT ![n] = x]
    OBVIOUS
  <1>3. /\ t \in [1..n -> Calls] /\ t[n] = x
        /\ \A i \in 1..(n - 1) : t[i] = s[i]
    BY ONLY <1>1, <1>2, n \in Nat, x \in Calls
  <1>4. t \in Seq(Calls) /\ Len(t) = n
    BY ONLY <1>3, n \in Nat
  <1> QED
    BY ONLY <1>3, <1>4, n = Len(s)

(* The innermost access unit goes on, and the others wait. *)
LEMMA TopChanges ==
    ASSUME calls \in Seq(Calls), CallersWait, calls # <<>>,
           NEW x \in Calls, calls' = [calls EXCEPT ![Len(calls)] = x]
    PROVE  /\ calls' \in Seq(Calls) /\ Len(calls') = Len(calls)
           /\ calls' # <<>> /\ Top' = x
           /\ \A i \in 1..(Len(calls) - 1) : calls'[i] = calls[i]
           /\ CallersWait'
           /\ OpenPreRolls' = IF x.stage = "nested" THEN Len(calls)
                              ELSE Len(calls) - 1
  <1>1. Len(calls) \in Nat /\ Len(calls) >= 1
    BY TopType
  <1>2. /\ calls' \in Seq(Calls) /\ Len(calls') = Len(calls)
        /\ \A i \in 1..(Len(calls) - 1) : calls'[i] = calls[i]
        /\ calls'[Len(calls)] = x
    <2> PICK s : s = calls
      OBVIOUS
    <2> PICK t : t = calls'
      OBVIOUS
    <2>1. /\ s \in Seq(Calls) /\ s # <<>>
          /\ t = [s EXCEPT ![Len(s)] = x]
      OBVIOUS
    <2>2. /\ t \in Seq(Calls) /\ Len(t) = Len(s) /\ t[Len(s)] = x
          /\ \A i \in 1..(Len(s) - 1) : t[i] = s[i]
      BY ONLY <2>1, LastReplaced, x \in Calls
    <2> QED
      BY ONLY <2>2, s = calls, t = calls'
  <1>3. calls' # <<>>
    <2>1. Len(calls') >= 1 /\ Len(<<>>) = 0
      BY ONLY <1>1, <1>2
    <2> QED
      BY ONLY <2>1
  <1>4. Top' = x
    BY <1>2 DEF Top, Last
  <1>5. CallersWait'
    BY <1>2 DEF CallersWait
  <1> QED
    BY <1>2, <1>3, <1>4, <1>5 DEF OpenPreRolls

(* What a step of the innermost access unit has to show. *)
LEMMA TopHolds ==
    ASSUME IInv, calls # <<>>,
           NEW x \in Calls, calls' = [calls EXCEPT ![Len(calls)] = x],
           decoder' \in Decoders,
           decoder'.channel \in [Channels(decoder'.config) -> Memory],
           played' = played, tail' = tail, asked' \in BOOLEAN,
           decoder'.depth = IF x.stage = "nested" THEN Len(calls)
                            ELSE Len(calls) - 1,
           SeamIsKept'
    PROVE  IInv'
  BY TopChanges DEF IInv, TypeOK, DepthIsOpen

(* Another stage, with the decoder as deep as before. *)
LEMMA StageHolds ==
    ASSUME IInv, calls # <<>>,
           NEW stage \in Stages \ {"nested"}, To(stage), Top.stage # "nested",
           decoder' \in Decoders,
           decoder'.channel \in [Channels(decoder'.config) -> Memory],
           decoder'.depth = decoder.depth,
           played' = played, tail' = tail, asked' \in BOOLEAN,
           SeamIsKept'
    PROVE  IInv'
  <1> PICK x : x = [Top EXCEPT !.stage = stage]
    OBVIOUS
  <1>1. calls \in Seq(Calls)
    BY DEF IInv, TypeOK
  <1>2. x \in Calls /\ x.stage = stage
    BY <1>1, TopType DEF Calls
  <1>3. calls' = [calls EXCEPT ![Len(calls)] = x]
    BY <1>1, TopType DEF To
  <1>4. decoder.depth = Len(calls) - 1
    BY DEF IInv, DepthIsOpen, OpenPreRolls
  <1> QED
    BY <1>2, <1>3, <1>4, TopHolds

-----------------------------------------------------------------------------
(* The core of an access unit *)

LEMMA CoreType ==
    ASSUME TypeOK
    PROVE  /\ Core = Channels(decoder.config)
           /\ Core \in {{1}, {1, 2}}
           /\ \A c \in Core : /\ c \in Int /\ c < 3
                             /\ decoder.channel[c].context \in Age
                             /\ decoder.channel[c].overlap \in Age
                             /\ decoder.channel[c].lpd \in Age
           /\ decoder.downmix \in Age
  <1>1. Core = Channels(decoder.config)
    BY DEF TypeOK, Core
  <1>2. Core \in {{1}, {1, 2}}
    BY <1>1 DEF Channels
  <1>3. \A c \in Core : decoder.channel[c] \in Memory
    BY <1>1 DEF TypeOK
  <1>4. decoder.downmix \in Age
    BY DEF TypeOK, Decoders
  <1> QED
    BY <1>1, <1>2, <1>3, <1>4 DEF Memory

LEMMA BeforeType ==
    ASSUME TypeOK, NEW s \in Syntax
    PROVE  /\ Before(s) \in Decoders
           /\ Before(s).config = decoder.config
           /\ Before(s).channel \in [Core -> Memory]
           /\ Before(s).source = decoder.source
           /\ Before(s).last = decoder.last
           /\ Before(s).depth = decoder.depth
  <1>1. /\ decoder \in Decoders
        /\ decoder.channel \in [Channels(decoder.config) -> Memory]
    BY DEF TypeOK
  <1> QED
    BY <1>1, CoreType, AgedType, AgedKeeps DEF Before

LEMMA ContextType ==
    ASSUME TypeOK, NEW s \in Syntax
    PROVE  /\ \A c \in Core : Context(s, c) \in Age
           /\ Both(s) \in Age
           /\ \A c \in Core : Context(s, c) <= Both(s)
           /\ \E c \in Core : Both(s) = Context(s, c)
  <1>1. \A c \in Core : Context(s, c) \in Age
    BY BeforeType, AgeIs DEF Context, Memory
  <1> PICK S : S = {Context(s, c) : c \in Core}
    OBVIOUS
  <1>2. S \in SUBSET Age /\ S # {}
    BY <1>1, CoreType
  <1>3. Max(S) \in S /\ \A a \in S : a <= Max(S)
    BY ONLY <1>2, OldestIsMember
  <1>4. Both(s) = Max(S)
    BY DEF Both
  <1> QED
    BY <1>1, <1>3, <1>4

LEMMA SpectrumType ==
    ASSUME TypeOK, NEW s \in Syntax, NEW c \in Core
    PROVE  /\ Spectrum(s, c) \in Age
           /\ \/ Spectrum(s, c) = Context(s, c)
              \/ Spectrum(s, c) = Both(s)
              \/ s.pair = "previous" /\ Spectrum(s, c) = decoder.downmix
  <1> PICK S : S = {Both(s), decoder.downmix}
    OBVIOUS
  <1>1. Both(s) \in Age /\ Context(s, c) \in Age /\ decoder.downmix \in Age
    BY ContextType, CoreType
  <1>2. S \in SUBSET Age /\ S # {}
    BY <1>1
  <1>3. Max(S) \in S
    BY ONLY <1>2, OldestIsMember
  <1>4. Max({Both(s), decoder.downmix}) \in {Both(s), decoder.downmix}
    BY <1>3
  <1>5. CASE s.pair = "apart"
    BY <1>1, <1>5 DEF Spectrum
  <1>6. CASE s.pair = "previous"
    BY <1>1, <1>4, <1>6 DEF Spectrum
  <1>7. CASE s.pair # "apart" /\ s.pair # "previous"
    BY <1>1, <1>7 DEF Spectrum
  <1> QED
    BY <1>5, <1>6, <1>7

LEMMA KeptType ==
    ASSUME TypeOK, NEW s \in Syntax, NEW c \in Core
    PROVE  /\ Kept(s, c) \in Memory
           /\ Kept(s, c).context = Context(s, c)
           /\ Kept(s, c).overlap \in {Spectrum(s, c), decoder.channel[c].overlap}
  <1>1. /\ Context(s, c) \in Age /\ Spectrum(s, c) \in Age
        /\ decoder.channel[c].overlap \in Age
        /\ decoder.channel[c].lpd \in Age
        /\ Before(s).channel[c].lpd \in Age
    BY ContextType, SpectrumType, CoreType, BeforeType DEF Memory
  <1>2. Older(Young, decoder.channel[c].lpd) \in Age
    BY <1>1, OlderType, AgeIs
  <1> QED
    BY <1>1, <1>2 DEF Kept, Memory

(* What is heard was in the channels or in the access unit. *)
LEMMA HeardType ==
    ASSUME TypeOK, NEW s \in Syntax
    PROVE  /\ Coded(s) \in Age /\ Heard(s) \in Age
           /\ \/ Coded(s) = Nothing
              \/ \E c \in Fd(s) : Coded(s) \in {Spectrum(s, c),
                                               decoder.channel[c].overlap}
  <1> PICK S : S = {Nothing} \cup {Spectrum(s, c) : c \in Fd(s)}
                            \cup {decoder.channel[c].overlap : c \in Fd(s)}
    OBVIOUS
  <1>1. Fd(s) \subseteq Core
    BY DEF Fd
  <1>2. S \in SUBSET Age /\ S # {}
    BY <1>1, SpectrumType, CoreType, AgeIs
  <1>3. Max(S) \in S /\ Max(S) \in Age
    BY ONLY <1>2, OldestIsMember
  <1>4. Coded(s) = Max(S)
    BY DEF Coded
  <1> PICK T : T = {Coded(s)} \cup {Kept(s, c).lpd : c \in Core \ Fd(s)}
    OBVIOUS
  <1>5. T \in SUBSET Age /\ T # {}
    BY <1>3, <1>4, KeptType DEF Memory
  <1>6. Max(T) \in Age
    BY ONLY <1>5, OldestIsMember
  <1>7. Heard(s) = Max(T)
    BY DEF Heard
  <1> QED
    BY <1>1, <1>3, <1>4, <1>6, <1>7

LEMMA DecodedType ==
    ASSUME TypeOK, NEW s \in Syntax,
           NEW e, e = [Before(s) EXCEPT
                         !.channel = [c \in Core |-> Kept(s, c)],
                         !.downmix = IF Predicts(s) THEN Both(s) ELSE @,
                         !.strayed = Strayed(s)]
    PROVE  /\ e \in Decoders /\ e.channel \in [Channels(e.config) -> Memory]
           /\ e.channel = [c \in Core |-> Kept(s, c)]
           /\ e.strayed = Strayed(s)
           /\ e.source = decoder.source /\ e.last = decoder.last
           /\ e.depth = decoder.depth
  <1> PICK b : b = Before(s)
    OBVIOUS
  <1> PICK channel : channel = [c \in Core |-> Kept(s, c)]
    OBVIOUS
  <1> PICK downmix : downmix = IF Predicts(s) THEN Both(s) ELSE b.downmix
    OBVIOUS
  <1>1. /\ b \in Decoders /\ b.config = decoder.config
        /\ b.source = decoder.source /\ b.last = decoder.last
        /\ b.depth = decoder.depth
    BY BeforeType
  <1>2. channel \in [Core -> Memory]
    BY KeptType
  <1> PICK strayed : strayed = Strayed(s)
    OBVIOUS
  <1>3. strayed \in SUBSET {1, 2}
    BY CoreType DEF Strayed, TypeOK, Decoders
  <1>4. downmix \in Age
    BY <1>1, ContextType DEF Decoders
  <1>5. e = [b EXCEPT !.channel = channel, !.downmix = downmix,
                      !.strayed = strayed]
    OBVIOUS
  <1>6. /\ Core = Channels(decoder.config)
        /\ decoder.config \in Configs
    BY CoreType DEF TypeOK, Decoders
  <1>7. channel \in UNION {[Channels(config) -> Memory] : config \in Configs}
    BY ONLY <1>2, <1>6
  <1>8. /\ e.config = b.config /\ e.channel = channel /\ e.downmix = downmix
        /\ e.strayed = strayed /\ e.source = b.source
        /\ e.last = b.last /\ e.depth = b.depth
    BY ONLY <1>1, <1>5 DEF Decoders
  <1>9. e \in Decoders
    BY ONLY <1>1, <1>3, <1>4, <1>5, <1>7 DEF Decoders
  <1> QED
    BY ONLY <1>1, <1>2, <1>6, <1>8, <1>9, strayed = Strayed(s),
            channel = [c \in Core |-> Kept(s, c)]

-----------------------------------------------------------------------------
(* Prerolls *)

(* Taking the preroll begins the crossfade it asks for from the tail of    *)
(* what was played last.                                                   *)
LEMMA TakenType ==
    ASSUME TypeOK, SeamIsKept, decoder.pending \in PreRolls
    PROVE  /\ Taken \in Decoders
           /\ Taken.channel = decoder.channel /\ Taken.config = decoder.config
           /\ Taken.downmix = decoder.downmix
           /\ Taken.strayed = decoder.strayed
           /\ Taken.depth = decoder.depth /\ Taken.last = tail
           /\ Taken.source = IF asked \/ decoder.pending.crossfade THEN tail
                             ELSE Nothing
           /\ (asked \/ decoder.pending.crossfade) \in BOOLEAN
  <1> PICK source : source = IF decoder.pending.crossfade THEN decoder.last
                             ELSE decoder.source
    OBVIOUS
  <1>1. decoder.pending.crossfade \in BOOLEAN
    BY DEF PreRolls
  <1>2. source \in Int
    BY DEF TypeOK, Decoders
  <1>3. Taken = [decoder EXCEPT !.pending = NoPreRoll, !.source = source]
    BY DEF Taken
  <1>4. /\ Taken \in Decoders
        /\ Taken.channel = decoder.channel /\ Taken.config = decoder.config
        /\ Taken.downmix = decoder.downmix
        /\ Taken.strayed = decoder.strayed
        /\ Taken.depth = decoder.depth /\ Taken.last = decoder.last
        /\ Taken.source = source
    BY <1>2, <1>3 DEF TypeOK, Decoders
  <1>5. source = IF asked \/ decoder.pending.crossfade THEN tail ELSE Nothing
    BY <1>1 DEF SeamIsKept, TypeOK
  <1> QED
    BY <1>1, <1>4, <1>5 DEF SeamIsKept, TypeOK

(* The decoder a preroll is opened in. *)
LEMMA OpenedType ==
    ASSUME TypeOK, SeamIsKept, decoder.pending \in PreRolls,
           NEW inside, inside = IF decoder.pending.config = "kept" THEN Taken
                                ELSE Replaced(Aged(Taken, Old),
                                              decoder.pending.config),
           NEW e, e = [inside EXCEPT !.depth = @ + 1]
    PROVE  /\ e \in Decoders /\ e.channel \in [Channels(e.config) -> Memory]
           /\ e.depth = decoder.depth + 1 /\ e.last = tail
           /\ e.source = IF asked \/ decoder.pending.crossfade THEN tail
                         ELSE Nothing
           /\ \/ /\ e.channel = decoder.channel /\ e.downmix = decoder.downmix
                 /\ e.strayed = decoder.strayed
              \/ Blank(e)
  <1>1. /\ Taken \in Decoders /\ Taken.channel \in [Channels(Taken.config) -> Memory]
        /\ Taken.depth = decoder.depth /\ Taken.last = tail
        /\ Taken.source = IF asked \/ decoder.pending.crossfade THEN tail
                          ELSE Nothing
    BY TakenType DEF TypeOK
  <1>2. decoder.depth \in Int /\ tail \in Nat
    BY DEF TypeOK, Decoders
  <1>3. CASE decoder.pending.config = "kept"
    <2>1. e = [Taken EXCEPT !.depth = @ + 1]
      BY <1>3
    <2>2. /\ e \in Decoders /\ e.channel = Taken.channel
          /\ e.config = Taken.config /\ e.downmix = Taken.downmix
          /\ e.strayed = Taken.strayed /\ e.depth = Taken.depth + 1
          /\ e.last = Taken.last /\ e.source = Taken.source
      BY ONLY <1>1, <1>2, <2>1 DEF Decoders
    <2> QED
      BY <1>1, <2>2, TakenType
  <1>4. CASE decoder.pending.config # "kept"
    <2> PICK k : k = decoder.pending.config
      OBVIOUS
    <2>1. k \in Configs
      BY <1>4 DEF PreRolls
    <2> PICK f : f = FreshDecoder(k)
      OBVIOUS
    <2> PICK d : d = Aged(Taken, Old)
      OBVIOUS
    <2>2. d.source = Taken.source /\ d.last = Taken.last /\ d.depth = Taken.depth
      BY <1>1, AgedKeeps
    <2>3. e = [f EXCEPT !.source = Taken.source, !.last = Taken.last,
                        !.depth = decoder.depth + 1]
      <3>1. inside = [f EXCEPT !.source = Taken.source, !.last = Taken.last,
                               !.depth = decoder.depth]
        BY <1>1, <1>4, <2>2 DEF Replaced
      <3>2. f \in Decoders
        BY <2>1, FreshType
      <3> QED
        BY <3>1, <3>2 DEF Decoders
    <2>4. /\ f \in Decoders /\ f.config = k
          /\ f.channel \in [Channels(k) -> Memory] /\ Blank(f)
      BY <2>1, FreshType
    <2>5. Taken.source \in Int /\ Taken.last \in Nat
      BY <1>1 DEF Decoders
    <2>6. /\ e \in Decoders /\ e.channel = f.channel /\ e.config = f.config
          /\ e.strayed = f.strayed /\ e.depth = decoder.depth + 1
          /\ e.last = Taken.last /\ e.source = Taken.source
      <3> PICK n \in Int : n = decoder.depth + 1
        BY <1>2
      <3> PICK x \in Int : x = Taken.source
        BY <2>5
      <3> PICK y \in Nat : y = Taken.last
        BY <2>5
      <3>1. e = [f EXCEPT !.source = x, !.last = y, !.depth = n]
        BY <2>3
      <3>2. f \in Decoders
        BY <2>4
      <3>3. e \in Decoders
        BY ONLY <3>1, <3>2, x \in Int, y \in Nat, n \in Int DEF Decoders
      <3>4. /\ e.channel = f.channel /\ e.config = f.config
            /\ e.strayed = f.strayed /\ e.depth = n
            /\ e.last = y /\ e.source = x
        BY ONLY <3>1, <3>2 DEF Decoders
      <3> QED
        BY <3>3, <3>4
    <2>7. Blank(e)
      BY <2>4, <2>6 DEF Blank
    <2> QED
      BY <1>1, <2>4, <2>6, <2>7
  <1> QED
    BY <1>3, <1>4

-----------------------------------------------------------------------------
(* The stack, the depth and the seam *)

LEMMA CallType ==
    ASSUME NEW independent \in BOOLEAN
    PROVE  /\ Call(independent) \in Calls
           /\ Call(independent).stage = "leading"
           /\ Recent(Call(independent))
  BY AgeIs DEF Call, Calls, Stages, Recent, Nothing, Young

(* The access unit on top is in another one's preroll, or no preroll is    *)
(* open, if it is not in its own.                                          *)
LEMMA DepthIs ==
    ASSUME IInv, calls # <<>>
    PROVE  /\ Top.stage # "nested" => decoder.depth = Len(calls) - 1
           /\ Top.stage = "nested" => decoder.depth = Len(calls)
  BY DEF IInv, DepthIsOpen, OpenPreRolls

LEMMA ExtensionsHold ==
    ASSUME IInv, NEW here \in Stages, NEW next \in Stages,
           here # "nested", next # "nested", Extensions(here, next)
    PROVE  IInv'
  <1>1. PICK preroll \in PreRolls \cup {NoPreRoll}, gain \in Gains, ok \in BOOLEAN :
           /\ decoder' = [decoder EXCEPT
                            !.pending = IF @ = NoPreRoll THEN preroll ELSE @,
                            !.gain = IF gain THEN Young ELSE @]
           /\ To(IF ok THEN next ELSE "failed")
    BY DEF Extensions
  <1>2. /\ decoder' \in Decoders /\ decoder'.channel = decoder.channel
        /\ decoder'.config = decoder.config /\ decoder'.depth = decoder.depth
        /\ decoder'.source = decoder.source /\ decoder'.last = decoder.last
    BY <1>1, AgeIs DEF IInv, TypeOK, Decoders
  <1>3. /\ calls # <<>> /\ Top.stage # "nested"
        /\ played' = played /\ tail' = tail /\ asked' = asked
    BY DEF Extensions, At
  <1>4. SeamIsKept'
    BY <1>2, <1>3 DEF IInv, SeamIsKept
  <1>5. PICK stage \in Stages \ {"nested"} : To(stage)
    <2>1. (IF ok THEN next ELSE "failed") \in Stages \ {"nested"}
      BY DEF Stages
    <2> QED
      BY <1>1, <2>1
  <1> QED
    BY <1>2, <1>3, <1>4, <1>5, StageHolds DEF IInv, TypeOK

(* A call returns to its caller's preroll. *)
LEMMA FrontType ==
    ASSUME NEW s \in Seq(Calls), NEW n \in Nat, n = Len(s), n > 1
    PROVE  /\ Front(s) \in Seq(Calls) /\ Len(Front(s)) = n - 1
           /\ Front(s) # <<>>
           /\ \A i \in 1..(n - 1) : Front(s)[i] = s[i]
  <1> PICK t : t = SubSeq(s, 1, n - 1)
    OBVIOUS
  <1>1. /\ t \in Seq(Calls) /\ Len(t) = n - 1
        /\ \A i \in 1..(n - 1) : t[i] = s[i]
    OBVIOUS
  <1>2. t # <<>>
    <2>1. Len(t) >= 1 /\ Len(<<>>) = 0
      BY ONLY <1>1, n \in Nat, n > 1
    <2> QED
      BY ONLY <2>1
  <1>3. Front(s) = t
    BY DEF Front
  <1> QED
    BY ONLY <1>1, <1>2, <1>3

LEMMA FinishHolds == IInv /\ Finish => IInv'
  <1> SUFFICES ASSUME IInv, Finish
               PROVE  IInv'
    OBVIOUS
  <1> PICK n : n = Len(calls)
    OBVIOUS
  <1>1. /\ calls # <<>> /\ Top.stage = "finish"
        /\ decoder' = Finished(decoder) /\ calls' = Front(calls)
        /\ IF n = 1
           THEN played' = played + 1 /\ tail' = played + 1 /\ asked' = FALSE
           ELSE UNCHANGED <<played, tail, asked>>
    BY DEF Finish, At
  <1>2. /\ calls \in Seq(Calls) /\ n \in Nat /\ n >= 1
        /\ decoder \in Decoders /\ decoder.depth = n - 1
        /\ decoder.channel \in [Channels(decoder.config) -> Memory]
        /\ played \in Nat
    BY <1>1, TopType, DepthIs DEF IInv, TypeOK
  <1>3. CASE n = 1
    <2>1. calls' = <<>>
      BY <1>1, <1>2, <1>3 DEF Front
    <2>2. decoder' = [decoder EXCEPT !.source = Nothing, !.last = played + 1]
      BY <1>1, <1>2, <1>3 DEF Finished
    <2>3. /\ decoder' \in Decoders /\ decoder'.channel = decoder.channel
          /\ decoder'.config = decoder.config /\ decoder'.depth = 0
          /\ decoder'.source = Nothing /\ decoder'.last = played + 1
      <3> PICK x \in Int : x = Nothing
        BY DEF Nothing
      <3> PICK y \in Nat : y = played + 1
        BY <1>2
      <3>1. decoder' = [decoder EXCEPT !.source = x, !.last = y]
        BY <2>2
      <3>2. decoder' \in Decoders
        BY ONLY <1>2, <3>1, x \in Int, y \in Nat DEF Decoders
      <3>3. /\ decoder'.channel = decoder.channel
            /\ decoder'.config = decoder.config
            /\ decoder'.depth = decoder.depth
            /\ decoder'.source = x /\ decoder'.last = y
        BY ONLY <1>2, <3>1 DEF Decoders
      <3> QED
        BY ONLY <1>2, <1>3, <3>2, <3>3, x = Nothing, y = played + 1
    <2>4. calls' \in Seq(Calls) /\ Len(calls') = 0
      <3>1. <<>> \in Seq(Calls) /\ Len(<<>>) = 0
        OBVIOUS
      <3> QED
        BY ONLY <2>1, <3>1
    <2>5. played' \in Nat /\ tail' \in Nat /\ asked' \in BOOLEAN
      <3>1. played' = played + 1 /\ tail' = played + 1 /\ asked' = FALSE
        BY ONLY <1>1, <1>3
      <3>2. played \in Nat
        BY DEF IInv, TypeOK
      <3>3. played + 1 \in Nat
        BY ONLY <3>2
      <3> QED
        BY ONLY <3>1, <3>3
    <2>6. TypeOK'
      BY ONLY <1>2, <2>3, <2>4, <2>5 DEF TypeOK
    <2>7. CallersWait' /\ DepthIsOpen'
      BY ONLY <2>1, <2>3, <2>4 DEF CallersWait, DepthIsOpen, OpenPreRolls
    <2>8. SeamIsKept'
      BY <1>1, <1>3, <2>3 DEF SeamIsKept
    <2> QED
      BY <2>6, <2>7, <2>8 DEF IInv
  <1>4. CASE n > 1
    <2>1. /\ calls' \in Seq(Calls) /\ Len(calls') = n - 1 /\ calls' # <<>>
          /\ \A i \in 1..(n - 1) : calls'[i] = calls[i]
      BY <1>1, <1>2, <1>4, FrontType
    <2>2. UNCHANGED <<decoder, played, tail, asked>>
      BY <1>1, <1>2, <1>4 DEF Finished
    <2>3. \A i \in 1..(n - 1) : calls'[i].stage = "nested"
      BY <2>1 DEF IInv, CallersWait
    <2>4. CallersWait' /\ Top'.stage = "nested"
      BY <1>2, <1>4, <2>1, <2>3 DEF CallersWait, Top, Last
    <2>5. DepthIsOpen'
      BY <1>2, <2>1, <2>2, <2>4 DEF DepthIsOpen, OpenPreRolls
    <2>6. TypeOK' /\ SeamIsKept'
      BY <2>1, <2>2 DEF IInv, TypeOK, SeamIsKept
    <2> QED
      BY <2>4, <2>5, <2>6 DEF IInv
  <1> QED
    BY <1>2, <1>3, <1>4

LEMMA FailHolds == IInv /\ Fail => IInv'
  <1> SUFFICES ASSUME IInv, Fail
               PROVE  IInv'
    OBVIOUS
  <1> PICK n : n = Len(calls)
    OBVIOUS
  <1>1. /\ calls # <<>> /\ Top.stage = "failed"
        /\ decoder' = Unwound(decoder)
        /\ calls' = IF n = 1 THEN <<>>
                    ELSE [Front(calls) EXCEPT ![n - 1].stage = "failed"]
        /\ UNCHANGED <<played, tail, asked>>
    BY DEF Fail, At
  <1>2. /\ calls \in Seq(Calls) /\ n \in Nat /\ n >= 1
        /\ decoder \in Decoders /\ decoder.depth = n - 1
    BY <1>1, TopType, DepthIs DEF IInv, TypeOK
  <1>3. CASE n = 1
    <2>1. calls' = <<>> /\ UNCHANGED <<decoder, played, tail, asked>>
      BY <1>1, <1>3 DEF Unwound
    <2>2. TypeOK' /\ SeamIsKept' /\ CallersWait'
      BY <2>1 DEF IInv, TypeOK, SeamIsKept, CallersWait
    <2>3. DepthIsOpen'
      BY <1>2, <1>3, <2>1 DEF DepthIsOpen, OpenPreRolls
    <2> QED
      BY <2>2, <2>3 DEF IInv
  <1>4. CASE n > 1
    <2> PICK t : t = Front(calls)
      OBVIOUS
    <2>1. /\ t \in Seq(Calls) /\ Len(t) = n - 1 /\ t # <<>>
          /\ \A i \in 1..(n - 1) : t[i] = calls[i]
      BY <1>2, <1>4, FrontType
    <2> PICK x : x = [t[n - 1] EXCEPT !.stage = "failed"]
      OBVIOUS
    <2>2. x \in Calls /\ x.stage = "failed"
      <3>1. t[n - 1] \in Calls
        BY ONLY <1>2, <1>4, <2>1
      <3> QED
        BY <3>1 DEF Calls, Stages
    <2>3. calls' = [t EXCEPT ![Len(t)] = x]
      BY <1>1, <1>4, <2>1
    <2> PICK u : u = calls'
      OBVIOUS
    <2>4. /\ u \in Seq(Calls) /\ Len(u) = n - 1 /\ u[n - 1] = x
          /\ \A i \in 1..(n - 2) : u[i] = t[i]
      <3>1. /\ u \in Seq(Calls) /\ Len(u) = Len(t) /\ u[Len(t)] = x
            /\ \A i \in 1..(Len(t) - 1) : u[i] = t[i]
        BY ONLY <2>1, <2>2, <2>3, u = calls', LastReplaced
      <3> QED
        BY <1>2, <2>1, <3>1
    <2>5. \A i \in 1..(n - 2) : u[i].stage = "nested"
      BY <1>2, <2>1, <2>4 DEF IInv, CallersWait
    <2>6. u # <<>>
      BY <1>2, <1>4, <2>4
    <2>7. CallersWait' /\ Top'.stage = "failed"
      BY <1>2, <2>2, <2>4, <2>5 DEF CallersWait, Top, Last
    <2>8. decoder' = [decoder EXCEPT !.depth = n - 2]
      BY <1>1, <1>2, <1>4 DEF Unwound
    <2>9. /\ decoder' \in Decoders /\ decoder'.channel = decoder.channel
          /\ decoder'.config = decoder.config /\ decoder'.depth = n - 2
          /\ decoder'.source = decoder.source /\ decoder'.last = decoder.last
      BY ONLY <1>2, <2>8 DEF Decoders
    <2>10. TypeOK' /\ SeamIsKept'
      BY <1>1, <2>4, <2>9 DEF IInv, TypeOK, SeamIsKept
    <2>11. DepthIsOpen'
      BY <1>2, <2>4, <2>6, <2>7, <2>9 DEF DepthIsOpen, OpenPreRolls
    <2> QED
      BY <2>7, <2>10, <2>11 DEF IInv
  <1> QED
    BY <1>2, <1>3, <1>4

LEMMA OpenHolds == IInv /\ OpenPreRoll => IInv'
  <1> SUFFICES ASSUME IInv, OpenPreRoll
               PROVE  IInv'
    OBVIOUS
  <1> PICK n : n = Len(calls)
    OBVIOUS
  <1>1. /\ calls # <<>> /\ Top.stage = "preroll"
        /\ decoder.pending # NoPreRoll
        /\ UNCHANGED <<played, tail>>
        /\ asked' = (asked \/ decoder.pending.crossfade)
    BY DEF OpenPreRoll, At
  <1>2. /\ TypeOK /\ SeamIsKept /\ calls \in Seq(Calls) /\ n \in Nat
        /\ Top \in Calls /\ Top = calls[n] /\ decoder.depth = n - 1
        /\ decoder.pending \in PreRolls
    BY <1>1, TopType, DepthIs DEF IInv, TypeOK, Decoders
  <1> PICK inside : inside = IF decoder.pending.config = "kept" THEN Taken
                             ELSE Replaced(Aged(Taken, Old), decoder.pending.config)
    OBVIOUS
  <1> PICK e : e = [inside EXCEPT !.depth = @ + 1]
    OBVIOUS
  <1>3. decoder' = e
    BY DEF OpenPreRoll
  <1>4. /\ e \in Decoders /\ e.channel \in [Channels(e.config) -> Memory]
        /\ e.depth = decoder.depth + 1 /\ e.last = tail
        /\ e.source = IF asked \/ decoder.pending.crossfade THEN tail ELSE Nothing
    BY ONLY <1>2, OpenedType, e = [inside EXCEPT !.depth = @ + 1],
            inside = IF decoder.pending.config = "kept" THEN Taken
                     ELSE Replaced(Aged(Taken, Old), decoder.pending.config)
  <1> PICK x : x = [Top EXCEPT !.stage = "nested",
                               !.units = decoder.pending.units, !.opened = TRUE]
    OBVIOUS
  <1>5. x \in Calls /\ x.stage = "nested"
    <2>1. decoder.pending.units \in Nat
      BY <1>2, PreRollAssumption DEF PreRolls
    <2> QED
      BY <1>2, <2>1 DEF Calls, Stages
  <1>6. calls' = [calls EXCEPT ![Len(calls)] = x]
    <2> PICK units : units = decoder.pending.units
      OBVIOUS
    <2> PICK t : t = calls'
      OBVIOUS
    <2> PICK opened : opened = TRUE
      OBVIOUS
    <2>1. t = [calls EXCEPT ![n].stage = "nested", ![n].units = units,
                            ![n].opened = opened]
      BY DEF OpenPreRoll
    <2>2. x = [calls[n] EXCEPT !.stage = "nested", !.units = units,
                               !.opened = opened]
      BY <1>2
    <2>3. t = [calls EXCEPT ![n] = x]
      <3>1. calls \in Seq(Calls) /\ calls # <<>>
        BY <1>1, <1>2
      <3>2. n \in Nat /\ calls \in [1..n -> Calls] /\ n \in 1..n
        BY ONLY <3>1, n = Len(calls)
      <3> QED
        BY ONLY <2>1, <2>2, <3>2
    <2> QED
      BY ONLY <2>3, n = Len(calls), t = calls'
  <1>7. SeamIsKept'
    <2>1. asked' <=> (asked \/ decoder.pending.crossfade)
      BY <1>1
    <2> QED
      BY <1>1, <1>3, <1>4, <2>1 DEF SeamIsKept
  <1>8. asked' \in BOOLEAN
    BY <1>1, <1>2, TakenType
  <1>9. decoder'.depth = IF x.stage = "nested" THEN Len(calls) ELSE Len(calls) - 1
    BY <1>2, <1>3, <1>4, <1>5
  <1> QED
    BY <1>1, <1>3, <1>4, <1>5, <1>6, <1>7, <1>8, <1>9, TopHolds

LEMMA NestedHolds == IInv /\ Nested => IInv'
  <1> SUFFICES ASSUME IInv, Nested
               PROVE  IInv'
    OBVIOUS
  <1> PICK n : n = Len(calls)
    OBVIOUS
  <1> PICK x : x = [Top EXCEPT !.units = @ - 1, !.opened = FALSE]
    OBVIOUS
  <1> PICK s : s = [calls EXCEPT ![n] = x]
    OBVIOUS
  <1>1. /\ calls # <<>> /\ Top.stage = "nested" /\ Top.units > 0
        /\ UNCHANGED <<decoder, played, tail, asked>>
    BY DEF Nested, At
  <1>2. /\ calls \in Seq(Calls) /\ n \in Nat /\ n >= 1
        /\ Top \in Calls /\ Top = calls[n] /\ decoder.depth = n
    BY <1>1, TopType, DepthIs DEF IInv, TypeOK
  <1>3. PICK y \in Calls : calls' = Append(s, y) /\ y.stage = "leading"
    <2>1. PICK independent \in BOOLEAN :
             calls' = Append([calls EXCEPT ![n].units = @ - 1, ![n].opened = FALSE],
                             Call(independent))
      BY DEF Nested
    <2>2. [calls EXCEPT ![n].units = @ - 1, ![n].opened = FALSE] = s
      <3> PICK u : u = calls[n].units - 1
        OBVIOUS
      <3> PICK t : t = [calls EXCEPT ![n].units = @ - 1, ![n].opened = FALSE]
        OBVIOUS
      <3>1. t = [calls EXCEPT ![n].units = u, ![n].opened = FALSE]
        OBVIOUS
      <3>2. x = [calls[n] EXCEPT !.units = u, !.opened = FALSE]
        BY <1>2
      <3>3. n \in Nat /\ calls \in [1..n -> Calls] /\ n \in 1..n
        <4>1. calls \in Seq(Calls) /\ calls # <<>>
          BY <1>1, <1>2
        <4> QED
          BY ONLY <4>1, n = Len(calls)
      <3> PICK opened : opened = FALSE
        OBVIOUS
      <3>4. t = [calls EXCEPT ![n].units = u, ![n].opened = opened]
        BY <3>1
      <3>5. x = [calls[n] EXCEPT !.units = u, !.opened = opened]
        BY <3>2
      <3>6. t = [calls EXCEPT ![n] = x]
        BY ONLY <3>3, <3>4, <3>5
      <3> QED
        BY <3>6
    <2> QED
      BY <2>1, <2>2, CallType
  <1>4. x \in Calls /\ x.stage = "nested"
    <2>1. Top.units \in Nat
      BY <1>2 DEF Calls
    <2>2. Top.units - 1 \in Nat
      BY ONLY <1>1, <2>1
    <2> QED
      BY <1>1, <1>2, <2>2 DEF Calls
  <1>5. /\ s \in Seq(Calls) /\ Len(s) = n /\ s[n] = x
        /\ \A i \in 1..(n - 1) : s[i] = calls[i]
    BY ONLY <1>1, <1>2, <1>4, n = Len(calls), s = [calls EXCEPT ![n] = x],
            LastReplaced
  <1> PICK t : t = calls'
    OBVIOUS
  <1>6. /\ t \in Seq(Calls) /\ Len(t) = n + 1 /\ t[n + 1] = y
        /\ \A i \in 1..n : t[i] = s[i]
    <2>1. t = Append(s, y)
      BY <1>3
    <2>2. s \in Seq(Calls) /\ Len(s) = n
      BY <1>5
    <2> QED
      BY ONLY <1>2, <2>1, <2>2, y \in Calls
  <1>7. \A i \in 1..n : t[i].stage = "nested"
    <2>1. \A i \in 1..(n - 1) : calls[i].stage = "nested"
      BY DEF IInv, CallersWait
    <2> QED
      BY ONLY <1>2, <1>4, <1>5, <1>6, <2>1
  <1>8. t # <<>>
    BY <1>2, <1>6
  <1>9. CallersWait' /\ Top'.stage = "leading"
    BY <1>2, <1>3, <1>6, <1>7 DEF CallersWait, Top, Last
  <1>10. DepthIsOpen'
    BY <1>1, <1>2, <1>6, <1>8, <1>9 DEF DepthIsOpen, OpenPreRolls
  <1> QED
    BY <1>1, <1>6, <1>9, <1>10 DEF IInv, TypeOK, SeamIsKept

LEMMA CloseHolds == IInv /\ ClosePreRoll => IInv'
  <1> SUFFICES ASSUME IInv, ClosePreRoll
               PROVE  IInv'
    OBVIOUS
  <1> PICK n : n = Len(calls)
    OBVIOUS
  <1> PICK x : x = [Top EXCEPT !.stage = "core"]
    OBVIOUS
  <1>1. /\ calls # <<>> /\ Top.stage = "nested"
        /\ decoder' = [decoder EXCEPT !.depth = @ - 1]
        /\ UNCHANGED <<played, tail, asked>>
    BY DEF ClosePreRoll, At
  <1>2. /\ calls \in Seq(Calls) /\ n \in Nat /\ decoder \in Decoders
        /\ Top \in Calls /\ Top = calls[n] /\ decoder.depth = n
    BY <1>1, TopType, DepthIs DEF IInv, TypeOK
  <1>3. calls' = [calls EXCEPT ![Len(calls)] = x]
    BY <1>2 DEF ClosePreRoll, To
  <1>4. x \in Calls /\ x.stage = "core"
    BY <1>2 DEF Calls, Stages
  <1>5. decoder' = [decoder EXCEPT !.depth = n - 1]
    BY <1>1, <1>2
  <1>6. /\ decoder' \in Decoders /\ decoder'.channel = decoder.channel
        /\ decoder'.config = decoder.config /\ decoder'.depth = n - 1
        /\ decoder'.source = decoder.source /\ decoder'.last = decoder.last
    <2> PICK m \in Int : m = n - 1
      BY <1>2
    <2>1. decoder \in Decoders /\ decoder' = [decoder EXCEPT !.depth = m]
      BY <1>2, <1>5
    <2>2. decoder' \in Decoders
      BY ONLY <2>1, m \in Int DEF Decoders
    <2>3. /\ decoder'.channel = decoder.channel
          /\ decoder'.config = decoder.config /\ decoder'.depth = m
          /\ decoder'.source = decoder.source /\ decoder'.last = decoder.last
      BY ONLY <2>1 DEF Decoders
    <2> QED
      BY ONLY <2>2, <2>3, m = n - 1
  <1>7. /\ decoder'.channel \in [Channels(decoder'.config) -> Memory]
        /\ asked' \in BOOLEAN
    BY <1>1, <1>6 DEF IInv, TypeOK
  <1>8. SeamIsKept'
    BY <1>1, <1>6 DEF IInv, SeamIsKept
  <1>9. decoder'.depth = IF x.stage = "nested" THEN Len(calls) ELSE Len(calls) - 1
    BY <1>4, <1>6
  <1> QED
    BY <1>1, <1>3, <1>4, <1>6, <1>7, <1>8, <1>9, TopHolds

LEMMA CoreHolds == IInv /\ DecodeCore => IInv'
  <1> SUFFICES ASSUME IInv, DecodeCore
               PROVE  IInv'
    OBVIOUS
  <1>1. /\ calls # <<>> /\ Top.stage = "core"
        /\ UNCHANGED <<played, tail, asked>>
    BY DEF DecodeCore, At
  <1>2. PICK s \in Syntax :
           /\ decoder' =
                [Before(s) EXCEPT
                   !.channel = [c \in Core |-> Kept(s, c)],
                   !.downmix = IF Predicts(s) THEN Both(s) ELSE @,
                   !.strayed = Strayed(s)]
           /\ calls' =
                [calls EXCEPT
                   ![Len(calls)] =
                     IF Stop(s) = 3
                     THEN [@ EXCEPT !.stage = "trailing",
                                    !.heard = Heard(s), !.coded = Coded(s),
                                    !.stray = HearsStray(s)]
                     ELSE [@ EXCEPT !.stage = "failed"]]
    BY DEF DecodeCore
  <1>3. TypeOK
    BY DEF IInv
  <1> PICK e : e = decoder'
    OBVIOUS
  <1>4. /\ e \in Decoders /\ e.channel \in [Channels(e.config) -> Memory]
        /\ e.source = decoder.source /\ e.last = decoder.last
        /\ e.depth = decoder.depth
    BY ONLY <1>2, <1>3, DecodedType, s \in Syntax, e = decoder'
  <1> PICK x : x = IF Stop(s) = 3
                   THEN [Top EXCEPT !.stage = "trailing",
                                    !.heard = Heard(s), !.coded = Coded(s),
                                    !.stray = HearsStray(s)]
                   ELSE [Top EXCEPT !.stage = "failed"]
    OBVIOUS
  <1>5. Top \in Calls /\ Top = calls[Len(calls)] /\ calls \in Seq(Calls)
    BY <1>1, <1>3, TopType DEF TypeOK
  <1>6. calls' = [calls EXCEPT ![Len(calls)] = x]
    BY <1>2, <1>5
  <1>7. x \in Calls /\ x.stage # "nested"
    <2>1. Coded(s) \in Age /\ Heard(s) \in Age /\ HearsStray(s) \in BOOLEAN
      BY <1>3, HeardType DEF HearsStray, Strays
    <2> QED
      BY <1>5, <2>1 DEF Calls, Stages
  <1>8. SeamIsKept'
    BY <1>1, <1>4 DEF IInv, SeamIsKept
  <1>9. decoder'.depth = IF x.stage = "nested" THEN Len(calls) ELSE Len(calls) - 1
    BY <1>1, <1>4, <1>7, DepthIs
  <1>10. played' = played /\ tail' = tail /\ asked' \in BOOLEAN
    BY <1>1 DEF IInv, TypeOK
  <1> QED
    BY <1>1, <1>4, <1>6, <1>7, <1>8, <1>9, <1>10, TopHolds

LEMMA InitHolds == Init => IInv
  <1> SUFFICES ASSUME Init
               PROVE  IInv
    OBVIOUS
  <1>1. PICK k \in Configs : decoder = FreshDecoder(k)
    BY DEF Init
  <1>2. /\ decoder \in Decoders
        /\ decoder.channel \in [Channels(decoder.config) -> Memory]
        /\ decoder.depth = 0 /\ decoder.last = 0 /\ decoder.source = Nothing
    BY ONLY <1>1, FreshType
  <1>3. /\ calls = <<>> /\ calls \in Seq(Calls) /\ Len(calls) = 0
        /\ played = 0 /\ tail = 0 /\ asked = FALSE
    BY DEF Init
  <1>4. TypeOK
    BY ONLY <1>2, <1>3 DEF TypeOK
  <1>5. CallersWait /\ DepthIsOpen /\ SeamIsKept
    BY ONLY <1>2, <1>3 DEF CallersWait, DepthIsOpen, OpenPreRolls, SeamIsKept
  <1> QED
    BY <1>4, <1>5 DEF IInv

LEMMA StepHolds == IInv /\ [Next]_vars => IInv'
  <1> SUFFICES ASSUME IInv, [Next]_vars
               PROVE  IInv'
    OBVIOUS
  <1>1. CASE Decode
    <2>1. PICK x \in Calls : calls' = <<x>> /\ x.stage = "leading"
      BY <1>1, CallType DEF Decode
    <2>2. calls = <<>> /\ UNCHANGED <<decoder, played, tail, asked>>
      BY <1>1 DEF Decode
    <2>3. calls' \in Seq(Calls) /\ Len(calls') = 1 /\ calls' # <<>>
      BY <2>1
    <2>4. Top'.stage = "leading"
      BY <2>1, <2>3 DEF Top, Last
    <2>5. CallersWait' /\ DepthIsOpen'
      BY <2>2, <2>3, <2>4
      DEF IInv, CallersWait, DepthIsOpen, OpenPreRolls
    <2> QED
      BY <2>2, <2>3, <2>5 DEF IInv, TypeOK, SeamIsKept
  <1>2. CASE Leading \/ Trailing
    BY <1>2, ExtensionsHold DEF Leading, Trailing, Stages
  <1>3. CASE NoPending \/ RefuseGains
    <2>1. /\ calls # <<>> /\ Top.stage # "nested"
          /\ UNCHANGED <<decoder, played, tail, asked>>
          /\ To("core") \/ To("failed")
      BY <1>3 DEF NoPending, RefuseGains, At
    <2>2. /\ decoder' \in Decoders
          /\ decoder'.channel \in [Channels(decoder'.config) -> Memory]
          /\ asked' \in BOOLEAN /\ SeamIsKept'
      BY <2>1 DEF IInv, TypeOK, SeamIsKept
    <2>3. PICK stage \in Stages \ {"nested"} : To(stage)
      BY <2>1 DEF Stages
    <2> QED
      BY <2>1, <2>2, <2>3, StageHolds
  <1>4. CASE OpenPreRoll
    BY <1>4, OpenHolds
  <1>5. CASE RefuseConfig
    <2>1. /\ calls # <<>> /\ Top.stage # "nested" /\ decoder' = Taken
          /\ decoder.pending.config \in Configs
          /\ asked' = (asked \/ decoder.pending.crossfade)
          /\ To("failed") /\ UNCHANGED <<played, tail>>
      BY <1>5 DEF RefuseConfig, At
    <2>2. decoder.pending \in PreRolls
      BY <2>1 DEF IInv, TypeOK, Decoders, NoPreRoll, Configs
    <2>3. TypeOK /\ SeamIsKept
      BY DEF IInv
    <2>4. /\ decoder' \in Decoders
          /\ decoder'.channel \in [Channels(decoder'.config) -> Memory]
          /\ decoder'.depth = decoder.depth /\ asked' \in BOOLEAN
      BY <2>1, <2>2, <2>3, TakenType DEF TypeOK
    <2>5. SeamIsKept'
      BY <2>1, <2>2, <2>3, TakenType DEF SeamIsKept
    <2> QED
      BY <2>1, <2>4, <2>5, StageHolds DEF Stages
  <1>6. CASE Nested
    BY <1>6, NestedHolds
  <1>7. CASE ClosePreRoll
    BY <1>7, CloseHolds
  <1>8. CASE DecodeCore
    BY <1>8, CoreHolds
  <1>9. CASE Finish
    BY <1>9, FinishHolds
  <1>10. CASE Fail
    BY <1>10, FailHolds
  <1>11. CASE ClearHistory
    <2>1. /\ calls = <<>> /\ calls' = <<>> /\ played' = played
          /\ decoder' = FreshDecoder(decoder.config)
          /\ tail' = 0 /\ asked' = FALSE
      BY <1>11 DEF ClearHistory
    <2>2. decoder.config \in Configs
      BY DEF IInv, TypeOK, Decoders
    <2>3. /\ decoder' \in Decoders
          /\ decoder'.channel \in [Channels(decoder'.config) -> Memory]
          /\ decoder'.depth = 0 /\ decoder'.last = 0 /\ decoder'.source = Nothing
      BY ONLY <2>1, <2>2, FreshType
    <2>4. calls' \in Seq(Calls) /\ Len(calls') = 0 /\ played' \in Nat
      BY <2>1 DEF IInv, TypeOK
    <2>5. TypeOK'
      BY ONLY <2>1, <2>3, <2>4 DEF TypeOK
    <2>6. CallersWait' /\ DepthIsOpen' /\ SeamIsKept'
      BY ONLY <2>1, <2>3, <2>4
      DEF CallersWait, DepthIsOpen, OpenPreRolls, SeamIsKept
    <2> QED
      BY <2>5, <2>6 DEF IInv
  <1>12. CASE UNCHANGED vars
    BY <1>12 DEF vars, IInv, TypeOK, CallersWait, DepthIsOpen, OpenPreRolls, Top,
                 SeamIsKept
  <1> QED
    BY <1>1, <1>2, <1>3, <1>4, <1>5, <1>6, <1>7, <1>8, <1>9, <1>10, <1>11,
       <1>12 DEF Next

LEMMA AlwaysHolds == Spec => []IInv
  BY InitHolds, StepHolds, PTL DEF Spec

(* Whatever is decoded, refused or fails, in whatever nesting: a decoder   *)
(* has the channels of its configuration, and nothing it keeps is from     *)
(* before it was built, the ages being at most Middle.                     *)
THEOREM TypeCorrect == Spec => []TypeOK
  BY AlwaysHolds, PTL DEF IInv

(* usac_preroll_depth counts the prerolls that are open: a preroll whose   *)
(* access unit fails gives back what it had added, as one that ends does.  *)
THEOREM DepthIsCounted == Spec => [](decoder.depth = OpenPreRolls)
  BY AlwaysHolds, PTL DEF IInv, DepthIsOpen

(* The frame that goes to the application is faded exactly if a preroll    *)
(* asked for it since the one before, and from that one's tail:            *)
(* usac_crossfade_source and usac_last_output outlive every preroll, the   *)
(* decoder of its configuration and every error in it.                     *)
THEOREM Seam == Spec => []SeamIsContinuous
  <1>1. IInv => SeamIsContinuous
    BY DEF IInv, SeamIsKept, SeamIsContinuous
  <1> QED
    BY <1>1, AlwaysHolds, PTL

-----------------------------------------------------------------------------
(* Random access *)

(* A frame is rendered from nothing older than the last access point: the  *)
(* contexts that are not reset are as recent as they were.                 *)
LEMMA ContextIsRecent ==
    ASSUME TypeOK, FdIsRecent, NEW s \in Syntax
    PROVE  /\ \A c \in Core : Context(s, c) <= Young
           /\ Both(s) <= Young
  <1>1. ASSUME NEW c \in Core
        PROVE  Context(s, c) <= Young
    <2>1. c \in Int /\ c < 3 /\ decoder.channel[c].context <= Young
      BY CoreType DEF FdIsRecent
    <2>2. CASE Stop(s) = 3 /\ Top.independent /\ Fd(s) = Core
      BY <2>1, <2>2 DEF Context, Read, Resets, Young
    <2>3. CASE ~(Stop(s) = 3 /\ Top.independent /\ Fd(s) = Core)
      BY <2>1, <2>3 DEF Context, Before, Young
    <2> QED
      BY <2>2, <2>3
  <1> QED
    BY <1>1, ContextType

(* Nothing but a downmix of before it is older. *)
LEMMA SpectrumIsRecent ==
    ASSUME TypeOK, FdIsRecent, NEW s \in Syntax, NEW c \in Core,
           ~(s.pair = "previous" /\ decoder.downmix > Young)
    PROVE  Spectrum(s, c) <= Young
  <1>1. s.pair = "previous" => decoder.downmix <= Young
    BY CoreType, AgeIs DEF Young
  <1> QED
    BY <1>1, ContextIsRecent, SpectrumType

LEMMA DecodedIsRecent ==
    ASSUME TypeOK, FdIsRecent, NEW s \in Syntax,
           NEW e, e.channel = [c \in Core |-> Kept(s, c)],
           e.strayed = Strayed(s)
    PROVE  /\ \A c \in DOMAIN e.channel :
                 /\ e.channel[c].context <= Young
                 /\ e.channel[c].overlap <= Young \/ c \in e.strayed
           /\ Stop(s) = 3 => Coded(s) <= Young \/ HearsStray(s)
  <1>1. ASSUME NEW c \in Core
        PROVE  /\ Kept(s, c).context <= Young
               /\ Kept(s, c).overlap <= Young \/ c \in Strayed(s)
    <2>1. Kept(s, c).context <= Young
      BY ContextIsRecent, KeptType
    <2>2. CASE Strays(s)
      BY <2>1, <2>2 DEF Strayed
    <2>3. CASE ~Strays(s) /\ c \in Fd(s) /\ Rendered(s, c)
      <3>1. ~(s.pair = "previous" /\ decoder.downmix > Young)
        <4>1. s.pair = "previous" => Stop(s) = 3
          BY <2>3 DEF Syntax, Rendered, Pair
        <4> QED
          BY <2>3, <4>1 DEF Strays
      <3>2. Kept(s, c).overlap = Spectrum(s, c)
        BY <2>3 DEF Kept
      <3> QED
        BY <2>1, <3>1, <3>2, SpectrumIsRecent
    <2>4. CASE ~Strays(s) /\ ~(c \in Fd(s) /\ Rendered(s, c))
      <3>1. Kept(s, c).overlap = decoder.channel[c].overlap
        BY <2>4 DEF Kept
      <3>2. c \in decoder.strayed => c \in Strayed(s)
        BY <2>4 DEF Strayed
      <3> QED
        BY <2>1, <3>1, <3>2 DEF FdIsRecent
    <2> QED
      BY <2>2, <2>3, <2>4
  <1>2. ASSUME Stop(s) = 3, ~HearsStray(s)
        PROVE  Coded(s) <= Young
    <2>1. ~(s.pair = "previous" /\ decoder.downmix > Young)
      BY <1>2 DEF HearsStray, Strays
    <2>2. \A c \in Core : Spectrum(s, c) <= Young
      BY <2>1, SpectrumIsRecent
    <2>3. \A c \in Fd(s) : c \in Core /\ decoder.channel[c].overlap <= Young
      BY <1>2 DEF HearsStray, FdIsRecent, Fd
    <2>4. \/ Coded(s) = Nothing
          \/ \E c \in Fd(s) : Coded(s) \in {Spectrum(s, c),
                                           decoder.channel[c].overlap}
      BY HeardType
    <2> QED
      BY <2>2, <2>3, <2>4 DEF Nothing, Young
  <1> QED
    BY <1>1, <1>2

(* What a step has to show that leaves the channels alone. *)
LEMMA ChannelsStay ==
    ASSUME RInv, decoder'.channel = decoder.channel,
           decoder'.strayed = decoder.strayed,
           CodedIsRecent'
    PROVE  RInv'
  BY DEF RInv, FdIsRecent, Core

LEMMA TopIsRecent ==
    ASSUME IInv, CodedIsRecent, calls # <<>>,
           NEW x \in Calls, calls' = [calls EXCEPT ![Len(calls)] = x],
           Recent(x)
    PROVE  CodedIsRecent'
  <1>1. /\ calls \in Seq(Calls) /\ CallersWait
        /\ Len(calls) \in Nat /\ Len(calls) >= 1
    BY TopType DEF IInv, TypeOK
  <1>2. /\ Len(calls') = Len(calls) /\ calls'[Len(calls)] = x
        /\ \A i \in 1..(Len(calls) - 1) : calls'[i] = calls[i]
    BY <1>1, TopChanges, TopType DEF Top, Last
  <1>3. ASSUME NEW i \in 1..Len(calls')
        PROVE  Recent(calls'[i])
    <2>1. i \in 1..(Len(calls) - 1) \/ i = Len(calls)
      BY ONLY <1>1, <1>2, i \in 1..Len(calls')
    <2> QED
      BY <1>1, <1>2, <2>1 DEF CodedIsRecent
  <1> QED
    BY <1>3 DEF CodedIsRecent

LEMMA StageIsRecent ==
    ASSUME IInv, CodedIsRecent, calls # <<>>,
           NEW stage \in Stages, To(stage)
    PROVE  CodedIsRecent'
  <1> PICK x : x = [Top EXCEPT !.stage = stage]
    OBVIOUS
  <1>1. calls \in Seq(Calls)
    BY DEF IInv, TypeOK
  <1>2. /\ Len(calls) \in 1..Len(calls) /\ Top = calls[Len(calls)]
        /\ Top \in Calls
    BY <1>1, TopType
  <1>3. x \in Calls /\ x.coded = Top.coded /\ x.stray = Top.stray
    BY <1>2 DEF Calls
  <1>4. calls' = [calls EXCEPT ![Len(calls)] = x]
    BY <1>2 DEF To
  <1>5. Recent(x)
    BY <1>2, <1>3 DEF CodedIsRecent, Recent
  <1> QED
    BY <1>3, <1>4, <1>5, TopIsRecent

LEMMA InitIsRecent == Init => RInv
  <1> SUFFICES ASSUME Init
               PROVE  RInv
    OBVIOUS
  <1>1. PICK k \in Configs : decoder = FreshDecoder(k)
    BY DEF Init
  <1>2. Blank(decoder)
    BY <1>1, FreshType
  <1>3. FdIsRecent
    BY <1>2 DEF Blank, FdIsRecent, Core, Nothing, Young
  <1>4. Len(calls) = 0
    BY DEF Init
  <1>5. CodedIsRecent
    BY <1>4 DEF CodedIsRecent
  <1> QED
    BY <1>3, <1>5 DEF RInv

(* A decoder that was rebuilt, or built for a preroll, has nothing to hear. *)
LEMMA BlankIsRecent ==
    ASSUME Blank(decoder'), CodedIsRecent'
    PROVE  RInv'
  BY DEF Blank, RInv, FdIsRecent, Core, Nothing, Young

LEMMA OpenIsRecent == IInv /\ RInv /\ OpenPreRoll => RInv'
  <1> SUFFICES ASSUME IInv, RInv, OpenPreRoll
               PROVE  RInv'
    OBVIOUS
  <1>1. /\ calls # <<>> /\ decoder.pending # NoPreRoll
        /\ TypeOK /\ SeamIsKept /\ CodedIsRecent
    BY DEF OpenPreRoll, At, IInv, RInv
  <1>2. decoder.pending \in PreRolls
    BY <1>1 DEF TypeOK, Decoders
  <1> PICK n : n = Len(calls)
    OBVIOUS
  <1>3. CodedIsRecent'
    <2> PICK units : units = decoder.pending.units
      OBVIOUS
    <2> PICK opened : opened = TRUE
      OBVIOUS
    <2> PICK s : s = calls
      OBVIOUS
    <2> PICK t : t = calls'
      OBVIOUS
    <2>1. t = [s EXCEPT ![n].stage = "nested", ![n].units = units,
                        ![n].opened = opened]
      BY DEF OpenPreRoll
    <2>2. n \in Nat /\ n \in 1..n /\ s \in [1..n -> Calls] /\ s \in Seq(Calls)
      BY <1>1, TopType DEF TypeOK
    <2>3. /\ DOMAIN t = 1..n
          /\ \A i \in 1..n : t[i].coded = s[i].coded /\ t[i].stray = s[i].stray
      BY ONLY <2>1, <2>2 DEF Calls
    <2>4. \A i \in 1..n : Recent(s[i])
      BY <1>1 DEF CodedIsRecent
    <2>5. Len(t) = n
      BY ONLY <2>1, <2>2, n = Len(calls), s = calls
    <2> QED
      BY <2>3, <2>4, <2>5 DEF CodedIsRecent, Recent
  <1> PICK inside : inside = IF decoder.pending.config = "kept" THEN Taken
                             ELSE Replaced(Aged(Taken, Old), decoder.pending.config)
    OBVIOUS
  <1> PICK e : e = [inside EXCEPT !.depth = @ + 1]
    OBVIOUS
  <1>4. TypeOK /\ SeamIsKept
    BY DEF IInv
  <1>5. decoder' = e
    BY DEF OpenPreRoll
  <1>6. \/ /\ e.channel = decoder.channel /\ e.downmix = decoder.downmix
           /\ e.strayed = decoder.strayed
        \/ Blank(e)
    BY ONLY <1>2, <1>4, OpenedType, e = [inside EXCEPT !.depth = @ + 1],
            inside = IF decoder.pending.config = "kept" THEN Taken
                     ELSE Replaced(Aged(Taken, Old), decoder.pending.config)
  <1> QED
    BY <1>3, <1>5, <1>6, ChannelsStay, BlankIsRecent

LEMMA NestedIsRecent == IInv /\ RInv /\ Nested => RInv'
  <1> SUFFICES ASSUME IInv, RInv, Nested
               PROVE  RInv'
    OBVIOUS
  <1> PICK n : n = Len(calls)
    OBVIOUS
  <1> PICK s : s = calls
    OBVIOUS
  <1>1. /\ calls # <<>> /\ decoder' = decoder /\ CodedIsRecent
        /\ s \in Seq(Calls) /\ n = Len(s)
    BY DEF Nested, At, IInv, TypeOK, RInv
  <1>2. PICK y \in Calls :
           /\ Recent(y)
           /\ calls' = Append([s EXCEPT ![n].units = @ - 1, ![n].opened = FALSE], y)
    BY CallType DEF Nested
  <1> PICK u : u = s[n].units - 1
    OBVIOUS
  <1> PICK opened : opened = FALSE
    OBVIOUS
  <1> PICK t : t = [s EXCEPT ![n].units = u, ![n].opened = opened]
    OBVIOUS
  <1>3. calls' = Append(t, y)
    BY <1>2
  <1>4. n \in Nat /\ n \in 1..n /\ s \in [1..n -> Calls]
    BY <1>1, TopType
  <1>5. /\ t \in [1..n -> Calls]
        /\ \A i \in 1..n : t[i].coded = s[i].coded /\ t[i].stray = s[i].stray
    <2>1. u \in Nat /\ opened \in BOOLEAN
      <3>1. s[n] = Top /\ s[n] \in Calls
        BY <1>1, TopType
      <3>2. s[n].units \in Nat /\ s[n].units > 0
        BY <3>1 DEF Nested, Calls
      <3>3. s[n].units - 1 \in Nat
        BY ONLY <3>2
      <3> QED
        BY <3>3
    <2> QED
      BY ONLY <1>4, <2>1, t = [s EXCEPT ![n].units = u, ![n].opened = opened]
      DEF Calls
  <1> PICK v : v = calls'
    OBVIOUS
  <1>6. Len(v) = n + 1 /\ v[n + 1] = y /\ \A i \in 1..n : v[i] = t[i]
    <2>1. t \in Seq(Calls) /\ Len(t) = n
      BY ONLY <1>4, <1>5
    <2>2. v = Append(t, y)
      BY <1>3
    <2> QED
      BY ONLY <1>4, <2>1, <2>2, y \in Calls
  <1>7. \A i \in 1..n : Recent(s[i])
    BY <1>1 DEF CodedIsRecent
  <1>8. \A i \in 1..Len(v) : Recent(v[i])
    BY ONLY <1>2, <1>4, <1>5, <1>6, <1>7 DEF Recent
  <1>9. CodedIsRecent'
    BY <1>8 DEF CodedIsRecent
  <1> QED
    BY <1>1, <1>9, ChannelsStay

LEMMA CoreIsRecent == IInv /\ RInv /\ DecodeCore => RInv'
  <1> SUFFICES ASSUME IInv, RInv, DecodeCore
               PROVE  RInv'
    OBVIOUS
  <1>1. /\ TypeOK /\ calls # <<>> /\ calls \in Seq(Calls)
        /\ FdIsRecent /\ CodedIsRecent
    BY DEF DecodeCore, At, IInv, TypeOK, RInv
  <1>2. PICK s \in Syntax :
           /\ decoder' =
                [Before(s) EXCEPT
                   !.channel = [c \in Core |-> Kept(s, c)],
                   !.downmix = IF Predicts(s) THEN Both(s) ELSE @,
                   !.strayed = Strayed(s)]
           /\ calls' =
                [calls EXCEPT
                   ![Len(calls)] =
                     IF Stop(s) = 3
                     THEN [@ EXCEPT !.stage = "trailing",
                                    !.heard = Heard(s), !.coded = Coded(s),
                                    !.stray = HearsStray(s)]
                     ELSE [@ EXCEPT !.stage = "failed"]]
    BY DEF DecodeCore
  <1> PICK e : e = decoder'
    OBVIOUS
  <1>3. TypeOK
    BY DEF IInv
  <1>4. /\ e.channel = [c \in Core |-> Kept(s, c)]
        /\ e.strayed = Strayed(s)
    BY ONLY <1>2, <1>3, DecodedType, s \in Syntax, e = decoder'
  <1>5. /\ \A c \in DOMAIN e.channel :
              /\ e.channel[c].context <= Young
              /\ e.channel[c].overlap <= Young \/ c \in e.strayed
        /\ Stop(s) = 3 => Coded(s) <= Young \/ HearsStray(s)
    BY ONLY <1>1, <1>4, DecodedIsRecent, s \in Syntax
  <1> PICK x : x = IF Stop(s) = 3
                   THEN [Top EXCEPT !.stage = "trailing",
                                    !.heard = Heard(s), !.coded = Coded(s),
                                    !.stray = HearsStray(s)]
                   ELSE [Top EXCEPT !.stage = "failed"]
    OBVIOUS
  <1>6. Top \in Calls /\ Top = calls[Len(calls)] /\ Len(calls) \in 1..Len(calls)
    BY <1>1, TopType
  <1>7. calls' = [calls EXCEPT ![Len(calls)] = x]
    BY <1>2, <1>6
  <1>8. /\ x \in Calls
        /\ \/ Stop(s) = 3 /\ x.coded = Coded(s) /\ x.stray = HearsStray(s)
           \/ x.coded = Top.coded /\ x.stray = Top.stray
    <2>1. Coded(s) \in Age /\ Heard(s) \in Age /\ HearsStray(s) \in BOOLEAN
      BY <1>1, HeardType DEF HearsStray, Strays
    <2> QED
      BY <1>6, <2>1 DEF Calls, Stages
  <1>9. Recent(x)
    BY <1>1, <1>5, <1>6, <1>8 DEF CodedIsRecent, Recent
  <1>10. CodedIsRecent'
    BY <1>1, <1>7, <1>8, <1>9, TopIsRecent
  <1>11. FdIsRecent'
    BY <1>5 DEF FdIsRecent, Core
  <1> QED
    BY <1>10, <1>11 DEF RInv

(* An access unit that ends or fails gives up its place. *)
LEMMA EndIsRecent == IInv /\ RInv /\ (Finish \/ Fail) => RInv'
  <1> SUFFICES ASSUME IInv, RInv, Finish \/ Fail
               PROVE  RInv'
    OBVIOUS
  <1> PICK n : n = Len(calls)
    OBVIOUS
  <1> PICK s : s = calls
    OBVIOUS
  <1>1. /\ s \in Seq(Calls) /\ n \in Nat /\ n >= 1 /\ n = Len(s)
        /\ decoder \in Decoders /\ CodedIsRecent /\ played \in Nat
    BY TopType DEF Finish, Fail, At, IInv, TypeOK, RInv
  <1>2. /\ decoder'.channel = decoder.channel
        /\ decoder'.strayed = decoder.strayed
    BY <1>1 DEF Finish, Fail, Finished, Unwound, Decoders
  <1>3. CodedIsRecent'
    <2>1. CASE n = 1
      <3>1. calls' = <<>>
        BY <1>1, <2>1 DEF Finish, Fail, Front
      <3> QED
        BY <3>1 DEF CodedIsRecent
    <2>2. CASE n > 1
      <3> PICK f : f = Front(s)
        OBVIOUS
      <3>1. /\ f \in Seq(Calls) /\ Len(f) = n - 1
            /\ \A i \in 1..(n - 1) : f[i] = s[i]
        BY <1>1, <2>2, FrontType
      <3> PICK t : t = calls'
        OBVIOUS
      <3>2. t = f \/ t = [f EXCEPT ![n - 1].stage = "failed"]
        BY <1>1, <2>2 DEF Finish, Fail
      <3>3. /\ Len(t) = n - 1
            /\ \A i \in 1..(n - 1) : /\ t[i].coded = f[i].coded
                                     /\ t[i].stray = f[i].stray
        <4>1. CASE t = f
          BY <3>1, <4>1
        <4>2. CASE t = [f EXCEPT ![n - 1].stage = "failed"]
          <5> PICK m : m = n - 1
            OBVIOUS
          <5>1. m \in Nat /\ m \in 1..m /\ f \in [1..m -> Calls]
            BY <1>1, <2>2, <3>1
          <5>2. t = [f EXCEPT ![m].stage = "failed"]
            BY <4>2
          <5>3. Len(t) = m
            BY ONLY <3>1, <5>1, <5>2
          <5>4. \A i \in 1..m : t[i].coded = f[i].coded /\ t[i].stray = f[i].stray
            BY ONLY <5>1, <5>2 DEF Calls
          <5> QED
            BY ONLY <5>3, <5>4, m = n - 1
        <4> QED
          BY <3>2, <4>1, <4>2
      <3>4. \A i \in 1..n : Recent(s[i])
        BY <1>1 DEF CodedIsRecent
      <3>5. \A i \in 1..Len(t) : Recent(t[i])
        BY ONLY <1>1, <3>1, <3>3, <3>4 DEF Recent
      <3> QED
        BY <3>5 DEF CodedIsRecent
    <2> QED
      BY <1>1, <2>1, <2>2
  <1> QED
    BY <1>2, <1>3, ChannelsStay

LEMMA StepIsRecent == IInv /\ RInv /\ [Next]_vars => RInv'
  <1> SUFFICES ASSUME IInv, RInv, [Next]_vars
               PROVE  RInv'
    OBVIOUS
  <1>1. /\ TypeOK /\ CodedIsRecent /\ decoder \in Decoders
        /\ decoder.config \in Configs
    BY DEF IInv, TypeOK, RInv, Decoders
  <1>2. CASE Decode
    <2>1. PICK x \in Calls : calls' = <<x>> /\ Recent(x)
      BY <1>2, CallType DEF Decode
    <2>2. CodedIsRecent'
      BY <2>1 DEF CodedIsRecent
    <2> QED
      BY <1>2, <2>2, ChannelsStay DEF Decode
  <1>3. CASE Leading \/ Trailing
    <2>1. PICK stage \in Stages : calls # <<>> /\ To(stage)
      BY <1>3 DEF Leading, Trailing, Extensions, At, Stages
    <2>2. /\ decoder'.channel = decoder.channel
          /\ decoder'.strayed = decoder.strayed
      BY <1>1, <1>3 DEF Leading, Trailing, Extensions, Decoders
    <2> QED
      BY <1>1, <2>1, <2>2, StageIsRecent, ChannelsStay
  <1>4. CASE NoPending \/ RefuseGains \/ ClosePreRoll
    <2>1. PICK stage \in Stages : calls # <<>> /\ To(stage)
      BY <1>4 DEF NoPending, RefuseGains, ClosePreRoll, At, Stages
    <2>2. /\ decoder'.channel = decoder.channel
          /\ decoder'.strayed = decoder.strayed
      BY <1>1, <1>4 DEF NoPending, RefuseGains, ClosePreRoll, Decoders
    <2> QED
      BY <1>1, <2>1, <2>2, StageIsRecent, ChannelsStay
  <1>5. CASE OpenPreRoll
    BY <1>5, OpenIsRecent
  <1>6. CASE RefuseConfig
    <2>1. /\ calls # <<>> /\ To("failed") /\ decoder' = Taken
          /\ "failed" \in Stages
      BY <1>6 DEF RefuseConfig, At, Stages
    <2>2. decoder.pending \in PreRolls
      BY <1>1, <1>6 DEF RefuseConfig, Decoders, NoPreRoll, Configs
    <2>3. SeamIsKept
      BY DEF IInv
    <2>4. /\ decoder'.channel = decoder.channel
          /\ decoder'.strayed = decoder.strayed
      BY <1>1, <2>1, <2>2, <2>3, TakenType
    <2> QED
      BY <1>1, <2>1, <2>4, StageIsRecent, ChannelsStay
  <1>7. CASE Nested
    BY <1>7, NestedIsRecent
  <1>8. CASE DecodeCore
    BY <1>8, CoreIsRecent
  <1>9. CASE Finish \/ Fail
    BY <1>9, EndIsRecent
  <1>10. CASE ClearHistory
    <2>1. decoder' = FreshDecoder(decoder.config) /\ calls' = <<>>
      BY <1>10 DEF ClearHistory
    <2>2. CodedIsRecent'
      BY <2>1 DEF CodedIsRecent
    <2>3. Blank(decoder')
      BY ONLY <1>1, <2>1, FreshType
    <2> QED
      BY <2>2, <2>3, BlankIsRecent
  <1>11. CASE UNCHANGED vars
    BY <1>11 DEF vars, RInv, FdIsRecent, CodedIsRecent, Core
  <1> QED
    BY <1>2, <1>3, <1>4, <1>5, <1>6, <1>7, <1>8, <1>9, <1>10, <1>11 DEF Next

(* What is kept in a frame's gains and channels is of this decoder, never  *)
(* of the one it took the place of.                                        *)
LEMMA NothingOldIsHeard ==
    ASSUME IInv, At("finish")
    PROVE  Top.heard # Old /\ decoder.gain # Old
  <1>1. Top \in Calls /\ decoder \in Decoders
    BY TopType DEF IInv, TypeOK, At
  <1>2. Top.heard \in Age /\ decoder.gain \in Age
    BY <1>1 DEF Calls, Decoders
  <1> QED
    BY <1>2, AgeIs

(* The half of RandomAccess that every stream has: a decoder that takes    *)
(* the place of another plays nothing of it, and with none of its gains,   *)
(* whatever downmix the stream refers to.                                  *)
THEOREM RebuiltForgets ==
    Spec => [](At("finish") => Top.heard # Old /\ decoder.gain # Old)
  BY AlwaysHolds, NothingOldIsHeard, PTL

(* Behind an access point the FD channels play nothing from before it, but *)
(* what a unit predicts from a downmix of before it and the overlap such a *)
(* unit leaves: the contexts and the other overlaps are of the last access *)
(* point or since, after every error and every preroll, whatever downmix   *)
(* the stream refers to.                                                   *)
THEOREM FromAccessPoint == Spec => []RandomAccess
  <1>1. Init => IInv /\ RInv
    BY InitHolds, InitIsRecent
  <1>2. IInv /\ RInv /\ [Next]_vars => (IInv /\ RInv)'
    BY StepHolds, StepIsRecent
  <1>3. IInv /\ RInv => RandomAccess
    <2> SUFFICES ASSUME IInv, RInv, At("finish")
                 PROVE  /\ Top.heard # Old /\ decoder.gain # Old
                        /\ Top.coded <= Young \/ Top.stray
      BY DEF RandomAccess
    <2>1. Len(calls) \in 1..Len(calls) /\ Top = calls[Len(calls)]
      BY TopType DEF IInv, TypeOK, At
    <2> QED
      BY <2>1, NothingOldIsHeard DEF RInv, CodedIsRecent, Recent
  <1> QED
    BY <1>1, <1>2, <1>3, PTL DEF Spec

=============================================================================
