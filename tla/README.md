# A TLA+ model of fdk-aac-rust

`crates/fdk-aac` is an AAC decoder and encoder in Rust. It starts no thread and
takes no lock: every operation is a `&mut self` call that runs to its end. What
makes it hard is the *order* of those calls. A stream loses and corrupts access
units, changes its configuration, is cut and drained, and is read in `f32` and
in `i16`; the decoder keeps references, overlaps, ramps, delays, waiting losses
and counters from one call to the next, tries access units on copies of itself
and takes failed ones back. A test fixes one order; the model checks all of them
on small instances, and the proofs all instances.

This directory holds the model: TLA+ modules, TLC configurations, TLAPS proofs
and `PROJECT.json`, which lists the runs, the mutants that each property must
catch, the source lines of every definition, the findings and the hazards.
Paths below are relative to `crates/fdk-aac/src`.

## 1. The system

| Component | State it keeps | Operations | Talks to |
|---|---|---|---|
| Operational decode facade (`transport.rs`) | `AacLcDecoder`, LATM multiplex configuration, one-frame PCM delay, losses waiting in it for each format, concealment method, parameters, limiter, statistics | decode (plain, strict, with flags, named after a transport), CONCEAL, FLUSH, INTERRUPTION, CLEAR_HISTORY, `set_parameter`, clear statistics or buffer | core decoder (calls, clones), framing, parsers |
| Incremental ADTS and LOAS drain (`transport.rs`, `concealment.rs`, estimator in `adts.rs`) | input buffer, discarded bits waiting for a frame, loss estimator, PCM and spectral concealment switches | push, drain f32, drain i16, set bit rate, enable and disable | framing, core decoder |
| Incremental framing (`adts.rs`, `loas.rs`) | bytes buffered, bytes discarded | push, `next_frame` | drain |
| Spectral concealment (`decoder.rs`) | twice, for f32 and for i16: last spectra, consecutive losses, `ConcealmentState`, frames left of the recovery ramp | conceal, interpolate, decode, clear history | facade, drain |
| Core decoder (`decoder.rs` and the syntax and filter-bank files) | overlaps, window shapes, SBR, PS, MPS and DRC state | decode one `raw_data_block` | concealment |
| USAC decoder (`usac*.rs`, `audio_preroll.rs`) | pending preroll, nesting depth, crossfade source, last output; per channel the arithmetic context, FD overlap and LPD memory; downmix of the frame before | decode one access unit, clear history | itself (preroll), facade |
| SBR, PS, MPEG Surround (`sbr.rs`, `ld_sbr*.rs`, `ps.rs`, `sac.rs`) | headers, envelopes, filter banks | parse, apply | core decoder |
| DRC (`drc.rs`) | configurations, gain sets, expiry | parse, select, apply | core decoder |
| LATM multiplex (`latm.rs`) | `LatmWriter`: layout, repetition counter, whether the configuration was written; reader: the last configuration | parse, write, setters | facade, encoder facade |
| Parsers (`asc.rs`, `adif.rs`) | none | parse | facade |
| DRM decoders (`drm.rs`) | inner decoder, super frame | decode | facade (by clone) |
| Limiter (`limiter.rs`) | delay line, running maximum, gain | process, reset | facade |
| Encoder facade (`encoder.rs`) | parameters, pending sub-frames, ADIF and LATM state, two metadata delays, compressor, ancillary data | set parameter, resolve, encode, encode transport | core encoder, writers |
| Core encoder (`aac_encoder.rs`, `sbr_encoder.rs`, `ps_encoder.rs`) | analysis overlaps, bit reservoir, rate correction | encode one access unit | encoder facade |

What makes each one correct:

* *Facade.* A loss is concealed exactly once, a frame is played exactly once; a
  failed call leaves nothing of the corrupt access unit behind; nothing of the
  old stream is heard after it was cut; draining ends; every access unit is
  counted once; the decoder and the multiplex configuration agree.
* *Drain.* An access unit that passed, whether decoded, corrupt or lost, has one
  frame in the output; fills fade, are made from the last good frame, and fit
  the next one.
* *Framing.* Good frames arrive however the input is cut and whatever damage is
  around them; no byte is lost from the accounts; the loop ends.
* *Spectral concealment.* State, count and ramp agree; a long burst is silent; no
  frame of a burst is louder than the one before; recovery fades in and its ramp
  has no jump.
* *LATM.* The reader never reads an element under another configuration than the
  one it was written with, and is heard again soon after a loss.
* *Encoder.* The rate stays between its bounds over every stretch of frames; what
  a refused frame leaves behind does not reach the stream; access units leave in
  blocks and in order; a gain leaves with its own setup, and switching metadata
  off is heard.
* *USAC.* Prerolls, however nested and failing, leave no mark on the seam of what
  the application plays, and the stream can be entered at an access point.

The hazards, each at the line where it bites and with the properties that watch
it, are in `PROJECT.json` under `hazards`.

## 2. The modules

    ConcealmentPath              one path as functions of its value
      |-- Concealment            a decoder in one format        ConcealmentProofs
      |-- AdtsDrain              the drain call                 AdtsDrainProofs, MCDrain
      `-- TransportDecoder       the operational calls          TransportProofs
            |-- MCTransport
            `-- TransportAudit   with an observer of the calls  MCAudit
    StreamConfigs                configurations for the instances

    FrameReader                  what a frame reader promises
      ^ implemented by
    IncrementalFraming           next_frame                     FramingProofs, MCFraming

    LatmMux                      LatmWriter and its reader
      |-- LatmChannel            over a channel that loses      EncoderTransportProofs
      |     implements
      |   MuxChannel             what a lossy multiplex promises
      `-- EncoderTransport       behind the encoder facade      EncoderTransportProofs

    BitReservoir                 the reservoir and its fill
      `-- CoreEncoder            the frame encoders             CoreEncoderProofs
    EncoderMetadata              the metadata delays            EncoderMetadataProofs
    UsacDecoder                  USAC access units and prerolls UsacProofs

### ConcealmentPath

`Path` is what `AacLcDecoder` keeps for one format in `fixed_concealment_*` or
`f32_concealment_*`: the spectra (`ref`, abstracted to the content of the frame
they came from), `losses`, `state` and `fade`. `ConcealedPath`,
`InterpolatedPath` and `DecodedPath` are the three commits at the end of
`conceal_*`, `conceal_*_interpolated` and the decode functions; `ConcealedLevel`
and `DecodedLevel` are the gains, as exponents: level *k* is a factor of
2^(-k/2), the `1/sqrt 2` steps of the code. `UsizeMax` is where `saturating_add`
stops.

### Concealment

One decoder, one format. The actions are the public calls: `Decode`,
`DecodeFailsLate` (channel count, CRC or trailing bits are checked when the frame
has already become the reference), `DecodeFailsInDrc` (ramp advanced, reference
kept, f32 only), `Conceal`, `ConcealFailsInDrc` (state stored, loss not counted),
`Interpolate`, `InterpolateFailsLate` (count and state are those of an isolated
loss when the replayed SBR or the DRC fails, and no frame is returned),
`ClearHistory`. `heard`, `call` and `burst` are history: `burst` counts the frames
concealed since the last call that starts the loss count anew, a failed one included.

### TransportDecoder

The facade as a record, and each call as a function from one facade to the next
with the slot it returns; an action applies one of them. This follows the code,
which decodes on copies (`lookahead`, `checkpoint`) and keeps or drops them:
`RecoverHeld` calls `PlainDecode` on a copy as `recover_pending_energy_*` does,
and `DecodeOrConceal` puts back `dec`, and `dec` alone, as
`decode_interleaved_*_with_flags` does.

| TLA+ | code |
|---|---|
| `dec`, `mux`, `fifo`, `pending`, `user`, `stats` | `decoder`, `latm_mux_config`, `concealment_delay`, `pending_energy_*_losses`, `concealment_method_user`, `statistics` |
| `Decode` | `decode_interleaved_f32`, `_i16`, `_strict` |
| `DecodeWithFlags`, `ConcealFlag`, `FlushFlag` | `decode_interleaved_*_with_flags`; `cut` is INTERRUPTION or CLEAR_HISTORY |
| `DecodeNamed` | `decode_raw_*`, `decode_adts_*`, `decode_latm_*`, `decode_loas_*` |
| `SetConcealMethod`, `ClearTransport` | `set_parameter`, `clear_transport_*` |

An access unit is a configuration (or `SameMux`), a content and a damage; the
damage names *where* its processing stops, which decides what it leaves behind.
`tail` is the synthesis overlap of a format.

### TransportAudit

`TransportDecoder` beside an observer that sees calls and results only: contents
synthesized since the stream was cut, losses in a row, drains in a row, access
units that were processed and bad. The promises of the API are stated with it.

### IncrementalFraming

`next_frame` of both readers, one action for each way an iteration of its loop
ends. A byte is what the reader can tell of it: plain, half a syncword, or a
syncword with the length its header will give and the verdict on header and
frame. ADTS and LOAS differ in `HeaderLength` and in the verdicts that occur
(LOAS refuses nothing). `stream`, `sent` and `frames` are history. An ADTS header
with a CRC is two bytes longer than one without; the model has one length.

`FrameReader` is what callers are promised: a reader passes over the bytes that
were pushed, once and in order, and each byte it passes is skipped and counted or
belongs to a whole valid frame that it gives out. `ImplementsReader` maps `sent`,
the bytes taken and the frames given out to it; the buffer, the statuses and the
searches of `IncrementalFraming` have no counterpart there.

### LatmMux, LatmChannel, MuxChannel

`LatmMux` has writer and reader as functions of their values: `Written` is
`LatmWriter::write`, with `since` for `frames_since_config` and its
`saturating_add`; `WithCheck`, `WithOther` and `WithLength` are the setters, which
make the configuration due again if they change something; `MuxAfter` and
`Outcome` are what `LatmAudioMuxElement` does with the `StreamMuxConfig` it keeps.
`LatmChannel` puts a channel that loses elements between them. Nothing comes back
from a reader, so an element is read or lost when it is written.

`MuxChannel` keeps one number, the elements that may still be unreadable
(`owed`): losing an element puts it to what the period allows, or to "for ever"
with the period 0; a configuration that arrives puts it to 0, and an element that
cannot be read takes one off. There is no step for an element that is read under
the wrong configuration. `Heard` and `Owed` are the refinement mapping.

### EncoderTransport

`encode_transport_f32`: `Collect` while there are fewer than
`transport_subframes` access units, then one of `WriteRaw`, `WriteAdif`,
`WriteAdts`, `WriteLatm`, `WriteLoas`, or `AdtsFails` and `LoasFails` when the unit
is too long for its header. As in the code the pending access units are taken
before the unit is written. `AdtsBytes` has the layout of an ADTS frame of several
blocks (positions, CRC of header and blocks). LATM and LOAS units go through
`LatmMux` to a reader, over a link that loses nothing: what the reader cannot read
is the doing of the encoder.
`EncodeFails` is a core that refuses its input: nothing changes.

### BitReservoir, CoreEncoder

`BitReservoir` is `AacLcBitReservoir` and `add_er_cbr_fill`, in bits. `CoreEncoder`
has the order of one access unit of each kind of encoder: window switching
(`Analyse`), SBR preparation (`PrepareSbr`), grant and correction (`Grants`,
`Granted`), quantization (`Fitted`, `Quantized`), fill (`Coded`), commit (`Send`).
What a failure keeps depends on where it happens, hence one action for each place:
`RefuseLc`, `FailLc`, `RefuseLowDelay`, `FailLowDelay`, `RefuseSpectrum`,
`RefuseInput`. The size of a frame is chosen from `Sizes`: which spectrum gives
which size is not modelled. `frames` is history.

### EncoderMetadata

`SetMetadata`, `SetMetadataMode`, `SetFrameGains` and `ClearFrameGains` are the
setters, `Encode` and `EncodeFails` an access unit: `Submitted` is the setup taken
(the mode that is being left and its default after a switch off, from
`metadata_finalize`), `Computed` the gains, `Delayed` the two lines. The compressor is the
number of the last frame it saw. Each setup and gain carries the number of its
call.

### UsacDecoder

| TLA+ | code |
|---|---|
| `Decode`, `Leading`, `DecodeCore`, `Trailing`, `Finish` | `decode_usac_access_unit_f32` and `_multichannel_f32`, in their order |
| `NoPending`, `OpenPreRoll`, `RefuseConfig`, `Nested`, `ClosePreRoll` | `decode_pending_usac_audio_preroll` |
| `Fail` | `?`: the error goes up through the prerolls and closes each |
| `pending`, `depth`, `source`, `last` | `pending_usac_audio_preroll`, `usac_preroll_depth`, `usac_crossfade_source`, `usac_last_output` |
| `channel[c].context`, `.overlap`, `.lpd`, `downmix` | `previous_context` and `previous_lines` of the arithmetic decoder, `overlap` of the FD renderer, the state of `LpdRenderer` and its parser, `previous_downmix` |

A preroll is decoded inside of the access unit that carries it, by the same
function, and may hold another preroll; `calls` is that stack. What the decoder
keeps is reduced to the age of the oldest access unit in it: since the last access
point, from before it, or from before the decoder was rebuilt. `Syntax` is what an
access unit can say, `Stop` where its bits turn out bad; channels before that have
moved on, and a pair is rendered only when both were read. A frame may predict from
the frame before whatever that was, as in the code; `Strays` marks the ones that
thereby reach behind the access point, `strayed` the overlaps they leave.

### AdtsDrain

A drain call is `StartDrain`, then for each frame `RejectConfig`, `DrainGood` or
`DrainCorrupt`, then `ReturnOutput`. The reader is abstracted to the number of
bytes it discarded before a frame. `FilledPath` and `SpectralFill` are the losses
filled from the spectra, `PcmFill` from the last PCM, `ReturnedF32` and
`ReturnedI16` the frames of one iteration, in order. Between drains every switch may
be turned. `output` is what the call returns before it passes the PCM delay.

`Estimate` is given the bytes of the gap and of the frame behind it with all its
blocks, as `frame.bytes.len() * 8` in the code; how long frames are (`FrameBytes`) does
not depend on how many blocks they have. `due`, `drift` and `slack` are history: the
access units that passed, the bytes discarded beyond those that the estimates account
for, and what the estimates may be off by. `Deviation` is what a frame is longer or
shorter than the mean access unit. The estimator puts its remainder to zero whenever
it returns (`adts.rs:839`), so `drift` may grow with every frame.

## 3. The runs

TLC finishes every passing run within two minutes. Each property has a mutant in
`PROJECT.json`, a plausible bug in a mapped definition, under which it fails. The
type invariants are not among the runs: they are proved.

| Run | Instance | Properties |
|---|---|---|
| `concealment_ga` | AAC-LC, f32, two contents, `UsizeMax` 9 | `PathCoherent`: state, count, ramp and reference agree. `LongBurstIsSilent`, `BurstNeverRises`: a burst decays to silence and stays there. `RampIsContinuous`, `RecoveryIsFaded`: recovery fades in without a jump. |
| `operational` | f32 and i16 on one decoder, noise substitution and energy interpolation | `OneFormatWaits`, `WaitingLossIsHeld`: losses wait in one format and the delay holds their placeholder, or what a FLUSH put there after playing it. `HeldFrameIsPlayed`: a decoded frame in the delay is what the next call that returns a frame plays, and the calls that return none leave it there, but for a cut, a change of shape and a change of method. `WaitingLossIsConcealed`: the call that decodes or conceals after a loss plays a synthesized frame for it, or fails and leaves it in the delay. |
| `streams` | AAC-LC and USAC streams in ADTS, every damage, spectral mute and energy interpolation, `UsizeMax` 9 | `NothingCrossesInterruption`, `DrainingEnds`, `ReferenceIsSound`, `BurstFadesOut`. |
| `latm` | elements with and without a configuration, stereo and mono, statistics saturating at 2 | `MuxMatchesDecoder`: elements are parsed under the configuration the decoder has. `CountedOnce`. |
| `framing` | all streams of seven bytes over six kinds, all chunkings | `EveryByteAccounted`, `GoodFramesArrive`, `NothingPinned`, `ImplementsReader`, and under fairness `RequestsEnd`. |
| `drain` | two configurations, three contents, gaps of none to seven access units, one or two blocks in a frame, frames shorter and longer than the mean, two frames in a drain, f32 or i16 | `LossesAreFilled`, `RunsFade`, `RecoveryFadesIn`, `FillIsFromLastFrame`, `RepeatedFitsFrame`. `EstimateIsNearest`: the estimates are off by half an access unit for each gap and by what the frames behind the gaps deviate from the mean. |
| `latm_channel` | eight layouts, periods none, 1 and 3, a counter that saturates at 4 | `ImplementsChannel`: no element is misread, and after a loss the reader is heard again within the period. |
| `encoder_transport` | the five multiplexes, one to three sub-frames, periods 0 to 3, access units of 2 and 12 bytes with room for 20, twelve units, a link that loses nothing | `UnitsAreBlocks`: every unit is a block of consecutive access units, whatever failed before. `RefusalIsRepaired`: an element is unreadable only behind a unit that LOAS refused, and fewer than a period of them. |
| `core_encoder` | the five kinds, nominal frames of 17 and 24 bits, reservoirs of 0, 8 and 16, four sizes, four frames | `RateIsKept`, `RateIsFilled`: no stretch of frames is a reservoir above or below the nominal rate. `RefusalIsNeeded`: a frame that fits is refused only where the rounded fill or the static bits alone are above what is available. `WindowsOverlap`, `StreamStandsAlone`, `CorrectionIsOfOneFrame`: what refused frames leave. |
| `encoder_metadata` | delays of one and two frames, two setups, all modes, four frames | `GainMeetsSetup`, `ResetIsHeard`, `CompressorIsContinuous`. |
| `usac` | mono and stereo, prerolls of none or two access units, one inside the other, two frames played, any number of failures | `SeamIsContinuous`: a frame is faded if and only if a preroll asked for it since the last, and from its tail. `RandomAccess`: behind an access point nothing from before it is heard in the FD channels, but what a unit predicts from a downmix of before it and the overlap that leaves; and nothing from before a rebuild anywhere. |

The bounds. `UsizeMax` 9 lies beyond the last loss with a level of its own (6),
so that a burst reaches silence and the counter its limit; where levels do not
matter 1 or 2 keeps "none, one, several" apart. Two contents tell the last frame
from an older one; `junk` is what a corrupt access unit decodes to. Two
configurations give a change and the way back. The PCM delay holds one frame, so
nothing longer than a few calls is needed to fill, replace and drain it, and the
runs have no bound on the number of calls. A framing stream of seven bytes holds
a frame of six with one of three inside it, or a stuck candidate before a frame.
In a drain a gap of 28 bytes is seven access units, enough for a run of fills to
reach silence with the corrupt frame behind it. With frames of 3 and 8 bytes against
a mean of 4, gaps of one and four bytes round down, to nothing and up.

In `latm_channel` the counter reaches its limit (4) beyond the largest period (3),
as `u8` does beyond the periods in use, and the period 1 repeats always. Twelve
access units fill `encoder_transport` with four units of three sub-frames, or
twelve of one, more than two periods; 20 bytes hold one long or three short access
units and refuse the rest. In `core_encoder` a nominal of 17 bits is no multiple of
eight, so that every rounding occurs; the reservoir of 0 bits is the one
`encoder.rs:3518` asserts; and four frames give each window sequence its
successor and a refusal before the first frame, between two, and twice. Four frames of
`encoder_metadata` are the longest delay (two), the frame that submits, and one
behind a change of mode. In `usac` two played frames are a seam; failures, and the
access units in prerolls, are not counted, so there may be any number of them before
each.

`framing` has `CHECK_DEADLOCK FALSE` because an application may push its stream,
drain it and stop. In the other modules a call is always possible.

Fairness occurs in `IncrementalFraming` only. `WF(Iterate)` says that a call of
`next_frame` goes on until it returns, which a single-threaded call does;
`WF(NextFrame)` that the application asks again until there is no frame, which
is what both drain functions do in their `while let` loops. Nothing is assumed of
`Push`.

### What the code does otherwise than its texts say

One run expects a violation and keeps its trace:

* `corrupt_burst` — under energy interpolation, the default for AAC-LC, corrupt
  access units never fade: each one conceals its predecessor and then the whole
  decoder, loss count included, is restored from the checkpoint
  (`transport.rs:1358`).

The other disagreements met while modelling are in the hazards, and the passing
runs say where they stop short of them:

* An interpolation puts loss count and state back before the SBR or the DRC can fail
  (`decoder.rs:4302`, `4509`): one that returns no frame has started the fade anew, and
  the next concealed frame may be louder, against `decoder.rs:4300-4301`, which speaks
  of a successful one. `BurstNeverRises` and `LongBurstIsSilent` count a burst from
  there.
* The loss estimator adds the length of the whole current frame and takes one access
  unit off (`adts.rs:837`, `transport.rs:1982`): a frame of two blocks behind a gap of
  one byte is reported as one lost access unit, against `adts.rs:832-833`. Gaps of a
  quarter of an access unit are rounded away one by one (`adts.rs:839`), against
  `adts.rs:785-786`. `EstimateIsNearest` allows for both.
* The CBR fill is rounded up to bytes (`aac_encoder.rs:5530`). With a reservoir of 0
  and a nominal that is no multiple of eight, as in the test at `encoder.rs:3518`, every
  filled frame is above the bits available and is refused. `RefusalIsNeeded` names it
  as one of two reasons for a refusal.
* LOAS refuses an element after `LatmWriter` has marked its configuration as sent:
  what follows refers to a configuration the reader never got, against
  `latm.rs:127-128`, with the period 0 for ever (`encoder.rs:1963`).
  `RefusalIsRepaired` says how long.
* The f32 drain conceals the losses before a corrupt frame and drops what it made
  (`transport.rs:2032`); the i16 drain returns them. `LossesAreFilled` exempts it.
* The checkpoint does not hold `latm_mux_config`: after a corrupt element with a
  new configuration, elements that reuse the multiplex are parsed under a
  configuration the decoder does not have (`transport.rs:1358`). `latm` leaves the
  flagged calls out.
* The entry points named after a transport play the silent placeholder of a loss
  that waits, and leave it waiting (`transport.rs:1474`). `operational` leaves them
  out.
* FLUSH plays the placeholder of a loss that waits, puts the overlap in its place and
  leaves the loss waiting; the next access unit conceals the loss over the overlap
  (`transport.rs:1345-1351`). No text promises otherwise; the properties of
  `operational` state it.
* The i16 decoder of object types 17, 20, 23 and 39 has no recovery ramp and leaves
  the concealment state as it was (`decoder.rs:3848`).
* Whether a good frame whose payload contains the bytes of a frame is decoded
  depends on how it was cut into chunks (`adts.rs:722`). `GoodFramesArrive` exempts
  frames of that kind.
* DRC gains in the leading extensions of an access unit are lost if its preroll
  replaces the decoder, and overwritten if the preroll has gains of its own
  (`decoder.rs:1515`), against `docs/DRC.md:39`.
* `previous_downmix` is stored by frames with complex prediction only
  (`usac_decoder.rs:748`), and stays behind frames that failed. A frame that refers to
  its predecessor behind such a frame is predicted from an older one, beyond an access
  point even. The code checks nothing; `RandomAccess` states it as its exception.
* The crossfade source has the channels of the old configuration: behind a change
  from mono to stereo the second channel is not faded (`decoder.rs:1703`). The
  model has one tail for all channels and does not see this.

## 4. The proofs

All constants are arbitrary: the sets of contents and configurations, the formats,
the damages, and the limits of the counters, as far as the named assumptions of
the modules say.

**ConcealmentProofs** (`Invariance`, `TypeCorrect`, `Coherence`, `LongBursts`,
`BurstsFade`, `RampsAreContinuous`, `RecoveryFades`). The invariant checked by
the run says nothing of how `burst`, the observer's count, and `losses`, the
decoder's, are related; without that a long burst might still be audible. `IInv`
adds three parts: `BurstIsCounted` (losses have reached the burst, up to
silence), `HeardIsBehind` (the level last heard is not above what the count
allows) and `RampIsOwed` (after a decoded frame the ramp left is where its level
ended). A call that starts the loss count anew starts the burst anew, the ones that
fail late included. The invariant needs `UsizeIsLarge`: a counter that saturates
below the last level would never become silent. `RecoveryFades` assumes `Ramps`, which
the error-resilient fixed-point decoder lacks.

**TransportProofs** (`TypeCorrect`, `OneFormat`, `LossIsHeld`, `SoundReference`,
`HeldFrame`, `LossConcealed`, `MuxFollows`, and of the observer `UnitsCountedOnce`,
`NothingCrosses`, `DrainEnds`, `BurstFades`). Calls are functions of the facade, so
there is a lemma for each function: it keeps the type and says what it does to
waiting losses, delay, overlaps, references and counts. `StepHolds`, `CalledStep`
and `ObservedStep` put them together, one step for each action of `Next`.

* `OneFormat` and `LossIsHeld` are inductive together: that a loss waits in one
  format needs that its slot is in the delay under the same shape, and the reverse.
* `HeldFrame` and `LossConcealed` are action properties and use both; the first
  needs `DelayIsOff` besides, that a delay without a shape holds nothing. What a call
  plays and what it leaves in the delay are followed together, so that a call that
  fails, and returns no frame, is covered.
* `MuxFollows` needs that nothing but LATM ever sets the multiplex (`Matches`).
* `NothingCrosses` follows content through everything the facade holds (`Drawn`):
  what a call has in its delay, references and overlaps behind it was there before
  or is of this call's access unit, for the calls on copies too.
* `DrainEnds` counts: one FLUSH has emptied the overlap, two the delay (`Drained`).
* `BurstFades` has the longest argument. `BurstFadesOut` says nothing of counters;
  `Fades` relates the losses the observer saw in a row to the losses the path has
  counted and the one that still waits in the delay, and what the delay holds to
  both; `Tidy` says that a silent burst has no overlap left.

Their hypotheses say which calls the application uses. `"named" \notin EntryPoints`
(`OneFormat`, `LossIsHeld`, `HeldFrame`, `LossConcealed`): a named call plays over a
waiting loss. Neither these nor the plain ones (`SoundReference`, `BurstFades`): a
plain decode that fails late keeps the spectra of the corrupt access unit and gives
back nothing for it. No flagged ones (`MuxFollows`): their checkpoint does not hold
the multiplex. `StreamsDiffer` (`MuxFollows`): no two configurations differ in the
frame length alone, the hazard at `transport.rs:2456`. `OneSampleFormat`
(`DrainEnds`, `BurstFades`): each format has an overlap and a path of its own, one
FLUSH or one loss reaches one of them. `UsizeMax >= LostBound` (`BurstFades`): the
counter can count to silence. The runs that check these properties satisfy the same
hypotheses.

**AdtsDrainProofs** (`TypeCorrect`, `LossesFilled`, `NearestEstimate`,
`LatestSource`, `RecoveryFades`, `RepeatedFits`, `RunsGoDown`). The properties are
about the sequence a drain returns, and a frame adds several entries to it: fills,
blocks, an interpolation in place of the last fill. There is one lemma for each
kind of frame and fill that says what it returns and what it leaves in the path
(`GoodReturns`, `CorruptReturns`), and one for each property that says when a
sequence that has it may be continued. What the properties leave out is in `IInv`:
that the reference and the last PCM are of the frame decoded last in this call
(`SourceIsLatest`) and of the decoder's configuration (`SameStream`), that a call
that ends with a fill ends with the level the path is at (`EndsOpenly`), and that
the path has counted at least the fills at the end (`EndIsCounted`), without which a
run of fills over a corrupt frame could rise again. `FilledSoFar` is
`LossesAreFilled` inside of a call.

`NearestEstimate` is an invariant of `drift` and `slack`: one estimate is off by half
an access unit and by the deviation of its frame at most (`DriftHolds`), which is
what the step adds to `slack`.

`ConcealedAfter` and `DecodedAfter` are recursive functions over the blocks of a
frame. Their closed forms (`Concealed`, `Decoded`) are proved with the least-number
principle: if two runs of one step function differ, they differ somewhere first
(`SameRun`). `RunsGoDown` has the hypothesis `UsizeMax > FadeOutLosses`, as
`ConcealmentProofs` has. `OffAssumption` says that the marks for "switched off" and
"no content" are no contents.

**FramingProofs** (`TypeCorrect`, `ByteAccounts`, `Refinement`, `Unpinned`,
`Arrival`, `EveryStepShrinks`). `EveryByteAccounted` is
inductive together with the type invariant and `TakenWasSent`, that no more bytes
leave the buffer than were pushed. Whatever is discarded lies behind everything
taken before, so the bytes that are in no frame grow by exactly the bytes
discarded (`BytesBeyond`), and a frame given out lies behind all frames before
it. `Recover` jumps to the nearest complete frame; that there is a nearest one
(`MinIsMember`) comes from the well-founded order of finite sets.

`Refinement` is that every step of the reader is a step of `FrameReader` or none:
discarding is its `Skip`, returning its `Give` (`ReturnGives`), and the invariant
gives what `Give` demands, that the frame lies behind everything passed and inside
what was pushed.

`Unpinned` is about the reader that has nothing to give out: the search of `Recover`
has found no complete frame, and nothing arrives behind it in the same call.
`Arrival` needs `NonePassed`, which speaks of frames before they are complete: the
reader has taken nothing of a good frame out of its buffer that it has not given
out, unless a false header reaches over the frame or another frame is inside it.
A good frame that was pushed and not given out would then be complete in the buffer,
which `Unpinned` excludes when there is nothing to give out.

`EveryStepShrinks` weighs what is left to do, the bytes not yet pushed, the bytes in
the buffer and the request itself, so that every step takes something off: an
iteration either discards a byte, returns a frame of two bytes or more, or returns
`None`. A damaged header that was kept while the loop goes on would break it.

**EncoderTransportProofs** (`LatmTypeCorrect`, `LatmRefinement` of `LatmChannel`;
`TypeCorrect`, `Blocks`, `RefusalsAreRepaired` of `EncoderTransport`). Both modules
contain the writer and the reader of `LatmMux`, so what these do is proved once: a
written element is `Delivered` or `Lost`, a setter is `Turned`, and no other step
touches them. `CountIsInPeriod` is the invariant: while a configuration counts as
sent, the elements since then are at least one and no more than the period,
saturation included. With it `Delivered` is a `Read` or `Miss` of `MuxChannel`, `Lost`
a `Lose`, and `Turned` a `Renew` or no step (`SettersRenew`); `LatmSteps` says that
`LatmChannel` has no other steps. `LatmChannel` is instantiated with constants of its
own for what the encoder has no counterpart of.

`RefusalsAreRepaired` is about the encoder over a link that loses nothing.
`LagsBehindRefusal` says of the reader that does not have the writer's configuration
that the unit that should have brought it was refused, and counts from it what the
writer counts; the writer repeats the configuration when the period is over, and the
next unit that is not refused brings it (`RefusalRepairs`, `DeliverRepairs`).
`OnlyLatmIsWritten` keeps the other multiplexes out.

`Blocks` needs `MadeIsCounted`, which ties the number of access units encoded to the
units written and the access units pending; it makes the place of the first access
unit of each unit known, failed units included.

**CoreEncoderProofs** (`TypeCorrect`, `RateBound`, `RateFloor`, `WindowShapes`,
`FirstFrame`, `OneFrameCorrected`, `NoNeedlessRefusal`). `RateIsKept` and
`RateIsFilled` quantify over all pairs of frames and are not inductive. `IInv`
relates what was spent up to each frame to the fullness of the reservoir now
(`SpentIsSaved`, `SavedIsSpent`); `GrowthHolds` shows that one more frame keeps
this, by the bounds on a commit (`CommittedSaves`) and on the fill
(`FilledCovers`). `Bounded` is the condition under which there is a rate at all.
What refused frames leave is inductive together (`LInv`): the header counts as
written when a frame has it (`HeaderIsInStream`), and the frames keep the sequences
of the switcher, which is ahead of them after a refusal (`SwitcherIsPast`).
`NoNeedlessRefusal` has no hypothesis about sizes or capacities: it proves for all of
them, the capacity 0 included, that where neither the rounded fill nor the static
bits alone are above what is available, a frame that fits is sent
(`FittedIsAccepted`).

**EncoderMetadataProofs** (`TypeCorrect`, `StepKept`, `ResetArrives`,
`CompressorContinuous`). `LinesInStep` says that the two delay lines hold the same
call at each place, or one is a filling; it needs `LinesAreFull`, their length.
`ResetOnItsWay` follows the default setup through the line: behind it there is
nothing that undoes it. Delays are arbitrary numbers, so the lines are handled
place by place (`Shifted`, `Repeated`).

**UsacProofs** (`TypeCorrect`, `DepthIsCounted`, `Seam`, `RebuiltForgets`,
`FromAccessPoint`). The access units in progress are a stack of any depth.
`CallersWait` says that all but the innermost are in their prerolls; with it the
depth the decoder counts is the length of the stack (`DepthIsOpen`), and a failed
access unit that closes its caller's preroll takes exactly one off.
`SeamIsContinuous` speaks of the moment before a frame is played. `SeamIsKept` is
what holds at every other moment, inside of prerolls and after failures too: the last
output is the tail of what was played, and the crossfade source is that tail if a
crossfade was asked for. `DepthIsOpen` is needed for it, because only a decoder of
depth 0 takes the source away, and only a frame that is no preroll's may.

`RandomAccess` has two halves. That nothing from before a rebuild is heard is in the
types: no age a decoder keeps is `Old`, whatever the stream does (`RebuiltForgets`).
For the other half `RInv` bounds the ages of the arithmetic contexts of all channels,
of their FD overlaps unless they are of a frame that strayed, and of what the access
units in progress have decoded unless that is heard in them. Its heart is
`ContextIsRecent`: an access point either reads and resets every channel, or counts as
none. The downmix has no bound, because the code has none; `strayed` follows it to the
overlap and `stray` to the output, so that `FromAccessPoint` needs no hypothesis about
the stream: it says that what is older than the access point comes from there and
from nowhere else.

Only model-checked: the liveness property `RequestsEnd`. Its safety half is proved
(`EveryStepShrinks` of `FramingProofs`); that a call goes on is fairness, and that it
can go on is ENABLED, which no installed prover treats. `LongBurstFadesOut` is false
(`corrupt_burst`). Every invariant and every other property of the passing runs is
stated by a theorem.

Induction over data in general, with an operator or a predicate as a parameter, is
not to be had from the installed provers; where the model recurs over numbers, the
least-number principle takes its place as described.

## 5. What is not modelled

* Samples. PCM and spectra are contents, levels and ages; filter banks,
  quantization, psychoacoustics, noise and entropy coding are arithmetic that the
  repository checks against the C library. This is most of the code: the tables,
  the signal path of the core decoder and encoder, SBR, PS and MPEG Surround.
* Bit syntax. An access unit is good or stops at one of few places; a LATM element
  has a configuration or refers to the last one.
* Failure of the DRC or the SBR inside a concealment or an interpolation, in the
  facade and the drain (they are in `Concealment`); an interpolation between spectra
  of two layouts (those of one configuration have one layout).
* The parameters of the decoder other than the concealment method, PCM rendering
  and limiter, which follow the delay and keep nothing the calls above depend on.
* The resolution of encoder parameters, ancillary data, the input buffer.
* In USAC: SBR, MPEG Surround and MPS212, multichannel elements, LFE, the settings
  of the user that a preroll's new decoder does not take over.
* LATM with several programs or layers; ADIF, DRM, the LOAS drain, the C bindings,
  and the components marked `not_modelled` in `PROJECT.json`, each with its reason.
* `AdtsDrain` drains in one format and has no flagged calls between the drains.

What would come next: the drain composed with the flagged calls, so that
INTERRUPTION, waiting losses and PCM concealment meet; the DRM super frames and
the clone of their decoder into the facade; the SBR header state and its reset;
DRC expiry and selection.
