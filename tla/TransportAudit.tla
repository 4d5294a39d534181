---------------------------- MODULE TransportAudit ---------------------------
(***************************************************************************)
(* TransportDecoder beside an observer of its callers.  The observer reads *)
(* the calls and what they return, never the decoder, and keeps what a     *)
(* caller could write down: what was decoded since the stream was last     *)
(* cut, how many access units were lost in a row and whether by a report   *)
(* or by damage, how often it has drained the decoder, and how many access *)
(* units were processed and were bad.                                      *)
(***************************************************************************)
EXTENDS TransportDecoder

VARIABLES
    since,  \* contents of the access units synthesized since the last cut
    lost,   \* access units lost in a row, up to LostBound
    corrupt,\* whether one of them arrived and was damaged
    drains, \* FLUSH calls in a row, up to DrainBound
    tally   \* access units processed and bad, saturating like the code

avars == <<vars, since, lost, corrupt, drains, tally>>

LostBound  == FadeOutLosses + 3
DrainBound == 3

AuditTypeOK ==
    /\ TypeOK
    /\ since \subseteq Contents
    /\ lost \in 0..LostBound
    /\ corrupt \in BOOLEAN
    /\ drains \in 0..DrainBound
    /\ tally \in [processed : 0..U64Max, bad : 0..U64Max]

NoTally == [processed |-> 0, bad |-> 0]

AuditInit ==
    /\ Init
    /\ since = {}
    /\ lost = 0
    /\ corrupt = FALSE
    /\ drains = 0
    /\ tally = NoTally

(* One call that takes or makes a frame. *)
Observe(contents, damaged) ==
    LET uncut == IF out'.cut THEN 0 ELSE lost
        lossy == damaged /\ out'.ok
        whole == out'.ok /\ ~damaged /\ out'.call # "flush"
    IN /\ since' = (IF out'.cut THEN {} ELSE since) \cup contents
       /\ lost' = IF lossy THEN LeastOf(uncut + 1, LostBound)
                  ELSE IF whole THEN 0 ELSE uncut
       /\ corrupt' = /\ lost' # 0
                     /\ \/ corrupt /\ uncut # 0
                        \/ lossy /\ out'.call # "conceal"
       /\ drains' = IF out'.call # "flush" THEN 0
                    ELSE IF out'.cut THEN 1
                    ELSE LeastOf(drains + 1, DrainBound)
       /\ tally' =
            [processed |-> IF out'.ok THEN SaturatingAdd(tally.processed, 1)
                           ELSE tally.processed,
             bad |-> IF damaged THEN SaturatingAdd(tally.bad, 1)
                     ELSE tally.bad]

ObserveUnit(au) ==
    Observe(IF au.fault \in {"none", "check"} THEN {au.content} ELSE {},
            au.fault # "none")

AuditNext ==
    \/ \E f \in Formats, au \in AccessUnit :
          /\ au.fault \in Faults
          /\ \/ Decode(f, au)
             \/ \E cut \in BOOLEAN : DecodeWithFlags(f, au, cut)
             \/ DecodeNamed(f, au)
          /\ ObserveUnit(au)
    \/ \E f \in Formats, cut \in BOOLEAN :
          \/ ConcealFlag(f, cut) /\ Observe({}, TRUE)
          \/ FlushFlag(f, cut) /\ Observe({}, FALSE)
    \/ /\ \E method \in Methods : SetConcealMethod(method)
       /\ lost' = 0 /\ corrupt' = FALSE /\ drains' = 0
       /\ UNCHANGED <<since, tally>>
    \/ \E all \in BOOLEAN :
          /\ ClearTransport(all)
          /\ tally' = IF all THEN NoTally ELSE tally
          /\ drains' = 0
          /\ UNCHANGED <<since, lost, corrupt>>

AuditSpec == AuditInit /\ [][AuditNext]_avars

-----------------------------------------------------------------------------
(* Properties *)

(* No sample crosses an interruption: whatever is played, held for the     *)
(* next call, kept as a reference or still in an overlap comes from an     *)
(* access unit decoded after the stream was last cut.                      *)
NothingCrossesInterruption ==
    LET recent == since \cup {NoContent}
    IN /\ out.slot.content \in recent
       /\ fifo.slot.content \in recent
       /\ \A f \in Formats : /\ dec.path[f].ref \in recent
                             /\ dec.tail[f] \in recent

(* Draining ends: one FLUSH empties the overlap and one more the delay, if *)
(* there is one; after that a FLUSH returns silence.                       *)
DrainingEnds ==
    drains >= (IF Delays(Facade) THEN 3 ELSE 2) => out.slot = Silence

(* A long burst of losses fades to silence, whether the application        *)
(* reports them or the access units arrive corrupt.                        *)
LongBurstFadesOut ==
    lost = LostBound /\ out.ok /\ out.call \in {"flagged", "conceal"}
        => \/ out.slot.level = Silent
           \/ out.slot \in {Silence, Placeholder}

(* The same, but for corrupt access units under energy interpolation.      *)
BurstFadesOut == ~(corrupt /\ Delays(Facade)) => LongBurstFadesOut

(* Every access unit is counted once, as processed if the call returned a  *)
(* frame for it and as bad if it was damaged or missing, however many      *)
(* times it was decoded on a copy, restored or concealed.                  *)
CountedOnce ==
    /\ stats.total_access_units = tally.processed
    /\ stats.bad_access_units = tally.bad
    /\ stats.bad_bytes <= stats.total_bytes
=============================================================================
