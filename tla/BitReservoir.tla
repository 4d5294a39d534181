---------------------------- MODULE BitReservoir ----------------------------
(***************************************************************************)
(* AacLcBitReservoir of aac_encoder.rs and the fill that keeps it from     *)
(* overflowing.  Sizes of access units are in bytes, the rest in bits.     *)
(***************************************************************************)
EXTENDS Integers

CONSTANTS Nominals, Capacities

ASSUME BudgetsAreBits ==
    Nominals \subseteq Nat \ {0} /\ Capacities \subseteq Nat

Reservoir ==
    [nominal : Nominals, capacity : Capacities, fullness : Nat]

Smaller(m, n) == IF m < n THEN m ELSE n
Larger(m, n) == IF m > n THEN m ELSE n

NewReservoir(nominal, capacity) ==
    [nominal |-> nominal, capacity |-> capacity, fullness |-> 0]

FullReservoir(nominal, capacity) ==
    [nominal |-> nominal, capacity |-> capacity, fullness |-> capacity]

Available(r) == r.nominal + r.fullness

Accepts(r, bytes) == 8 * bytes <= Available(r)

(* Mutant of Committed: nothing caps what is saved. *)
CommittedUncapped(r, bytes) ==
    [r EXCEPT !.fullness = Available(r) - 8 * bytes]

Committed(r, bytes) ==
    [r EXCEPT !.fullness = Smaller(Available(r) - 8 * bytes, r.capacity)]

(* What a full reservoir could not take. *)
MinimumCbr(r) == Larger(Available(r) - r.capacity, 0)

(* Mutant of Filled: the size is rounded down to bytes. *)
FilledDown(r, bytes) == Larger(bytes, MinimumCbr(r) \div 8)

Filled(r, bytes) == Larger(bytes, (MinimumCbr(r) + 7) \div 8)
=============================================================================
