------------------------------ MODULE MuxChannel ------------------------------
(***************************************************************************)
(* What a multiplex that sends its configuration now and then promises     *)
(* over a channel that loses elements: after a loss some elements cannot   *)
(* be read, fewer than a period, and without a loss there is none.  With   *)
(* the period 0 the configuration is never repeated on its own.            *)
(***************************************************************************)
EXTENDS Integers

VARIABLES
    period,     \* elements from one configuration to the next
    owed,       \* elements that may still be unreadable, -1 without limit
    heard       \* what became of the last element

vars == <<period, owed, heard>>

Debts == IF period = 0 THEN {0, -1} ELSE 0..(period - 1)

Init ==
    /\ period \in Nat
    /\ owed = 0
    /\ heard = "nothing"

Lose ==
    /\ owed' \in Debts
    /\ heard' = "nothing"
    /\ UNCHANGED period

Read ==
    /\ owed' = 0
    /\ heard' = "read"
    /\ UNCHANGED period

Miss ==
    /\ owed # 0
    /\ owed' = IF owed > 0 THEN owed - 1 ELSE owed
    /\ heard' = "missed"
    /\ UNCHANGED period

(* Something changed, and the next element carries a configuration. *)
Renew ==
    /\ owed' = 0
    /\ UNCHANGED <<period, heard>>

Next == Lose \/ Read \/ Miss \/ Renew

Spec == Init /\ [][Next]_vars
=============================================================================
