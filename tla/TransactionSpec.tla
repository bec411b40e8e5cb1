-------------------------- MODULE TransactionSpec --------------------------
(***************************************************************************)
(* What services/rollback.rs promises in its header: the steps of a        *)
(* transaction either are all in effect or, when one of them fails, none   *)
(* of them is, if they fail cleanly and can be undone.  The caller sees    *)
(* nothing but the moment the call returns.                                *)
(***************************************************************************)
EXTENDS Naturals

CONSTANT N                  \* number of steps

VARIABLES
    reliable,               \* the steps fail cleanly and can be undone
    outcome,                \* "running", "committed" or "aborted"
    inEffect                \* the steps whose effect remains at the return

Init == /\ reliable \in BOOLEAN
        /\ outcome = "running"
        /\ inEffect = {}

Commit == /\ outcome = "running"
          /\ outcome' = "committed"
          /\ inEffect' = 1..N
          /\ UNCHANGED reliable

\* Steps that are not reliable may leave anything but the whole.
Abort == /\ outcome = "running"
         /\ outcome' = "aborted"
         /\ inEffect' \in IF reliable THEN {{}} ELSE SUBSET (1..N)
         /\ UNCHANGED reliable

Next == Commit \/ Abort

Spec == Init /\ [][Next]_<<reliable, outcome, inEffect>>
=============================================================================
