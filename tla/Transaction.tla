---------------------------- MODULE Transaction ----------------------------
(***************************************************************************)
(* services/rollback.rs: Transaction::run executes its steps in order and, *)
(* at the first one that fails, calls rollback on the completed ones from  *)
(* the last to the first.  The error of a rollback is logged and dropped.  *)
(***************************************************************************)
EXTENDS Naturals, Sequences

CONSTANT N                  \* number of steps added to the transaction

ASSUME TransactionAssumption == N \in Nat

VARIABLES
    reliable,               \* ghost: in this transaction a step that answers
                            \* Err has done nothing and no rollback answers Err
    phase,                  \* "executing", "reverting", "ok" or "rolledBack"
    i,                      \* step run executes next, or reverts next
    completed,              \* the indices pushed to self.completed
    applied,                \* ghost: steps whose effect is in place
    stuck                   \* ghost: steps whose rollback returned Err

vars == <<reliable, phase, i, completed, applied, stuck>>

Init == /\ reliable \in BOOLEAN
        /\ phase = "executing"
        /\ i = 1
        /\ completed = << >>
        /\ applied = {}
        /\ stuck = {}

More == i <= N

ExecuteOk ==
    /\ phase = "executing"
    /\ More
    /\ completed' = Append(completed, i)
    /\ applied' = applied \union {i}
    /\ i' = i + 1
    /\ UNCHANGED <<reliable, phase, stuck>>

\* Mutant of the next definition: the last completed step is not undone.
SkipLast == Len(completed) - 1
LastDone == Len(completed)

\* The failing step is not in `completed`: nobody calls its rollback.
ExecuteErr ==
    /\ phase = "executing"
    /\ i <= N
    /\ phase' = "reverting"
    /\ i' = LastDone
    /\ \/ applied' = applied
       \/ ~reliable /\ applied' = applied \union {i}
    /\ UNCHANGED <<reliable, completed, stuck>>

Succeed ==
    /\ phase = "executing"
    /\ i > N
    /\ phase' = "ok"
    /\ UNCHANGED <<reliable, i, completed, applied, stuck>>

\* Mutant of the next definition: iter() in place of iter().rev().
InOrderOfExecution == completed[Len(completed) + 1 - i]
Undone == completed[i]

\* One turn of the loop over completed.iter().rev(), rollback answering Ok.
RevertOk ==
    /\ phase = "reverting"
    /\ i >= 1
    /\ applied' = applied \ {Undone}
    /\ i' = i - 1
    /\ UNCHANGED <<reliable, phase, completed, stuck>>

\* Mutant of the next definition: `?` in place of `if let Err`.
LoopEnds == i' = 0
LoopGoesOn == i' = i - 1

\* The same turn with a rollback that answers Err.
RevertErr ==
    /\ phase = "reverting"
    /\ i >= 1
    /\ ~reliable
    /\ stuck' = stuck \union {Undone}
    /\ LoopGoesOn
    /\ UNCHANGED <<reliable, phase, completed, applied>>

ReturnRolledBack ==
    /\ phase = "reverting"
    /\ i = 0
    /\ phase' = "rolledBack"
    /\ UNCHANGED <<reliable, i, completed, applied, stuck>>

Next == \/ ExecuteOk \/ ExecuteErr \/ Succeed
        \/ RevertOk \/ RevertErr \/ ReturnRolledBack

Spec == Init /\ [][Next]_vars /\ WF_vars(Next)

-----------------------------------------------------------------------------

TypeOK ==
    /\ reliable \in BOOLEAN
    /\ phase \in {"executing", "reverting", "ok", "rolledBack"}
    /\ i \in 0..(N + 1)
    /\ completed \in Seq(1..N)
    /\ applied \subseteq 1..N
    /\ stuck \subseteq 1..N

\* The step that run could not execute, once it is reverting.
FailedStep == Len(completed) + 1

\* While run reverts, the steps below the one it is at are all still in
\* effect: no step loses the ground it was built on before its own turn
\* (rollback.rs:96 walks the completed steps from the last one).
UndoesFromTheLast == phase = "reverting" => 1..i \subseteq applied

\* Whatever step fails and whatever rollbacks fail after it, what a call that
\* returns RolledBack leaves in effect is only a step whose own rollback
\* answered an error, or the failing step itself; one that returns Ok has left
\* every step in effect (rollback.rs:99-101 goes on after a failed rollback).
LeavesOnlyWhatFailed ==
    /\ phase = "ok" => applied = 1..N
    /\ phase = "rolledBack" =>
           /\ applied \subseteq stuck \union {FailedStep}
           /\ reliable => applied = {}

\* The transaction as its caller sees it.
Abstract == INSTANCE TransactionSpec WITH
    outcome  <- CASE phase = "ok" -> "committed"
                  [] phase = "rolledBack" -> "aborted"
                  [] OTHER -> "running",
    inEffect <- IF phase \in {"ok", "rolledBack"} THEN applied ELSE {}

\* run implements the all-or-nothing transaction that the header of
\* rollback.rs describes (rollback.rs:1-4).
ImplementsSpec == Abstract!Spec
=============================================================================
