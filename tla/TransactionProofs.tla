------------------------- MODULE TransactionProofs -------------------------
(***************************************************************************)
(* What Transaction does for any number of steps, whichever of them fails  *)
(* and whatever the rollbacks answer.                                      *)
(***************************************************************************)
EXTENDS Transaction, TLAPS

K == Len(completed)

\* The rollbacks of reliable steps do not fail.
NoneStuck == reliable => stuck = {}

\* What run has executed, in the order in which it has.
InOrder == \A k \in 1..K : completed[k] = k

Executing ==
    phase = "executing" => /\ i = K + 1
                           /\ applied = 1..K
                           /\ stuck = {}

\* Between two turns of the loop, i separates the steps that keep their effect
\* from those whose rollback has been called.
Reverting ==
    phase = "reverting" =>
        /\ K < N /\ i <= K
        /\ 1..i \subseteq applied
        /\ applied \subseteq 1..i \union stuck \union {FailedStep}
        /\ stuck \subseteq applied \intersect (i + 1)..K
        /\ reliable => FailedStep \notin applied

IInv == /\ TypeOK
        /\ InOrder
        /\ K <= N
        /\ Executing
        /\ Reverting
        /\ NoneStuck
        /\ LeavesOnlyWhatFailed

-----------------------------------------------------------------------------

LEMMA InitIInv == Init => IInv
BY TransactionAssumption
DEF Init, IInv, TypeOK, InOrder, K, Executing, Reverting, NoneStuck,
    LeavesOnlyWhatFailed

\* The loop forward pushes the step it has executed.
LEMMA ExecuteOkIInv == IInv /\ ExecuteOk => IInv'
<1> SUFFICES ASSUME IInv, ExecuteOk PROVE IInv'
  OBVIOUS
<1> USE TransactionAssumption DEF ExecuteOk, More, IInv, NoneStuck
<1>1. /\ completed' \in Seq(1..N) /\ K' = K + 1 /\ K + 1 <= N
      /\ completed'[K + 1] = K + 1
      /\ \A k \in 1..K : completed'[k] = completed[k]
  BY DEF TypeOK, K, Executing
<1>2. TypeOK'
  BY <1>1 DEF TypeOK
<1>3. InOrder'
  BY <1>1 DEF InOrder, K, TypeOK
<1>4. Executing' /\ Reverting' /\ LeavesOnlyWhatFailed'
  BY <1>1 DEF Executing, Reverting, LeavesOnlyWhatFailed, K, TypeOK
<1> QED
  BY <1>1, <1>2, <1>3, <1>4

\* The failing step is the first one above the completed ones.
LEMMA ExecuteErrIInv == IInv /\ ExecuteErr => IInv'
<1> SUFFICES ASSUME IInv, ExecuteErr PROVE IInv'
  OBVIOUS
<1> USE TransactionAssumption DEF ExecuteErr, LastDone, IInv, NoneStuck
<1>1. K \in Nat /\ K' = K /\ i = K + 1 /\ FailedStep' = i
  BY DEF TypeOK, K, Executing, FailedStep
<1>2. TypeOK' /\ InOrder'
  BY <1>1 DEF TypeOK, InOrder, K, Executing
<1>3. Reverting'
  BY <1>1 DEF Executing, Reverting, FailedStep, K, TypeOK
<1>4. Executing' /\ LeavesOnlyWhatFailed'
  BY DEF Executing, LeavesOnlyWhatFailed
<1> QED
  BY <1>1, <1>2, <1>3, <1>4

\* A rollback that works takes step i, and only it, out of effect.
LEMMA RevertOkIInv == IInv /\ RevertOk => IInv'
<1> SUFFICES ASSUME IInv, RevertOk PROVE IInv'
  OBVIOUS
<1> USE TransactionAssumption
<1>1. /\ K \in 0..N /\ FailedStep = K + 1
      /\ K' = K /\ FailedStep' = FailedStep
  BY DEF IInv, RevertOk, Undone, TypeOK, K, FailedStep
<1>2. i \in 1..K /\ i' = i - 1 /\ applied' = applied \ {i}
  BY <1>1 DEF IInv, RevertOk, Undone, TypeOK, Reverting, InOrder
<1>3. UNCHANGED <<reliable, phase, completed, stuck>> /\ phase = "reverting"
  BY DEF RevertOk
<1>4. TypeOK'
  BY <1>1, <1>2, <1>3 DEF IInv, TypeOK
<1>5. InOrder' /\ K' <= N
  BY <1>1, <1>3 DEF IInv, InOrder
<1>6. Reverting'
  <2>1. /\ K < N /\ 1..i \subseteq applied
        /\ applied \subseteq 1..i \union stuck \union {FailedStep}
        /\ stuck \subseteq applied \intersect (i + 1)..K
        /\ reliable => FailedStep \notin applied
    BY <1>3 DEF IInv, Reverting
  <2>2. 1..i = 1..(i - 1) \union {i} /\ i \notin 1..(i - 1) /\ i \notin stuck
    BY <1>1, <1>2, <2>1
  <2>3. (i + 1)..K \subseteq i..K
    BY <1>1, <1>2
  <2> QED
    BY <1>1, <1>2, <1>3, <2>1, <2>2, <2>3 DEF Reverting
<1>7. Executing' /\ NoneStuck' /\ LeavesOnlyWhatFailed'
  BY <1>3 DEF IInv, RevertErr, NoneStuck, Executing, LeavesOnlyWhatFailed
<1> QED
  BY <1>4, <1>5, <1>6, <1>7 DEF IInv

\* One that fails leaves step i in effect, and the loop goes on.
LEMMA RevertErrIInv == IInv /\ RevertErr => IInv'
<1> SUFFICES ASSUME IInv, RevertErr PROVE IInv'
  OBVIOUS
<1> USE TransactionAssumption
<1>1. /\ K \in 0..N /\ FailedStep = K + 1
      /\ K' = K /\ FailedStep' = FailedStep
  BY DEF IInv, RevertErr, Undone, LoopGoesOn, TypeOK, K, FailedStep
<1>2. i \in 1..K /\ i' = i - 1 /\ stuck' = stuck \union {i}
  BY <1>1 DEF IInv, RevertErr, Undone, LoopGoesOn, TypeOK, Reverting, InOrder
<1>3. UNCHANGED <<reliable, phase, completed, applied>> /\ phase = "reverting"
  BY DEF RevertErr
<1>4. TypeOK'
  BY <1>1, <1>2, <1>3 DEF IInv, TypeOK
<1>5. InOrder' /\ K' <= N
  BY <1>1, <1>3 DEF IInv, InOrder
<1>6. Reverting'
  <2>1. /\ K < N /\ 1..i \subseteq applied
        /\ applied \subseteq 1..i \union stuck \union {FailedStep}
        /\ stuck \subseteq applied \intersect (i + 1)..K
        /\ reliable => FailedStep \notin applied
    BY <1>3 DEF IInv, Reverting
  <2>2. 1..i = 1..(i - 1) \union {i} /\ i \notin 1..(i - 1) /\ i \notin stuck
    BY <1>1, <1>2, <2>1
  <2>3. (i + 1)..K \subseteq i..K
    BY <1>1, <1>2
  <2> QED
    BY <1>1, <1>2, <1>3, <2>1, <2>2, <2>3 DEF Reverting
<1>7. Executing' /\ NoneStuck' /\ LeavesOnlyWhatFailed'
  BY <1>3 DEF IInv, RevertErr, NoneStuck, Executing, LeavesOnlyWhatFailed
<1> QED
  BY <1>4, <1>5, <1>6, <1>7 DEF IInv

LEMMA NextIInv == IInv /\ [Next]_vars => IInv'
<1> SUFFICES ASSUME IInv, [Next]_vars PROVE IInv'
  OBVIOUS
<1>1. CASE Succeed
  <2>1. K' = K
    BY <1>1 DEF Succeed, K
  <2>2. i = K + 1 /\ K = N /\ applied = 1..N
    BY <1>1, TransactionAssumption DEF Succeed, IInv, Executing, K, TypeOK
  <2> QED
    BY <1>1, <2>1, <2>2 DEF Succeed, IInv, TypeOK, InOrder, Executing, Reverting,
                            NoneStuck, LeavesOnlyWhatFailed, FailedStep, K
<1>2. CASE ReturnRolledBack
  <2>1. K' = K /\ K \in 0..N /\ FailedStep' = FailedStep
    BY <1>2, TransactionAssumption
    DEF ReturnRolledBack, IInv, TypeOK, K, FailedStep
  <2>2. TypeOK' /\ InOrder' /\ Executing' /\ Reverting' /\ NoneStuck'
    BY <1>2, <2>1
    DEF ReturnRolledBack, IInv, TypeOK, InOrder, Executing, Reverting,
        NoneStuck, K
  <2>3. LeavesOnlyWhatFailed'
    BY <1>2, <2>1
    DEF ReturnRolledBack, IInv, Reverting, NoneStuck, LeavesOnlyWhatFailed
  <2> QED
    BY <2>1, <2>2, <2>3 DEF IInv
<1>3. CASE UNCHANGED vars
  BY <1>3 DEF vars, IInv, TypeOK, InOrder, K, Executing, Reverting,
              NoneStuck, LeavesOnlyWhatFailed, FailedStep
<1> QED
  BY <1>1, <1>2, <1>3, ExecuteOkIInv, ExecuteErrIInv, RevertOkIInv, RevertErrIInv
  DEF Next

-----------------------------------------------------------------------------

LEMMA Invariant == Spec => []IInv
BY InitIInv, NextIInv, PTL DEF Spec

\* TypeOK of Transaction: in particular the index of run stays within the
\* steps (rollback.rs:70-89).
THEOREM TransactionTypeOK == Spec => []TypeOK
BY Invariant, PTL DEF IInv

\* For any number of steps: what run leaves in effect when it returns
\* (rollback.rs:64-103), whichever step and whichever rollbacks fail.
THEOREM TransactionLeavesOnlyWhatFailed == Spec => []LeavesOnlyWhatFailed
BY Invariant, PTL DEF IInv

\* For any number of steps: while run undoes step i, the steps below it are
\* in effect (rollback.rs:96).
THEOREM TransactionUndoesFromTheLast == Spec => []UndoesFromTheLast
<1>1. IInv => UndoesFromTheLast
  BY DEF IInv, Reverting, UndoesFromTheLast
<1> QED
  BY <1>1, Invariant, PTL

\* For any number of steps run is the transaction of TransactionSpec: all or
\* nothing when its steps fail cleanly and can be undone (rollback.rs:1-4).
THEOREM TransactionImplementsSpec == Spec => ImplementsSpec
<1> DEFINE outcome == CASE phase = "ok" -> "committed"
                        [] phase = "rolledBack" -> "aborted"
                        [] OTHER -> "running"
           inEffect == IF phase \in {"ok", "rolledBack"} THEN applied ELSE {}
<1>1. Init => Abstract!Init
  BY DEF Init, Abstract!Init
<1>2. IInv /\ [Next]_vars => [Abstract!Next]_<<reliable, outcome, inEffect>>
  <2> SUFFICES ASSUME IInv, [Next]_vars
               PROVE  [Abstract!Next]_<<reliable, outcome, inEffect>>
    OBVIOUS
  <2>1. CASE Succeed
    <3>1. applied = 1..N
      BY <2>1, TransactionAssumption DEF Succeed, IInv, Executing, K, TypeOK
    <3>2. Abstract!Commit
      BY <2>1, <3>1 DEF Succeed, Abstract!Commit
    <3> QED
      BY <3>2 DEF Abstract!Next
  <2>2. CASE ReturnRolledBack
    <3>1. /\ applied \subseteq 1..N
          /\ reliable => applied = {}
      BY <2>2 DEF ReturnRolledBack, IInv, TypeOK, Reverting, NoneStuck
    <3>2. Abstract!Abort
      BY <2>2, <3>1 DEF ReturnRolledBack, Abstract!Abort
    <3> QED
      BY <3>2 DEF Abstract!Next
  <2>3. CASE ExecuteOk \/ ExecuteErr \/ RevertOk \/ RevertErr
    BY <2>3 DEF ExecuteOk, ExecuteErr, RevertOk, RevertErr
  <2>4. CASE UNCHANGED vars
    BY <2>4 DEF vars
  <2> QED
    BY <2>1, <2>2, <2>3, <2>4 DEF Next
<1> QED
  BY <1>1, <1>2, Invariant, PTL DEF Spec, ImplementsSpec, Abstract!Spec
=============================================================================
