----------------------------- MODULE PrintLedger -----------------------------
(***************************************************************************)
(* What the delivery of jobs promises, without the queue: a submission and *)
(* each requeue an operator asks for allow one printing of the job, and    *)
(* nothing else does.  Decision 16 of VIBE-PRINT-MASTER-PLAN.md ("at most  *)
(* once for the in-flight job").  Delivery implements it for the jobs of   *)
(* printers that report a broken stream as such.                           *)
(***************************************************************************)
EXTENDS Naturals

CONSTANT Jobs

VARIABLES
    allowed,   \* allowed[j]: printings of j asked for; 0: not submitted
    printed    \* printed[j]: printings of j that may have begun

ledger == <<allowed, printed>>

Init ==
    /\ allowed = [j \in Jobs |-> 0]
    /\ printed = [j \in Jobs |-> 0]

Submit(j) ==
    /\ allowed[j] = 0
    /\ allowed' = [allowed EXCEPT ![j] = 1]
    /\ UNCHANGED printed

AllowAgain(j) ==
    /\ allowed[j] > 0
    /\ allowed' = [allowed EXCEPT ![j] = @ + 1]
    /\ UNCHANGED printed

\* Several jobs at once: threads outlive the process that started them.
BeginPrinting(some) ==
    /\ \A j \in some : printed[j] < allowed[j]
    /\ printed' = [j \in Jobs |-> IF j \in some THEN printed[j] + 1 ELSE printed[j]]
    /\ UNCHANGED allowed

Next ==
    \/ \E j \in Jobs : Submit(j) \/ AllowAgain(j)
    \/ \E some \in SUBSET Jobs : BeginPrinting(some)

Spec == Init /\ [][Next]_ledger

=============================================================================
