------------------------------ MODULE HaltLatch ------------------------------
(***************************************************************************)
(* What the circuit breaker promises to the rest of the platform, with     *)
(* nothing of how it keeps the promise: a latch that anybody may set and    *)
(* that only an accepted re-arm request clears.  A crash clears no latch.   *)
(***************************************************************************)

VARIABLES
    halted,     \* the latch
    rearming    \* an administrator's request has been accepted, not yet done

latchVars == <<halted, rearming>>

Init == halted \in BOOLEAN /\ rearming = FALSE

\* Any risk limit, the watchdog or an operator sets the latch.
Halt == halted' = TRUE /\ UNCHANGED rearming

AcceptRequest == ~rearming /\ rearming' = TRUE /\ UNCHANGED halted

Rearm == rearming /\ rearming' = FALSE /\ halted' = FALSE

\* The request fails half way: the latch stays as it was.
Abandon == rearming /\ rearming' = FALSE /\ UNCHANGED halted

\* The process dies and comes back, fail closed.
Reboot == halted' = TRUE /\ rearming' = FALSE

Next == Halt \/ AcceptRequest \/ Rearm \/ Abandon \/ Reboot

Spec == Init /\ [][Next]_latchVars
=============================================================================
