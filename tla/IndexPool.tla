----------------------------- MODULE IndexPool -----------------------------
(***************************************************************************)
(* What an index allocator promises its callers (the Mach semaphore and    *)
(* port tables of src/macoscompat): allocate() hands out a natural number  *)
(* no caller currently holds, and free(i) of a held index makes it         *)
(* available again.                                                        *)
(***************************************************************************)
EXTENDS Integers

VARIABLES
    inUse,   \* indices handed out and not freed
    ret      \* the value the last allocate() returned (-1 before any)

Init == inUse = {} /\ ret = -1

Allocate ==
    /\ ret' \in Nat
    /\ ret' \notin inUse
    /\ inUse' = inUse \cup {ret'}

Release == \E n \in inUse : inUse' = inUse \ {n} /\ ret' = ret

Spec == Init /\ [][Allocate \/ Release]_<<inUse, ret>>
=============================================================================
