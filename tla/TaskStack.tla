----------------------------- MODULE TaskStack -----------------------------
(***************************************************************************)
(* What execute and halt promise, without the process table, the PCB links *)
(* and the terminals: the tasks form a stack.  execute() puts a new task   *)
(* on top and suspends the caller; halt() removes the top task and the one *)
(* below it goes on.                                                       *)
(***************************************************************************)
EXTENDS Integers, Sequences

CONSTANT Proc           \* the tasks there can be

VARIABLES
    stack,              \* the tasks that have not ended, the running one last
    lost                \* the bottom task has ended: nothing to return to

vars == <<stack, lost>>

Init == stack = <<>> /\ lost = FALSE

Fresh(p) == \A i \in 1 .. Len(stack) : stack[i] # p

(* The first task, or a task called by the one on top.                     *)
Start ==
    /\ ~lost
    /\ \E p \in Proc : Fresh(p) /\ stack' = Append(stack, p)
    /\ lost' = lost

(* The top task ends and its caller goes on.                               *)
Return ==
    /\ ~lost
    /\ Len(stack) > 1
    /\ stack' = SubSeq(stack, 1, Len(stack) - 1)
    /\ lost' = lost

(* The bottom task ends.                                                   *)
Lose ==
    /\ ~lost
    /\ Len(stack) = 1
    /\ lost' = TRUE
    /\ stack' = stack

Next == Start \/ Return \/ Lose

Spec == Init /\ [][Next]_vars
============================================================================
