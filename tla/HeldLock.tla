------------------------------ MODULE HeldLock ------------------------------
(***************************************************************************)
(* What withTaskClaimLock and its four siblings promise: a lock that is    *)
(* given to one process at a time, that its user alone gives back, and     *)
(* that stays taken when the user dies, until somebody clears it.  DirLock *)
(* behaves like this as long as no live holder is taken for a dead one,    *)
(* and this is all that TeamTasks takes the lock of a task file to be.     *)
(***************************************************************************)
CONSTANT Proc

VARIABLES lock,    \* who has it; "free", or "orphan" if that one has died
          users    \* who acts as if it had it

heldVars == <<lock, users>>

Init == lock = "free" /\ users = {}

Take(p) == lock = "free" /\ lock' = p /\ users' = users \cup {p}

Give(p) == lock = p /\ lock' = "free" /\ users' = users \ {p}

Abandon(p) == lock = p /\ lock' = "orphan" /\ users' = users \ {p}

Clear == lock = "orphan" /\ lock' = "free" /\ UNCHANGED users

Next == Clear \/ \E p \in Proc : Take(p) \/ Give(p) \/ Abandon(p)

Spec == Init /\ [][Next]_heldVars
=============================================================================
