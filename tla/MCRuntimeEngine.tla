-------------------------- MODULE MCRuntimeEngine --------------------------
(* RuntimeEngine for TLC: processes are interchangeable, and so are requests. *)
EXTENDS RuntimeEngine, TLC

Symmetry == Permutations(Proc) \cup Permutations(Request)

\* Of dispatch.json, and of what will be written there, only the ids count once the engine has
\* been disturbed: no property looks at more.
Requests(table) ==
  IF table = Torn \/ ~disturbed THEN table ELSE {r \in Request : table[r] # "absent"}

\* What a process will still write, and so what is left of it: no guard looks at the rest.
ToWrite(p) ==
  LET s == engine[p].state
  IN CASE stage[p] = "idle" -> <<>>
       [] stage[p] = "log" -> <<engine[p].log, Requests(s.dispatch), s.mailbox>>
       [] stage[p] \in {"mailbox", "dispatch view"} -> <<Requests(s.dispatch), s.mailbox>>
       [] OTHER -> <<s.mailbox>>

View == <<log, box, Requests(shown), flock, stage, [p \in Proc |-> ToWrite(p)], disturbed>>
=============================================================================
