--------------------------- MODULE DeliveryLedger ---------------------------
(***************************************************************************)
(* What the runtime engine keeps for the team, with every command atomic:  *)
(* how far each dispatch request is, and how far each message.             *)
(* RuntimeEngine behaves like this as long as its processes keep out of    *)
(* each other's way.                                                       *)
(***************************************************************************)
CONSTANTS Request, Message

VARIABLES dispatch,   \* dispatch[r]: how far request r is
          mailbox     \* mailbox[m]: how far message m is

ledgerVars == <<dispatch, mailbox>>

\* Requests that are over may be forgotten, all of them at once, with any change or without.
Live(table) ==
  [r \in Request |-> IF table[r] \in {"delivered", "failed"} THEN "absent" ELSE table[r]]

Keep(table) == dispatch' \in {table, Live(table)}

MoveRequest(r, from, to) ==
  /\ dispatch[r] \in from
  /\ Keep([dispatch EXCEPT ![r] = to])
  /\ UNCHANGED mailbox

\* A request is delivered only after somebody was notified of it, and it ends once.
RequestMoves(r) ==
  \/ MoveRequest(r, {"absent"}, "pending")
  \/ MoveRequest(r, {"pending"}, "notified")
  \/ MoveRequest(r, {"notified"}, "delivered")
  \/ MoveRequest(r, {"pending", "notified"}, "failed")

MoveMessage(m, from, to) ==
  /\ mailbox[m] \in from
  /\ mailbox' = [mailbox EXCEPT ![m] = to]
  /\ Keep(dispatch)

\* A message that is delivered stays so.
MessageMoves(m) ==
  \/ MoveMessage(m, {"absent"}, "new")
  \/ MoveMessage(m, {"new", "notified"}, "notified")
  \/ MoveMessage(m, {"new", "notified"}, "delivered")

Forget == Keep(dispatch) /\ UNCHANGED mailbox

Next ==
  \/ Forget
  \/ \E r \in Request : RequestMoves(r)
  \/ \E m \in Message : MessageMoves(m)
=============================================================================
