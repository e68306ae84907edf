--------------------------- MODULE RuntimeEngine ---------------------------
(***************************************************************************)
(* omx-runtime exec: every command to the runtime engine is a process that *)
(* rebuilds the engine from events.json, carries the command out, writes   *)
(* the log and mailbox.json back, and then the files the TypeScript side   *)
(* reads.  A file lock is shared while the log is read and exclusive while *)
(* it is written; nothing is locked in between or for the last files, and  *)
(* callers share no lock of their own.                                     *)
(*                                                                         *)
(* The log is an array of events in one file.  A command that is accepted  *)
(* becomes one event, so both are the same record here.  Authority leases, *)
(* which nobody in the team asks for, and the replay cursor are left out,  *)
(* and so are the JSON files the TypeScript side falls back to.            *)
(***************************************************************************)
EXTENDS Naturals, SequencesExt

CONSTANTS
  Request,     \* ids of dispatch requests
  Message,     \* ids of mailbox messages
  Proc,        \* processes
  Torn,        \* a file that does not parse: missing, truncated or half written
  MaxLog,      \* bound: no command is given to an engine with a longer log
  Compacting   \* may exec be given --compact?

ASSUME EngineAssumption == MaxLog \in Nat /\ Compacting \in BOOLEAN
ASSUME IdsAssumption == Request \cap Message = {} /\ "free" \notin Proc

VARIABLES
  log,       \* events.json
  box,       \* mailbox.json
  shown,     \* dispatch.json
  flock,     \* the process that has the file lock exclusively, or "free"
  stage,     \* stage[p]: which file p writes next
  engine,    \* engine[p]: the RuntimeEngine of p
  disturbed  \* history: an exec began while another was running, or died with the log torn
             \* or newer than mailbox.json

engineVars == <<log, box, shown, flock, stage, engine, disturbed>>

RequestStatus == {"absent", "pending", "notified", "delivered", "failed"}
MessageStatus == {"absent", "new", "notified", "delivered"}

Event == [op: {"queue", "notify", "deliver", "fail"}, id: Request]
           \cup [op: {"create", "notifyMessage", "deliverMessage"}, id: Message]

ASSUME TornAssumption ==
  Torn \notin Seq(Event) \cup [Message -> MessageStatus] \cup [Request -> RequestStatus]

State == [dispatch: [Request -> RequestStatus], mailbox: [Message -> MessageStatus]]
Empty == [dispatch |-> [r \in Request |-> "absent"], mailbox |-> [m \in Message |-> "absent"]]

Stage == {"idle", "log", "mailbox", "dispatch view", "mailbox view", "rest of mailbox view"}
Engine == [log: Seq(Event), state: State]
NoEngine == [log |-> <<>>, state |-> Empty]
----------------------------------------------------------------------------
(* Commands. *)

\* Seeded fault: a request that has failed may still be delivered.
DispatchMovesAfterFailure ==
  [queue |-> [from |-> {"absent"}, to |-> "pending"],
   notify |-> [from |-> {"pending"}, to |-> "notified"],
   deliver |-> [from |-> {"notified", "failed"}, to |-> "delivered"],
   fail |-> [from |-> {"pending", "notified"}, to |-> "failed"]]

\* The status an operation asks for and the one it leaves.  Ids are new (randomUUID) when a
\* request is queued or a message created.
DispatchMoves ==
  [queue |-> [from |-> {"absent"}, to |-> "pending"],
   notify |-> [from |-> {"pending"}, to |-> "notified"],
   deliver |-> [from |-> {"notified"}, to |-> "delivered"],
   fail |-> [from |-> {"pending", "notified"}, to |-> "failed"]]

MailboxMoves ==
  [create |-> [from |-> {"absent"}, to |-> "new"],
   notifyMessage |-> [from |-> {"new", "notified"}, to |-> "notified"],
   deliverMessage |-> [from |-> {"new", "notified"}, to |-> "delivered"]]

Accepts(e, s) ==
  IF e.id \in Request THEN s.dispatch[e.id] \in DispatchMoves[e.op].from
                      ELSE s.mailbox[e.id] \in MailboxMoves[e.op].from

Apply(e, s) ==
  IF e.id \in Request THEN [s EXCEPT !.dispatch[e.id] = DispatchMoves[e.op].to]
                      ELSE [s EXCEPT !.mailbox[e.id] = MailboxMoves[e.op].to]

\* Replay passes over an event that is refused.
ReplayEvent(s, e) == IF Accepts(e, s) THEN Apply(e, s) ELSE s

\* States(events)[n]: the state after the first n events.
States(events) ==
  LET state[n \in 0..Len(events)] == IF n = 0 THEN Empty ELSE ReplayEvent(state[n - 1], events[n])
  IN state

Replay(events) == States(events)[Len(events)]

\* A log that does not parse is no log; a mailbox.json that parses goes before the log.
Loaded ==
  IF log = Torn THEN NoEngine
  ELSE [log |-> log,
        state |-> IF box = Torn THEN Replay(log) ELSE [Replay(log) EXCEPT !.mailbox = box]]

\* Kept(events, dropped)[n]: what is left of the first n events without the dropped ones.
Kept(events, dropped) ==
  LET kept[n \in 0..Len(events)] ==
        IF n = 0 THEN <<>>
        ELSE IF events[n] \in dropped THEN kept[n - 1] ELSE Append(kept[n - 1], events[n])
  IN kept

Without(events, dropped) == Kept(events, dropped)[Len(events)]

\* The requests the engine knows to be over.
Over(en) == {r \in Request : en.state.dispatch[r] \in {"delivered", "failed"}}

\* Seeded fault: one of the events of a request that is over is kept.
CompactButFailures(en) ==
  [en EXCEPT !.log = Without(@, {e \in Event : e.id \in Over(en) /\ e.op # "fail"})]

\* The log loses the requests that are over; the engine that did it still knows them.
Compact(en) == [en EXCEPT !.log = Without(@, {e \in Event : e.id \in Over(en)})]

Process(e, en) == [log |-> Append(en.log, e), state |-> Apply(e, en.state)]
----------------------------------------------------------------------------
Init ==
  /\ log = Torn /\ box = Torn /\ shown = Torn
  /\ flock = "free"
  /\ stage = [p \in Proc |-> "idle"]
  /\ engine = [p \in Proc |-> NoEngine]
  /\ disturbed = FALSE

\* Nothing that is on disk, or will still be written, knows the id.
NewRequest(r) ==
  /\ shown # Torn => shown[r] = "absent"
  /\ Loaded.state.dispatch[r] = "absent"
  /\ \A p \in Proc : stage[p] \in {"log", "mailbox", "dispatch view"} =>
       engine[p].state.dispatch[r] = "absent"

NewMessage(m) ==
  /\ box # Torn => box[m] = "absent"
  /\ \A i \in DOMAIN Loaded.log : Loaded.log[i].id # m
  /\ \A p \in Proc : engine[p].state.mailbox[m] = "absent"

\* Load under the shared lock and process.  A command that is refused ends the process.
Exec(p, e) ==
  /\ stage[p] = "idle" /\ flock = "free"
  /\ Len(Loaded.log) < MaxLog
  /\ e.op = "queue" => NewRequest(e.id)
  /\ e.op = "create" => NewMessage(e.id)
  /\ Accepts(e, Loaded.state)
  /\ LET en == Process(e, Loaded)
     IN engine' \in {[engine EXCEPT ![p] = x] :
                       x \in {en} \cup (IF Compacting THEN {Compact(en)} ELSE {})}
  /\ stage' = [stage EXCEPT ![p] = "log"]
  /\ disturbed' = (disturbed \/ \E q \in Proc : stage[q] # "idle")
  /\ UNCHANGED <<log, box, shown, flock>>

Goes(p, to) == stage' = [stage EXCEPT ![p] = to]

\* persist: under the exclusive lock the log, then mailbox.json.
PersistLog(p) ==
  /\ stage[p] = "log" /\ flock = "free"
  /\ flock' = p
  /\ log' = engine[p].log
  /\ Goes(p, "mailbox")
  /\ UNCHANGED <<box, shown, engine, disturbed>>

PersistMailbox(p) ==
  /\ stage[p] = "mailbox"
  /\ box' = engine[p].state.mailbox
  /\ flock' = "free"
  /\ Goes(p, "dispatch view")
  /\ UNCHANGED <<log, shown, engine, disturbed>>

\* Seeded fault: the view is written before the log.
ViewDispatchEarly(p) ==
  /\ stage[p] \in {"log", "dispatch view"}
  /\ shown' = engine[p].state.dispatch
  /\ Goes(p, IF stage[p] = "log" THEN "log" ELSE "mailbox view")
  /\ UNCHANGED <<log, box, flock, engine, disturbed>>

\* write_compatibility_view: dispatch.json and mailbox.json, under no lock.  Who loads in the
\* meantime may find mailbox.json truncated.
ViewDispatch(p) ==
  /\ stage[p] = "dispatch view"
  /\ shown' = engine[p].state.dispatch
  /\ Goes(p, "mailbox view")
  /\ UNCHANGED <<log, box, flock, engine, disturbed>>

TruncateMailbox(p) ==
  /\ stage[p] = "mailbox view"
  /\ box' = Torn
  /\ Goes(p, "rest of mailbox view")
  /\ UNCHANGED <<log, shown, flock, engine, disturbed>>

ViewMailbox(p) ==
  /\ stage[p] = "rest of mailbox view"
  /\ box' = engine[p].state.mailbox
  /\ Goes(p, "idle")
  /\ engine' = [engine EXCEPT ![p] = NoEngine]
  /\ UNCHANGED <<log, shown, flock, disturbed>>

\* Seeded fault: the lock outlives its process.
GoneWithoutUnlock(p) ==
  /\ Goes(p, "idle")
  /\ engine' = [engine EXCEPT ![p] = NoEngine]
  /\ UNCHANGED flock

\* The process is gone, and with it its lock.
Gone(p) ==
  /\ Goes(p, "idle")
  /\ engine' = [engine EXCEPT ![p] = NoEngine]
  /\ flock' = IF flock = p THEN "free" ELSE flock

\* It dies between two files.
Die(p) ==
  /\ stage[p] # "idle"
  /\ Gone(p)
  /\ disturbed' = (disturbed \/ stage[p] = "mailbox")
  /\ UNCHANGED <<log, box, shown>>

\* It dies while it writes one.
DieWriting(p) ==
  /\ \/ /\ stage[p] = "log" /\ flock = "free"
        /\ log' = Torn /\ disturbed' = TRUE /\ UNCHANGED <<box, shown>>
     \/ /\ stage[p] = "mailbox"
        /\ box' = Torn /\ UNCHANGED <<log, shown, disturbed>>
     \/ /\ stage[p] = "dispatch view"
        /\ shown' = Torn /\ UNCHANGED <<log, box, disturbed>>
  /\ Gone(p)

Next ==
  \E p \in Proc :
    \/ \E e \in Event : Exec(p, e)
    \/ PersistLog(p) \/ PersistMailbox(p)
    \/ ViewDispatch(p) \/ TruncateMailbox(p) \/ ViewMailbox(p)
    \/ Die(p) \/ DieWriting(p)

Spec == Init /\ [][Next]_engineVars
----------------------------------------------------------------------------
(* Properties. *)

\* Every variable holds a value of its type; the exclusive lock is held by a process that is
\* between its two files, and by no other.
EngineTypeOK ==
  /\ log # Torn => log \in Seq(Event) /\ Len(log) <= MaxLog
  /\ box # Torn => box \in [Message -> MessageStatus]
  /\ shown # Torn => shown \in [Request -> RequestStatus]
  /\ flock \in Proc \cup {"free"}
  /\ \A p \in Proc : flock = p <=> stage[p] = "mailbox"
  /\ stage \in [Proc -> Stage]
  /\ engine \in [Proc -> Engine]
  /\ \A p \in Proc : Len(engine[p].log) <= MaxLog
  /\ disturbed \in BOOLEAN

\* Whatever execs overlapped, died or compacted, replaying a log that parses refuses no event
\* of a request: a load takes every request as far as the log on disk does.  (An event that an
\* overlapping persist wrote over, or that went with a torn log, is not in that log any more:
\* AppendOnly is about the first kind.)
LogReplays ==
  log # Torn =>
    \A i \in 1..Len(log) :
      log[i].id \in Request => Accepts(log[i], States(log)[i - 1])

Rank(status) ==
  CASE status = "absent" -> 0 [] status = "pending" -> 1 [] status = "notified" -> 2
    [] status \in {"delivered", "failed"} -> 3

\* Without overlaps, dispatch.json never shows a request further on than the log has it, or
\* with another end, unless the log has forgotten a request that is over.
ViewNotAhead ==
  (~disturbed /\ shown # Torn) =>
    \A r \in Request :
      LET recorded == Loaded.state.dispatch[r]
      IN \/ shown[r] = recorded \/ Rank(shown[r]) < Rank(recorded)
         \/ Compacting /\ recorded = "absent"

\* What an exec that started now would work with.
Ledger == INSTANCE DeliveryLedger WITH
  dispatch <- Loaded.state.dispatch,
  mailbox <- Loaded.state.mailbox

\* Unless execs overlap, or one dies with the log half written or newer than mailbox.json,
\* requests and messages move as in DeliveryLedger: rebuilding the engine from the
\* files, deaths anywhere else and compaction lose and revive nothing.
StepsLikeLedger == [][~disturbed' => [Ledger!Next]_(Ledger!ledgerVars)]_engineVars

\* "Append-only event log" (rust-runtime-thin-adapter-contract.md).
AppendOnly == [][(log # Torn /\ log' # Torn) => IsPrefix(log, log')]_engineVars
=============================================================================
