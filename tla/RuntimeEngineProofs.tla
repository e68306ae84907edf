------------------------ MODULE RuntimeEngineProofs ------------------------
(***************************************************************************)
(* Theorems about RuntimeEngine, for any number of requests, messages and  *)
(* processes and logs of any length.                                       *)
(***************************************************************************)
EXTENDS RuntimeEngine, FiniteRecursion

USE EngineAssumption, TornAssumption, IdsAssumption

----------------------------------------------------------------------------
(* Events. *)

LEMMA EventTypes ==
  ASSUME NEW e \in Event
  PROVE  \/ e.id \in Request /\ e.id \notin Message /\ e.op \in {"queue", "notify", "deliver", "fail"}
         \/ e.id \in Message /\ e.id \notin Request /\ e.op \in {"create", "notifyMessage", "deliverMessage"}
BY DEF Event

LEMMA MovesTypes ==
  /\ \A op \in {"queue", "notify", "deliver", "fail"} :
       DispatchMoves[op].from \subseteq RequestStatus /\ DispatchMoves[op].to \in RequestStatus
  /\ \A op \in {"create", "notifyMessage", "deliverMessage"} :
       MailboxMoves[op].from \subseteq MessageStatus /\ MailboxMoves[op].to \in MessageStatus
BY DEF DispatchMoves, MailboxMoves, RequestStatus, MessageStatus

\* An event changes the status of its id and nothing else.
LEMMA ApplyChanges ==
  ASSUME NEW e \in Event, NEW s \in State
  PROVE  /\ Apply(e, s) \in State
         /\ e.id \in Request =>
              /\ Apply(e, s).dispatch = [s.dispatch EXCEPT ![e.id] = DispatchMoves[e.op].to]
              /\ Apply(e, s).mailbox = s.mailbox
         /\ e.id \notin Request =>
              /\ Apply(e, s).dispatch = s.dispatch
              /\ Apply(e, s).mailbox = [s.mailbox EXCEPT ![e.id] = MailboxMoves[e.op].to]
<1>1. PICK d \in [Request -> RequestStatus], b \in [Message -> MessageStatus] :
        s = [dispatch |-> d, mailbox |-> b]
  BY DEF State
<1>2. CASE e.id \in Request
  <2>1. Apply(e, s) = [dispatch |-> [d EXCEPT ![e.id] = DispatchMoves[e.op].to], mailbox |-> b]
    BY <1>1, <1>2 DEF Apply
  <2>2. DispatchMoves[e.op].to \in RequestStatus
    BY <1>2, EventTypes, MovesTypes
  <2>3. [d EXCEPT ![e.id] = DispatchMoves[e.op].to] \in [Request -> RequestStatus]
    BY <2>2
  <2>4. Apply(e, s) \in State
    BY <2>1, <2>3 DEF State
  <2>5. /\ Apply(e, s).dispatch = [d EXCEPT ![e.id] = DispatchMoves[e.op].to]
        /\ Apply(e, s).mailbox = b
    BY <2>1
  <2>6. s.dispatch = d /\ s.mailbox = b
    BY <1>1
  <2> QED
    BY <1>2, <2>4, <2>5, <2>6
<1>3. CASE e.id \notin Request
  <2>1. Apply(e, s) = [dispatch |-> d, mailbox |-> [b EXCEPT ![e.id] = MailboxMoves[e.op].to]]
    BY <1>1, <1>3 DEF Apply
  <2>2. MailboxMoves[e.op].to \in MessageStatus
    BY <1>3, EventTypes, MovesTypes
  <2>3. [b EXCEPT ![e.id] = MailboxMoves[e.op].to] \in [Message -> MessageStatus]
    BY <2>2
  <2>4. Apply(e, s) \in State
    BY <2>1, <2>3 DEF State
  <2>5. /\ Apply(e, s).dispatch = d
        /\ Apply(e, s).mailbox = [b EXCEPT ![e.id] = MailboxMoves[e.op].to]
    BY <2>1
  <2>6. s.dispatch = d /\ s.mailbox = b
    BY <1>1
  <2> QED
    BY <1>3, <2>4, <2>5, <2>6
<1> QED
  BY <1>2, <1>3

LEMMA ReplayEventType ==
  ASSUME NEW e \in Event, NEW s \in State
  PROVE  ReplayEvent(s, e) \in State
BY ApplyChanges DEF ReplayEvent

LEMMA EmptyType == Empty \in State
BY DEF Empty, State, RequestStatus, MessageStatus

----------------------------------------------------------------------------
(* Replaying a log, and taking events out of it. *)

LEMMA SeqElements ==
  ASSUME NEW S, NEW l \in Seq(S)
  PROVE  Len(l) \in Nat /\ \A n \in 1..Len(l) : l[n] \in S
OBVIOUS

\* States goes from the empty engine one event after the other.
LEMMA StatesSteps ==
  ASSUME NEW l \in Seq(Event)
  PROVE  /\ States(l) \in [0..Len(l) -> State]
         /\ States(l)[0] = Empty
         /\ \A n \in 1..Len(l) : States(l)[n] = ReplayEvent(States(l)[n - 1], l[n])
<1> DEFINE step == [n \in 1..Len(l) |-> [s \in State |-> ReplayEvent(s, l[n])]]
           Runs(f) == f = [n \in 0..Len(l) |-> IF n = 0 THEN Empty ELSE ReplayEvent(f[n - 1], l[n])]
<1>1. Len(l) \in Nat /\ \A n \in 1..Len(l) : l[n] \in Event
  BY SeqElements
<1>2. step \in [1..Len(l) -> [State -> State]]
  BY <1>1, ReplayEventType
<1>3. PICK f : Recursion(f, Len(l), State, Empty, step)
  <2>1. Len(l) \in Nat
    BY <1>1
  <2> HIDE DEF step
  <2> QED
    BY <2>1, <1>2, EmptyType, RecursionTo
<1>4. /\ f \in [0..Len(l) -> State]
      /\ f[0] = Empty
      /\ \A n \in 1..Len(l) : f[n] = ReplayEvent(f[n - 1], l[n])
  <2>1. /\ f \in [0..Len(l) -> State]
        /\ f[0] = Empty
        /\ \A n \in 1..Len(l) : f[n] = step[n][f[n - 1]]
    <3> HIDE DEF step
    <3> QED
      BY <1>3 DEF Recursion
  <2>2. \A n \in 1..Len(l) : n - 1 \in 0..Len(l)
    BY <1>1
  <2> QED
    BY <2>1, <2>2
<1>5. Runs(f)
  <2>1. \A n \in 0..Len(l) : n # 0 => n \in 1..Len(l)
    BY <1>1
  <2> HIDE DEF step
  <2> QED
    BY <1>4, <2>1
<1> DEFINE state == CHOOSE g : Runs(g)
<1>6. Runs(state)
  <2> HIDE DEF Runs
  <2> QED
    BY <1>5
<1>7. States(l) = state
  BY DEF States
<1>8. state[0] = Empty /\ \A n \in 1..Len(l) : state[n] = ReplayEvent(state[n - 1], l[n])
  <2> HIDE DEF state
  <2> QED
    BY <1>1, <1>6
<1>9. state \in [0..Len(l) -> State]
  <2> DEFINE S == {n \in 0..Len(l) : state[n] \in State}
  <2> HIDE DEF state
  <2>1. 0 \in S
    BY <1>1, <1>8, EmptyType
  <2>2. ASSUME NEW n \in 0..(Len(l) - 1), n \in S PROVE n + 1 \in S
    <3>1. n + 1 \in 1..Len(l) /\ (n + 1) - 1 = n
      BY <1>1
    <3> QED
      BY <1>1, <1>8, <2>2, <3>1, ReplayEventType
  <2> HIDE DEF S
  <2>3. \A n \in 0..Len(l) : n \in S
    BY <1>1, <2>1, <2>2, InductionTo
  <2> QED
    BY <1>6, <2>3 DEF S
<1> HIDE DEF state
<1> QED
  BY <1>7, <1>8, <1>9

LEMMA AppendElements ==
  ASSUME NEW S, NEW l \in Seq(S), NEW e \in S
  PROVE  /\ Append(l, e) \in Seq(S)
         /\ Len(Append(l, e)) = Len(l) + 1
         /\ Append(l, e)[Len(l) + 1] = e
         /\ \A n \in 1..Len(l) : Append(l, e)[n] = l[n]
OBVIOUS

\* What is appended to a log changes nothing of how the events before it are replayed.
LEMMA StatesOfAppend ==
  ASSUME NEW l \in Seq(Event), NEW e \in Event
  PROVE  /\ \A n \in 0..Len(l) : States(Append(l, e))[n] = States(l)[n]
         /\ Replay(Append(l, e)) = ReplayEvent(Replay(l), e)
<1> DEFINE a == Append(l, e)
           S == {n \in 0..Len(l) : States(a)[n] = States(l)[n]}
<1>1. /\ Len(l) \in Nat /\ a \in Seq(Event) /\ Len(a) = Len(l) + 1 /\ a[Len(l) + 1] = e
      /\ \A n \in 1..Len(l) : a[n] = l[n]
  BY AppendElements
<1>2. /\ States(a)[0] = Empty
      /\ \A n \in 1..(Len(l) + 1) : States(a)[n] = ReplayEvent(States(a)[n - 1], a[n])
  <2> HIDE DEF a
  <2> QED
    BY <1>1, StatesSteps
<1>3. /\ States(l)[0] = Empty
      /\ \A n \in 1..Len(l) : States(l)[n] = ReplayEvent(States(l)[n - 1], l[n])
  BY StatesSteps
<1> HIDE DEF a
<1>4. 0 \in S
  BY <1>1, <1>2, <1>3
<1>5. ASSUME NEW n \in 0..(Len(l) - 1), n \in S PROVE n + 1 \in S
  <2>1. n + 1 \in 1..Len(l) /\ n + 1 \in 1..(Len(l) + 1) /\ (n + 1) - 1 = n
    BY <1>1
  <2>2. States(a)[n + 1] = ReplayEvent(States(a)[n], a[n + 1])
    BY <1>2, <2>1
  <2>3. States(l)[n + 1] = ReplayEvent(States(l)[n], l[n + 1])
    BY <1>3, <2>1
  <2> QED
    BY <1>1, <1>5, <2>1, <2>2, <2>3
<1>6. \A n \in 0..Len(l) : States(a)[n] = States(l)[n]
  <2>1. \A n \in 0..Len(l) : n \in S
    <3> HIDE DEF S
    <3> QED
      BY <1>1, <1>4, <1>5, InductionTo
  <2> QED
    BY <2>1
<1>7. Replay(a) = ReplayEvent(Replay(l), e)
  <2>1. Len(l) + 1 \in 1..(Len(l) + 1) /\ (Len(l) + 1) - 1 = Len(l) /\ Len(l) \in 0..Len(l)
    BY <1>1
  <2>2. States(a)[Len(l) + 1] = ReplayEvent(States(a)[Len(l)], e)
    BY <1>1, <1>2, <2>1
  <2>3. States(a)[Len(l)] = States(l)[Len(l)]
    BY <1>6, <2>1
  <2> QED
    BY <1>1, <2>2, <2>3 DEF Replay
<1> QED
  BY <1>6, <1>7 DEF a

LEMMA ReplayType ==
  /\ Replay(<<>>) = Empty
  /\ \A l \in Seq(Event) : Replay(l) \in State
<1>1. <<>> \in Seq(Event) /\ Len(<<>>) = 0
  OBVIOUS
<1>2. ASSUME NEW l \in Seq(Event) PROVE Replay(l) \in State
  <2>1. Len(l) \in 0..Len(l)
    BY SeqElements
  <2> QED
    BY <2>1, StatesSteps DEF Replay
<1> QED
  BY <1>1, <1>2, StatesSteps DEF Replay

\* Kept takes one event after the other, and leaves the dropped ones.
LEMMA KeptSteps ==
  ASSUME NEW l \in Seq(Event), NEW D
  PROVE  /\ Kept(l, D) \in [0..Len(l) -> Seq(Event)]
         /\ Kept(l, D)[0] = <<>>
         /\ \A n \in 1..Len(l) :
              Kept(l, D)[n] = IF l[n] \in D THEN Kept(l, D)[n - 1] ELSE Append(Kept(l, D)[n - 1], l[n])
<1> DEFINE Next1(k, n) == IF l[n] \in D THEN k ELSE Append(k, l[n])
           step == [n \in 1..Len(l) |-> [k \in Seq(Event) |-> Next1(k, n)]]
           Runs(f) == f = [n \in 0..Len(l) |->
             IF n = 0 THEN <<>> ELSE IF l[n] \in D THEN f[n - 1] ELSE Append(f[n - 1], l[n])]
<1>1. Len(l) \in Nat /\ \A n \in 1..Len(l) : l[n] \in Event
  BY SeqElements
<1>a. <<>> \in Seq(Event)
  OBVIOUS
<1>b. \A n \in 1..Len(l), k \in Seq(Event) : Next1(k, n) \in Seq(Event)
  BY <1>1
<1>2. step \in [1..Len(l) -> [Seq(Event) -> Seq(Event)]]
  <2> HIDE DEF Next1
  <2> QED
    BY <1>b
<1>3. PICK f : Recursion(f, Len(l), Seq(Event), <<>>, step)
  <2>1. Len(l) \in Nat
    BY <1>1
  <2> HIDE DEF step
  <2> QED
    BY <2>1, <1>2, <1>a, RecursionTo
<1>4. /\ f \in [0..Len(l) -> Seq(Event)]
      /\ f[0] = <<>>
      /\ \A n \in 1..Len(l) : f[n] = Next1(f[n - 1], n)
  <2>1. /\ f \in [0..Len(l) -> Seq(Event)]
        /\ f[0] = <<>>
        /\ \A n \in 1..Len(l) : f[n] = step[n][f[n - 1]]
    <3> HIDE DEF step
    <3> QED
      BY <1>3 DEF Recursion
  <2>2. \A n \in 1..Len(l) : n - 1 \in 0..Len(l)
    BY <1>1
  <2> HIDE DEF Next1
  <2> QED
    BY <2>1, <2>2
<1>5. Runs(f)
  <2>1. \A n \in 0..Len(l) : n # 0 => n \in 1..Len(l)
    BY <1>1
  <2> HIDE DEF step
  <2> QED
    BY <1>4, <2>1
<1> DEFINE kept == CHOOSE g : Runs(g)
<1>6. Runs(kept)
  <2> HIDE DEF Runs
  <2> QED
    BY <1>5
<1>7. Kept(l, D) = kept
  BY DEF Kept
<1>8. kept[0] = <<>> /\ \A n \in 1..Len(l) : kept[n] = Next1(kept[n - 1], n)
  <2> HIDE DEF kept
  <2>1. 0 \in 0..Len(l) /\ \A n \in 1..Len(l) : n \in 0..Len(l) /\ n # 0
    BY <1>1
  <2>2. kept[0] = <<>>
    BY <1>6, <2>1
  <2>3. ASSUME NEW n \in 1..Len(l) PROVE kept[n] = Next1(kept[n - 1], n)
    BY <1>6, <2>1
  <2> QED
    BY <2>2, <2>3
<1>9. kept \in [0..Len(l) -> Seq(Event)]
  <2> DEFINE S == {n \in 0..Len(l) : kept[n] \in Seq(Event)}
  <2> HIDE DEF kept, Next1
  <2>1. 0 \in S
    <3>1. 0 \in 0..Len(l) /\ kept[0] \in Seq(Event)
      BY <1>1, <1>8, <1>a
    <3> QED
      BY <3>1
  <2>2. ASSUME NEW n \in 0..(Len(l) - 1), n \in S PROVE n + 1 \in S
    <3>1. n + 1 \in 1..Len(l) /\ (n + 1) - 1 = n
      BY <1>1
    <3> QED
      BY <1>1, <1>8, <1>b, <2>2, <3>1
  <2> HIDE DEF S
  <2>3. \A n \in 0..Len(l) : n \in S
    BY <1>1, <2>1, <2>2, InductionTo
  <2> QED
    BY <1>6, <2>3 DEF S
<1> HIDE DEF kept
<1> QED
  BY <1>7, <1>8, <1>9

\* Every event of a request is accepted where it stands: what LogReplays says of the log.
Valid(l) ==
  \A i \in 1..Len(l) : l[i].id \in Request => Accepts(l[i], States(l)[i - 1])

LEMMA ValidAppend ==
  ASSUME NEW l \in Seq(Event), NEW e \in Event, Valid(l),
         e.id \in Request => Accepts(e, Replay(l))
  PROVE  Valid(Append(l, e))
<1> DEFINE a == Append(l, e)
<1>1. /\ Len(l) \in Nat /\ Len(a) = Len(l) + 1 /\ a[Len(l) + 1] = e
      /\ \A n \in 1..Len(l) : a[n] = l[n]
  BY AppendElements
<1>2. \A n \in 0..Len(l) : States(a)[n] = States(l)[n]
  BY StatesOfAppend
<1> HIDE DEF a
<1>3. SUFFICES ASSUME NEW i \in 1..Len(a), a[i].id \in Request
               PROVE  Accepts(a[i], States(a)[i - 1])
  BY DEF Valid, a
<1>4. CASE i = Len(l) + 1
  <2>1. i - 1 = Len(l) /\ Len(l) \in 0..Len(l)
    BY <1>1, <1>4
  <2>2. States(a)[i - 1] = Replay(l)
    BY <1>2, <2>1 DEF Replay
  <2> QED
    BY <1>1, <1>3, <1>4, <2>2
<1>5. CASE i # Len(l) + 1
  <2>1. i \in 1..Len(l) /\ i - 1 \in 0..Len(l)
    BY <1>1, <1>5
  <2> QED
    BY <1>1, <1>2, <1>3, <2>1 DEF Valid
<1> QED
  BY <1>4, <1>5

\* Whether an event is accepted depends on the status of its id only.
LEMMA AcceptsAlike ==
  ASSUME NEW e \in Event, NEW s, NEW t,
         IF e.id \in Request THEN s.dispatch[e.id] = t.dispatch[e.id] ELSE s.mailbox = t.mailbox
  PROVE  Accepts(e, s) = Accepts(e, t)
BY DEF Accepts

\* t is s without the requests of R.
Forgets(t, s, R) ==
  /\ t.mailbox = s.mailbox
  /\ \A r \in Request : t.dispatch[r] = IF r \in R THEN "absent" ELSE s.dispatch[r]

\* An event of a request that is forgotten makes no difference, any other makes the same one.
LEMMA ForgetsEvent ==
  ASSUME NEW s \in State, NEW t \in State, NEW R \in SUBSET Request, NEW e \in Event, Forgets(t, s, R)
  PROVE  /\ e.id \in R => Forgets(t, ReplayEvent(s, e), R)
         /\ e.id \notin R => Forgets(ReplayEvent(t, e), ReplayEvent(s, e), R)
         /\ e.id \in Request \ R => Accepts(e, s) = Accepts(e, t)
<1>0. s.dispatch \in [Request -> RequestStatus] /\ t.dispatch \in [Request -> RequestStatus]
  BY DEF State
<1>1. ASSUME e.id \in R PROVE Forgets(t, ReplayEvent(s, e), R)
  <2>1. /\ ReplayEvent(s, e).mailbox = s.mailbox
        /\ \A r \in Request \ R : ReplayEvent(s, e).dispatch[r] = s.dispatch[r]
    <3>1. CASE Accepts(e, s)
      <4>1. ReplayEvent(s, e) = Apply(e, s)
        BY <3>1 DEF ReplayEvent
      <4>2. /\ Apply(e, s).dispatch = [s.dispatch EXCEPT ![e.id] = DispatchMoves[e.op].to]
            /\ Apply(e, s).mailbox = s.mailbox
        BY <1>1, ApplyChanges
      <4> QED
        BY <1>0, <1>1, <4>1, <4>2
    <3>2. CASE ~Accepts(e, s)
      BY <3>2 DEF ReplayEvent
    <3> QED
      BY <3>1, <3>2
  <2> QED
    BY <2>1 DEF Forgets
<1>2. e.id \in Request \ R => Accepts(e, s) = Accepts(e, t)
  <2>1. e.id \in Request \ R => t.dispatch[e.id] = s.dispatch[e.id]
    BY DEF Forgets
  <2> QED
    BY <2>1 DEF Accepts
<1>3. e.id \notin Request => Accepts(e, s) = Accepts(e, t)
  BY DEF Accepts, Forgets
<1>4. ASSUME e.id \notin R PROVE Forgets(ReplayEvent(t, e), ReplayEvent(s, e), R)
  <2>1. Accepts(e, s) = Accepts(e, t)
    BY <1>2, <1>3, <1>4
  <2>2. CASE ~Accepts(e, s)
    <3>1. ReplayEvent(s, e) = s /\ ReplayEvent(t, e) = t
      BY <2>1, <2>2 DEF ReplayEvent
    <3> QED
      BY <3>1
  <2>3. CASE Accepts(e, s)
    <3>1. ReplayEvent(s, e) = Apply(e, s) /\ ReplayEvent(t, e) = Apply(e, t)
      BY <2>1, <2>3 DEF ReplayEvent
    <3>2. CASE e.id \in Request
      <4>1. /\ Apply(e, s).dispatch = [s.dispatch EXCEPT ![e.id] = DispatchMoves[e.op].to]
            /\ Apply(e, t).dispatch = [t.dispatch EXCEPT ![e.id] = DispatchMoves[e.op].to]
            /\ Apply(e, s).mailbox = s.mailbox
            /\ Apply(e, t).mailbox = t.mailbox
        BY <3>2, ApplyChanges
      <4> QED
        BY <1>0, <1>4, <3>1, <3>2, <4>1 DEF Forgets
    <3>3. CASE e.id \notin Request
      <4>1. /\ Apply(e, s).dispatch = s.dispatch
            /\ Apply(e, t).dispatch = t.dispatch
            /\ Apply(e, s).mailbox = [s.mailbox EXCEPT ![e.id] = MailboxMoves[e.op].to]
            /\ Apply(e, t).mailbox = [t.mailbox EXCEPT ![e.id] = MailboxMoves[e.op].to]
        BY <3>3, ApplyChanges
      <4> QED
        BY <3>1, <4>1 DEF Forgets
    <3> QED
      BY <3>2, <3>3
  <2> QED
    BY <2>2, <2>3
<1> QED
  BY <1>1, <1>2, <1>4

\* A log without all events of some requests replays to the state without these requests, and
\* if no event was refused in the log none is in what is left.
LEMMA LogWithout ==
  ASSUME NEW l \in Seq(Event), Valid(l), NEW R \in SUBSET Request
  PROVE  LET left == Without(l, {e \in Event : e.id \in R})
         IN  /\ left \in Seq(Event)
             /\ Len(left) <= Len(l)
             /\ Valid(left)
             /\ Forgets(Replay(left), Replay(l), R)
<1> DEFINE D == {e \in Event : e.id \in R}
           K == Kept(l, D)
           Fine(n) == /\ Len(K[n]) <= n
                      /\ Valid(K[n])
                      /\ Forgets(Replay(K[n]), States(l)[n], R)
           S == {n \in 0..Len(l) : Fine(n)}
<1>1. Len(l) \in Nat /\ \A n \in 1..Len(l) : l[n] \in Event
  BY SeqElements
<1>2. /\ K \in [0..Len(l) -> Seq(Event)]
      /\ K[0] = <<>>
      /\ \A n \in 1..Len(l) : K[n] = IF l[n] \in D THEN K[n - 1] ELSE Append(K[n - 1], l[n])
  <2> HIDE DEF D
  <2> QED
    BY KeptSteps
<1>3. /\ States(l) \in [0..Len(l) -> State]
      /\ States(l)[0] = Empty
      /\ \A n \in 1..Len(l) : States(l)[n] = ReplayEvent(States(l)[n - 1], l[n])
  BY StatesSteps
<1>4. \A n \in 1..Len(l) : l[n] \in D <=> l[n].id \in R
  BY <1>1
<1> HIDE DEF K, D
<1>5. 0 \in S
  <2>1. Len(<<>>) = 0 /\ Valid(<<>>)
    BY DEF Valid
  <2>2. Forgets(Empty, Empty, R)
    BY DEF Forgets, Empty
  <2>3. 0 \in 0..Len(l)
    BY <1>1
  <2>4. Fine(0)
    BY <1>2, <1>3, <2>1, <2>2, ReplayType
  <2> QED
    BY <2>3, <2>4
<1>6. ASSUME NEW n \in 0..(Len(l) - 1), n \in S PROVE n + 1 \in S
  <2>1. n + 1 \in 1..Len(l) /\ n + 1 \in 0..Len(l) /\ n \in 0..Len(l) /\ (n + 1) - 1 = n
    BY <1>1
  <2> DEFINE e == l[n + 1]
             s == States(l)[n]
             k == K[n]
  <2>2. e \in Event /\ s \in State /\ k \in Seq(Event)
    BY <1>1, <1>2, <1>3, <2>1
  <2>3. States(l)[n + 1] = ReplayEvent(s, e)
    BY <1>3, <2>1
  <2>4. Len(k) <= n /\ Valid(k) /\ Forgets(Replay(k), s, R)
    BY <1>6
  <2>5. Replay(k) \in State
    BY <2>2, ReplayType
  <2>6. e.id \in Request => Accepts(e, s)
    BY <2>1 DEF Valid
  <2>7. K[n + 1] = IF e.id \in R THEN k ELSE Append(k, e)
    BY <1>2, <1>4, <2>1
  <2> HIDE DEF e, s, k
  <2>8. CASE e.id \in R
    <3>1. Forgets(Replay(k), ReplayEvent(s, e), R)
      BY <2>2, <2>4, <2>5, <2>8, ForgetsEvent
    <3>2. Len(k) <= n + 1
      BY <2>2, <2>4, <2>1, SeqElements
    <3>3. Fine(n + 1)
      BY <2>3, <2>4, <2>7, <2>8, <3>1, <3>2
    <3> QED
      BY <2>1, <3>3
  <2>9. CASE e.id \notin R
    <3>1. Replay(Append(k, e)) = ReplayEvent(Replay(k), e)
      BY <2>2, StatesOfAppend
    <3>2. Forgets(Replay(Append(k, e)), ReplayEvent(s, e), R)
      BY <2>2, <2>4, <2>5, <2>9, <3>1, ForgetsEvent
    <3>3. e.id \in Request => Accepts(e, Replay(k))
      BY <2>2, <2>4, <2>5, <2>6, <2>9, ForgetsEvent
    <3>4. Valid(Append(k, e))
      BY <2>2, <2>4, <3>3, ValidAppend
    <3>5. Len(Append(k, e)) <= n + 1
      <4>1. Len(k) \in Nat /\ Len(Append(k, e)) = Len(k) + 1
        BY <2>2, SeqElements, AppendElements
      <4> QED
        BY <2>1, <2>4, <4>1
    <3>6. Fine(n + 1)
      BY <2>3, <2>7, <2>9, <3>2, <3>4, <3>5
    <3> QED
      BY <2>1, <3>6
  <2> QED
    BY <2>8, <2>9
<1>7. Fine(Len(l)) /\ K[Len(l)] \in Seq(Event)
  <2>1. \A n \in 0..Len(l) : n \in S
    <3> HIDE DEF S
    <3> QED
      BY <1>1, <1>5, <1>6, InductionTo
  <2>2. Len(l) \in 0..Len(l)
    BY <1>1
  <2> QED
    BY <1>2, <2>1, <2>2
<1>8. Without(l, D) = K[Len(l)]
  BY DEF Without, K
<1>9. Replay(l) = States(l)[Len(l)]
  BY DEF Replay
<1> QED
  BY <1>7, <1>8, <1>9 DEF D

----------------------------------------------------------------------------
(* One exec. *)

LEMMA EngineParts ==
  ASSUME NEW en \in Engine
  PROVE  /\ en.log \in Seq(Event) /\ en.state \in State
         /\ en = [log |-> en.log, state |-> en.state]
BY DEF Engine

LEMMA LoadedEngine ==
  ASSUME EngineTypeOK, LogReplays
  PROVE  /\ Loaded \in Engine
         /\ Valid(Loaded.log)
         /\ Loaded.state.dispatch = Replay(Loaded.log).dispatch
<1>1. CASE log = Torn
  <2>1. Loaded = NoEngine
    BY <1>1 DEF Loaded
  <2>2. Len(<<>>) = 0 /\ <<>> \in Seq(Event)
    OBVIOUS
  <2>3. Valid(<<>>)
    BY <2>2 DEF Valid
  <2> QED
    BY <2>1, <2>2, <2>3, EmptyType, ReplayType DEF NoEngine, Engine
<1>2. CASE log # Torn
  <2>1. log \in Seq(Event) /\ Valid(log)
    BY <1>2 DEF EngineTypeOK, LogReplays, Valid
  <2>2. PICK d \in [Request -> RequestStatus], b \in [Message -> MessageStatus] :
          Replay(log) = [dispatch |-> d, mailbox |-> b]
    BY <2>1, ReplayType DEF State
  <2>3. box # Torn => [Replay(log) EXCEPT !.mailbox = box] = [dispatch |-> d, mailbox |-> box]
    BY <2>2
  <2>4. CASE box = Torn
    <3>1. Loaded = [log |-> log, state |-> Replay(log)]
      BY <1>2, <2>4 DEF Loaded
    <3> QED
      BY <2>1, <3>1, ReplayType DEF Engine
  <2>5. CASE box # Torn
    <3>1. Loaded = [log |-> log, state |-> [dispatch |-> d, mailbox |-> box]]
      BY <1>2, <2>3, <2>5 DEF Loaded
    <3>2. [dispatch |-> d, mailbox |-> box] \in State
      BY <2>5 DEF State, EngineTypeOK
    <3> QED
      BY <2>1, <2>2, <3>1, <3>2 DEF Engine
  <2> QED
    BY <2>4, <2>5
<1> QED
  BY <1>1, <1>2

\* A command that is accepted adds an event that replays as it was carried out.
LEMMA Processed ==
  ASSUME NEW L \in Engine, NEW e \in Event, Accepts(e, L.state), Valid(L.log),
         L.state.dispatch = Replay(L.log).dispatch
  PROVE  LET en == Process(e, L)
         IN  /\ en \in Engine
             /\ Len(en.log) = Len(L.log) + 1
             /\ Valid(en.log)
             /\ Replay(en.log).dispatch = en.state.dispatch
             /\ L.state = Replay(L.log) => en.state = Replay(en.log)
<1>1. L.log \in Seq(Event) /\ L.state \in State /\ Replay(L.log) \in State
  BY EngineParts, ReplayType
<1>2. /\ Append(L.log, e) \in Seq(Event)
      /\ Len(Append(L.log, e)) = Len(L.log) + 1
  BY <1>1, AppendElements
<1>3. Apply(e, L.state) \in State
  BY <1>1, ApplyChanges
<1>4. e.id \in Request => Accepts(e, Replay(L.log))
  BY <1>1, AcceptsAlike
<1>5. Valid(Append(L.log, e))
  BY <1>1, <1>4, ValidAppend
<1>6. Replay(Append(L.log, e)) = ReplayEvent(Replay(L.log), e)
  BY <1>1, StatesOfAppend
<1>7. ReplayEvent(Replay(L.log), e).dispatch = Apply(e, L.state).dispatch
  <2>1. CASE e.id \in Request
    <3>1. ReplayEvent(Replay(L.log), e) = Apply(e, Replay(L.log))
      BY <1>4, <2>1 DEF ReplayEvent
    <3>2. Apply(e, Replay(L.log)).dispatch = [Replay(L.log).dispatch EXCEPT ![e.id] = DispatchMoves[e.op].to]
      BY <1>1, <2>1, ApplyChanges
    <3>3. Apply(e, L.state).dispatch = [L.state.dispatch EXCEPT ![e.id] = DispatchMoves[e.op].to]
      BY <1>1, <2>1, ApplyChanges
    <3> QED
      BY <3>1, <3>2, <3>3
  <2>2. CASE e.id \notin Request
    <3>1. Apply(e, Replay(L.log)).dispatch = Replay(L.log).dispatch
      BY <1>1, <2>2, ApplyChanges
    <3>2. Apply(e, L.state).dispatch = L.state.dispatch
      BY <1>1, <2>2, ApplyChanges
    <3> QED
      BY <3>1, <3>2 DEF ReplayEvent
  <2> QED
    BY <2>1, <2>2
<1>8. L.state = Replay(L.log) => ReplayEvent(Replay(L.log), e) = Apply(e, L.state)
  BY DEF ReplayEvent
<1>9. Process(e, L) = [log |-> Append(L.log, e), state |-> Apply(e, L.state)]
  BY DEF Process
<1> QED
  BY <1>2, <1>3, <1>5, <1>6, <1>7, <1>8, <1>9 DEF Engine

\* Compaction takes the requests that are over out of the log, and nothing else.
LEMMA Compacted ==
  ASSUME NEW en \in Engine, Valid(en.log)
  PROVE  LET c == Compact(en)
         IN  /\ c \in Engine
             /\ c.state = en.state
             /\ Len(c.log) <= Len(en.log)
             /\ Valid(c.log)
             /\ Forgets(Replay(c.log), Replay(en.log), Over(en))
<1> DEFINE left == Without(en.log, {e \in Event : e.id \in Over(en)})
<1>1. Over(en) \in SUBSET Request
  BY DEF Over
<1>2. en.log \in Seq(Event) /\ en.state \in State /\ en = [log |-> en.log, state |-> en.state]
  BY EngineParts
<1>3. /\ left \in Seq(Event)
      /\ Len(left) <= Len(en.log)
      /\ Valid(left)
      /\ Forgets(Replay(left), Replay(en.log), Over(en))
  BY <1>1, <1>2, LogWithout
<1>4. Compact(en) = [en EXCEPT !.log = left]
  BY DEF Compact
<1> HIDE DEF left
<1>5. Compact(en) = [log |-> left, state |-> en.state]
  BY <1>2, <1>4
<1> QED
  BY <1>2, <1>3, <1>5 DEF Engine

\* The engine an exec leaves behind.
Done(e, x) == x = Process(e, Loaded) \/ (Compacting /\ x = Compact(Process(e, Loaded)))

LEMMA ExecDone ==
  ASSUME EngineTypeOK, LogReplays, NEW p \in Proc, NEW e \in Event, Exec(p, e)
  PROVE  \E x \in Engine :
           /\ Done(e, x)
           /\ engine' = [engine EXCEPT ![p] = x]
           /\ Len(x.log) <= MaxLog
           /\ Valid(x.log)
<1> DEFINE en == Process(e, Loaded)
<1>1. Loaded \in Engine /\ Valid(Loaded.log) /\ Loaded.state.dispatch = Replay(Loaded.log).dispatch
  BY LoadedEngine
<1>2. Accepts(e, Loaded.state) /\ Len(Loaded.log) < MaxLog
  BY DEF Exec
<1>3. en \in Engine /\ Len(en.log) = Len(Loaded.log) + 1 /\ Valid(en.log)
  BY <1>1, <1>2, Processed
<1>4. /\ Compact(en) \in Engine
      /\ Len(Compact(en).log) <= Len(en.log)
      /\ Valid(Compact(en).log)
  <2> HIDE DEF en
  <2> QED
    BY <1>3, Compacted
<1>5. Len(Loaded.log) \in Nat /\ Len(Compact(en).log) \in Nat
  <2> HIDE DEF en
  <2> QED
    BY <1>1, <1>4, EngineParts, SeqElements
<1>6. Len(en.log) <= MaxLog /\ Len(Compact(en).log) <= MaxLog
  <2> HIDE DEF en
  <2> QED
    BY <1>2, <1>3, <1>4, <1>5
<1>7. PICK x \in {en} \cup (IF Compacting THEN {Compact(en)} ELSE {}) :
        engine' = [engine EXCEPT ![p] = x]
  BY DEF Exec
<1>8. Done(e, x)
  BY <1>7 DEF Done
<1> HIDE DEF en
<1> QED
  BY <1>3, <1>4, <1>6, <1>7, <1>8

----------------------------------------------------------------------------
(* The log. *)

\* LogInv is inductive: also what the processes will still write replays without a refusal.
LogInv ==
  /\ EngineTypeOK
  /\ LogReplays
  /\ \A p \in Proc : Valid(engine[p].log)

LEMMA EmptyIsValid == NoEngine \in Engine /\ Len(NoEngine.log) <= MaxLog /\ Valid(NoEngine.log)
<1>1. <<>> \in Seq(Event) /\ Len(<<>>) = 0
  OBVIOUS
<1> QED
  BY <1>1, EmptyType DEF NoEngine, Engine, Valid

LEMMA InitLogInv == Init => LogInv
<1> SUFFICES ASSUME Init PROVE LogInv
  OBVIOUS
<1>1. EngineTypeOK
  <2>1. /\ engine \in [Proc -> Engine]
        /\ \A p \in Proc : Len(engine[p].log) <= MaxLog
    BY EmptyIsValid DEF Init
  <2>2. \A p \in Proc : flock = p <=> stage[p] = "mailbox"
    BY DEF Init
  <2> QED
    BY <2>1, <2>2 DEF Init, EngineTypeOK, Stage
<1> QED
  BY <1>1, EmptyIsValid DEF Init, LogInv, LogReplays

\* Nobody else is between its two files while the lock is free.
LEMMA FlockMoves ==
  ASSUME EngineTypeOK, NEW p \in Proc, NEW to \in Stage, Goes(p, to),
         \/ to # "mailbox" /\ stage[p] # "mailbox" /\ flock' = flock
         \/ to = "mailbox" /\ flock = "free" /\ flock' = p
         \/ to # "mailbox" /\ flock' = IF flock = p THEN "free" ELSE flock
  PROVE  /\ stage' \in [Proc -> Stage]
         /\ flock' \in Proc \cup {"free"}
         /\ \A q \in Proc : flock' = q <=> stage'[q] = "mailbox"
BY DEF EngineTypeOK, Goes

LEMMA NextLogInv ==
  ASSUME LogInv, [Next]_engineVars
  PROVE  LogInv'
<1>a. /\ EngineTypeOK /\ LogReplays
      /\ \A p \in Proc : engine[p] \in Engine /\ engine[p].log \in Seq(Event) /\ engine[p].state \in State
  BY EngineParts DEF LogInv, EngineTypeOK
<1>b. Stage = {"idle", "log", "mailbox", "dispatch view", "mailbox view", "rest of mailbox view"}
  BY DEF Stage
<1>1. ASSUME NEW p \in Proc, NEW e \in Event, Exec(p, e) PROVE LogInv'
  <2>1. PICK x \in Engine : /\ engine' = [engine EXCEPT ![p] = x]
                            /\ Len(x.log) <= MaxLog
                            /\ Valid(x.log)
    BY <1>a, <1>1, ExecDone
  <2>2. /\ stage[p] = "idle" /\ Goes(p, "log") /\ UNCHANGED <<log, box, shown, flock>>
        /\ disturbed' \in BOOLEAN
    BY <1>a, <1>1 DEF Exec, Goes, EngineTypeOK
  <2>3. /\ stage' \in [Proc -> Stage]
        /\ flock' \in Proc \cup {"free"}
        /\ \A q \in Proc : flock' = q <=> stage'[q] = "mailbox"
    BY <1>a, <1>b, <2>2, FlockMoves
  <2>4. engine' \in [Proc -> Engine] /\ \A q \in Proc : Len(engine'[q].log) <= MaxLog /\ Valid(engine'[q].log)
    BY <1>a, <2>1 DEF LogInv, EngineTypeOK
  <2>5. EngineTypeOK'
    BY <1>a, <2>2, <2>3, <2>4 DEF EngineTypeOK
  <2>6. LogReplays'
    BY <1>a, <2>2 DEF LogReplays
  <2> QED
    BY <2>4, <2>5, <2>6 DEF LogInv
<1>2. ASSUME NEW p \in Proc, PersistLog(p) PROVE LogInv'
  <2>1. /\ Goes(p, "mailbox") /\ flock = "free" /\ flock' = p
        /\ log' = engine[p].log /\ UNCHANGED <<box, shown, engine, disturbed>>
    BY <1>2 DEF PersistLog
  <2>2. /\ stage' \in [Proc -> Stage]
        /\ flock' \in Proc \cup {"free"}
        /\ \A q \in Proc : flock' = q <=> stage'[q] = "mailbox"
    BY <1>a, <1>b, <2>1, FlockMoves
  <2>3. EngineTypeOK'
    BY <1>a, <2>1, <2>2 DEF EngineTypeOK
  <2>4. Valid(log')
    BY <2>1 DEF LogInv
  <2>5. LogReplays'
    BY <2>4 DEF LogReplays, Valid
  <2> QED
    BY <2>1, <2>3, <2>5 DEF LogInv
<1>3. ASSUME NEW p \in Proc, PersistMailbox(p) PROVE LogInv'
  <2>1. /\ stage[p] = "mailbox" /\ Goes(p, "dispatch view") /\ flock' = "free"
        /\ box' = engine[p].state.mailbox /\ UNCHANGED <<log, shown, engine, disturbed>>
    BY <1>3 DEF PersistMailbox
  <2>2. flock = p
    BY <1>a, <2>1 DEF EngineTypeOK
  <2>3. /\ stage' \in [Proc -> Stage]
        /\ flock' \in Proc \cup {"free"}
        /\ \A q \in Proc : flock' = q <=> stage'[q] = "mailbox"
    BY <1>a, <1>b, <2>1, <2>2, FlockMoves
  <2>4. box' \in [Message -> MessageStatus]
    BY <1>a, <2>1 DEF State
  <2>5. EngineTypeOK'
    BY <1>a, <2>1, <2>3, <2>4 DEF EngineTypeOK
  <2> QED
    BY <2>1, <2>5 DEF LogInv, LogReplays
<1>4. ASSUME NEW p \in Proc, ViewDispatch(p) PROVE LogInv'
  <2>1. /\ stage[p] = "dispatch view" /\ Goes(p, "mailbox view")
        /\ shown' = engine[p].state.dispatch /\ UNCHANGED <<log, box, flock, engine, disturbed>>
    BY <1>4 DEF ViewDispatch
  <2>2. /\ stage' \in [Proc -> Stage]
        /\ flock' \in Proc \cup {"free"}
        /\ \A q \in Proc : flock' = q <=> stage'[q] = "mailbox"
    BY <1>a, <1>b, <2>1, FlockMoves
  <2>3. shown' \in [Request -> RequestStatus]
    BY <1>a, <2>1 DEF State
  <2>4. EngineTypeOK'
    BY <1>a, <2>1, <2>2, <2>3 DEF EngineTypeOK
  <2> QED
    BY <2>1, <2>4 DEF LogInv, LogReplays
<1>5. ASSUME NEW p \in Proc, TruncateMailbox(p) PROVE LogInv'
  <2>1. /\ stage[p] = "mailbox view" /\ Goes(p, "rest of mailbox view")
        /\ box' = Torn /\ UNCHANGED <<log, shown, flock, engine, disturbed>>
    BY <1>5 DEF TruncateMailbox
  <2>2. /\ stage' \in [Proc -> Stage]
        /\ flock' \in Proc \cup {"free"}
        /\ \A q \in Proc : flock' = q <=> stage'[q] = "mailbox"
    BY <1>a, <1>b, <2>1, FlockMoves
  <2>3. EngineTypeOK'
    BY <1>a, <2>1, <2>2 DEF EngineTypeOK
  <2> QED
    BY <2>1, <2>3 DEF LogInv, LogReplays
<1>6. ASSUME NEW p \in Proc, ViewMailbox(p) PROVE LogInv'
  <2>1. /\ stage[p] = "rest of mailbox view" /\ Goes(p, "idle")
        /\ box' = engine[p].state.mailbox /\ engine' = [engine EXCEPT ![p] = NoEngine]
        /\ UNCHANGED <<log, shown, flock, disturbed>>
    BY <1>6 DEF ViewMailbox
  <2>2. /\ stage' \in [Proc -> Stage]
        /\ flock' \in Proc \cup {"free"}
        /\ \A q \in Proc : flock' = q <=> stage'[q] = "mailbox"
    BY <1>a, <1>b, <2>1, FlockMoves
  <2>3. box' \in [Message -> MessageStatus]
    BY <1>a, <2>1 DEF State
  <2>4. engine' \in [Proc -> Engine] /\ \A q \in Proc : Len(engine'[q].log) <= MaxLog /\ Valid(engine'[q].log)
    BY <1>a, <2>1, EmptyIsValid DEF LogInv, EngineTypeOK
  <2>5. EngineTypeOK'
    BY <1>a, <2>1, <2>2, <2>3, <2>4 DEF EngineTypeOK
  <2> QED
    BY <2>1, <2>4, <2>5 DEF LogInv, LogReplays
<1>7. ASSUME NEW p \in Proc, Die(p) \/ DieWriting(p) PROVE LogInv'
  <2>1. /\ Goes(p, "idle") /\ engine' = [engine EXCEPT ![p] = NoEngine]
        /\ flock' = IF flock = p THEN "free" ELSE flock
    BY <1>7 DEF Die, DieWriting, Gone
  <2>2. /\ stage' \in [Proc -> Stage]
        /\ flock' \in Proc \cup {"free"}
        /\ \A q \in Proc : flock' = q <=> stage'[q] = "mailbox"
    BY <1>a, <1>b, <2>1, FlockMoves
  <2>3. /\ log' \in {log, Torn} /\ box' \in {box, Torn} /\ shown' \in {shown, Torn}
        /\ disturbed' \in BOOLEAN
    BY <1>a, <1>7 DEF Die, DieWriting, EngineTypeOK
  <2>4. engine' \in [Proc -> Engine] /\ \A q \in Proc : Len(engine'[q].log) <= MaxLog /\ Valid(engine'[q].log)
    BY <1>a, <2>1, EmptyIsValid DEF LogInv, EngineTypeOK
  <2>5. EngineTypeOK'
    BY <1>a, <2>2, <2>3, <2>4 DEF EngineTypeOK
  <2>6. LogReplays'
    BY <1>a, <2>3 DEF LogReplays
  <2> QED
    BY <2>4, <2>5, <2>6 DEF LogInv
<1>8. CASE UNCHANGED engineVars
  BY <1>8 DEF LogInv, EngineTypeOK, LogReplays, engineVars
<1> QED
  BY <1>1, <1>2, <1>3, <1>4, <1>5, <1>6, <1>7, <1>8 DEF Next

LEMMA LogInvariant == Spec => []LogInv
<1>1. LogInv /\ [Next]_engineVars => LogInv'
  BY NextLogInv
<1> QED
  BY InitLogInv, <1>1, PTL DEF Spec

\* In every reachable state every variable holds a value of its type, and the exclusive lock is
\* held by the process that is between its two files, of any number that overlap and die.
THEOREM EngineTypeCorrect == Spec => []EngineTypeOK
<1>1. LogInv => EngineTypeOK
  BY DEF LogInv
<1> QED
  BY LogInvariant, <1>1, PTL

\* A log of any length, made of any overlaps, deaths and compactions of any number of execs,
\* replays without refusing an event of a request.
THEOREM LogAlwaysReplays == Spec => []LogReplays
<1>1. LogInv => LogReplays
  BY DEF LogInv
<1> QED
  BY LogInvariant, <1>1, PTL

----------------------------------------------------------------------------
(* Execs that keep out of each other's way. *)

\* Of the log an engine writes, compaction may have taken the requests that are over.
Mirrors(en) ==
  \/ Forgets(Replay(en.log), en.state, {})
  \/ Compacting /\ Forgets(Replay(en.log), en.state, Over(en))

\* What p will write is what it loaded and one more command, on an id nobody knows if it is new.
Started(p) ==
  \E e \in Event :
    /\ Accepts(e, Loaded.state) /\ Done(e, engine[p])
    /\ e.op = "queue" /\ shown # Torn => shown[e.id] = "absent"

\* The mailbox.json that p is about to overwrite is at most the command of p behind.
BoxBefore(p) ==
  \/ box = Torn \/ box = engine[p].state.mailbox
  \/ \E e \in Event :
       /\ e.id \in Message /\ box[e.id] \in MailboxMoves[e.op].from
       /\ engine[p].state.mailbox = [box EXCEPT ![e.id] = MailboxMoves[e.op].to]

OneAtATime == \A p, q \in Proc : stage[p] # "idle" /\ stage[q] # "idle" => p = q
FirstTheLog == log = Torn => box = Torn /\ shown = Torn
FilesAgree == (\A p \in Proc : stage[p] # "mailbox") => Loaded.state = Replay(Loaded.log)

HandsAgree ==
  \A p \in Proc :
    /\ stage[p] = "log" => Started(p)
    /\ stage[p] \notin {"idle", "log"} => log = engine[p].log /\ Mirrors(engine[p])
    /\ stage[p] = "mailbox" => BoxBefore(p)

\* QuietInv is inductive, with LogInv: as long as nothing has disturbed the engine, files and
\* hands agree with the log.
QuietInv ==
  ~disturbed =>
    /\ OneAtATime /\ FirstTheLog /\ FilesAgree /\ HandsAgree
    /\ ViewNotAhead

LEMMA TornIsNone ==
  /\ \A l \in Seq(Event) : l # Torn
  /\ \A s \in State : s.dispatch # Torn /\ s.mailbox # Torn
BY DEF State

\* What is loaded while a log is there, now and after a step.
LEMMA LogAndMailbox ==
  ASSUME NEW l \in Seq(Event), NEW b
  PROVE  LET s == IF b = Torn THEN Replay(l) ELSE [Replay(l) EXCEPT !.mailbox = b]
         IN  /\ s.dispatch = Replay(l).dispatch
             /\ s.mailbox = IF b = Torn THEN Replay(l).mailbox ELSE b
             /\ b \in {Torn, Replay(l).mailbox} => s = Replay(l)
<1>1. PICK d \in [Request -> RequestStatus], m \in [Message -> MessageStatus] :
        Replay(l) = [dispatch |-> d, mailbox |-> m]
  BY ReplayType DEF State
<1>2. [Replay(l) EXCEPT !.mailbox = b] = [dispatch |-> d, mailbox |-> b]
  BY <1>1
<1> QED
  BY <1>1, <1>2

LEMMA LoadedParts ==
  ASSUME log # Torn, log \in Seq(Event)
  PROVE  /\ Loaded.log = log
         /\ Loaded.state.dispatch = Replay(log).dispatch
         /\ Loaded.state.mailbox = IF box = Torn THEN Replay(log).mailbox ELSE box
         /\ box \in {Torn, Replay(log).mailbox} => Loaded.state = Replay(log)
BY LogAndMailbox DEF Loaded

LEMMA LoadedPartsNext ==
  ASSUME log' # Torn, log' \in Seq(Event)
  PROVE  /\ Loaded'.log = log'
         /\ Loaded'.state.dispatch = Replay(log').dispatch
         /\ Loaded'.state.mailbox = IF box' = Torn THEN Replay(log').mailbox ELSE box'
         /\ box' \in {Torn, Replay(log').mailbox} => Loaded'.state = Replay(log')
BY LogAndMailbox DEF Loaded

LEMMA LoadedUnchanged ==
  ASSUME UNCHANGED <<log, box>>
  PROVE  Loaded' = Loaded
BY DEF Loaded

\* An engine that has carried out a command on files that agree mirrors its log.
LEMMA DoneMirrors ==
  ASSUME EngineTypeOK, LogReplays, Loaded.state = Replay(Loaded.log),
         NEW e \in Event, Accepts(e, Loaded.state), NEW x, Done(e, x)
  PROVE  x.state = Apply(e, Loaded.state) /\ Mirrors(x)
<1> DEFINE en == Process(e, Loaded)
<1>1. /\ en \in Engine /\ Valid(en.log) /\ en.state = Replay(en.log)
  BY LoadedEngine, Processed
<1>2. en.state = Apply(e, Loaded.state)
  BY DEF Process
<1>3. Mirrors(en)
  <2> HIDE DEF en
  <2> QED
    BY <1>1 DEF Mirrors, Forgets
<1>4. /\ Compact(en).state = en.state
      /\ Forgets(Replay(Compact(en).log), Replay(en.log), Over(en))
  <2> HIDE DEF en
  <2> QED
    BY <1>1, Compacted
<1>5. Over(Compact(en)) = Over(en)
  <2> HIDE DEF en
  <2> QED
    BY <1>4 DEF Over
<1>6. Compacting => Mirrors(Compact(en))
  <2> HIDE DEF en
  <2> QED
    BY <1>1, <1>4, <1>5 DEF Mirrors
<1> QED
  BY <1>2, <1>3, <1>4, <1>6 DEF Done

\* The ledger's view of a log that mirrors an engine.
LEMMA MirrorsKeeps ==
  ASSUME NEW en \in Engine, Mirrors(en)
  PROVE  /\ Replay(en.log).mailbox = en.state.mailbox
         /\ Replay(en.log).dispatch \in {en.state.dispatch, Ledger!Live(en.state.dispatch)}
         /\ \A r \in Request : \/ Replay(en.log).dispatch[r] = en.state.dispatch[r]
                               \/ Compacting /\ Replay(en.log).dispatch[r] = "absent"
<1>1. /\ en.state.dispatch \in [Request -> RequestStatus]
      /\ Replay(en.log).dispatch \in [Request -> RequestStatus]
  BY EngineParts, ReplayType DEF State
<1>2. CASE Forgets(Replay(en.log), en.state, {})
  BY <1>1, <1>2 DEF Forgets
<1>3. CASE Compacting /\ Forgets(Replay(en.log), en.state, Over(en))
  <2>1. \A r \in Request : Replay(en.log).dispatch[r] =
          IF en.state.dispatch[r] \in {"delivered", "failed"} THEN "absent" ELSE en.state.dispatch[r]
    BY <1>3 DEF Forgets, Over
  <2>2. Replay(en.log).dispatch = Ledger!Live(en.state.dispatch)
    BY <1>1, <2>1 DEF Ledger!Live
  <2> QED
    BY <1>3, <2>1, <2>2 DEF Forgets
<1> QED
  BY <1>2, <1>3 DEF Mirrors

----------------------------------------------------------------------------
(* One step of execs that keep out of each other's way. *)

LEMMA RankGrows ==
  \A op \in {"queue", "notify", "deliver", "fail"} :
    \A from \in DispatchMoves[op].from : Rank(from) < Rank(DispatchMoves[op].to)
BY DEF DispatchMoves, Rank

\* A command on a request is a move of the ledger.
LEMMA RequestMove ==
  ASSUME EngineTypeOK, LogReplays, NEW e \in Event, e.id \in Request, Accepts(e, Loaded.state),
         Loaded'.state.dispatch \in {Apply(e, Loaded.state).dispatch,
                                     Ledger!Live(Apply(e, Loaded.state).dispatch)},
         Loaded'.state.mailbox = Loaded.state.mailbox
  PROVE  Ledger!Next
<1> DEFINE D == Loaded.state.dispatch
<1>1. Apply(e, Loaded.state).dispatch = [D EXCEPT ![e.id] = DispatchMoves[e.op].to]
  BY LoadedEngine, EngineParts, ApplyChanges
<1>2. D[e.id] \in DispatchMoves[e.op].from
  BY DEF Accepts
<1>3. \E op \in {"queue", "notify", "deliver", "fail"} : e.op = op
  BY EventTypes
<1>4. Ledger!Keep([D EXCEPT ![e.id] = DispatchMoves[e.op].to])
  BY <1>1 DEF Ledger!Keep
<1>5. Ledger!MoveRequest(e.id, DispatchMoves[e.op].from, DispatchMoves[e.op].to)
  BY <1>2, <1>4 DEF Ledger!MoveRequest
<1>6. Ledger!RequestMoves(e.id)
  <2>1. /\ DispatchMoves["queue"].from = {"absent"} /\ DispatchMoves["queue"].to = "pending"
        /\ DispatchMoves["notify"].from = {"pending"} /\ DispatchMoves["notify"].to = "notified"
        /\ DispatchMoves["deliver"].from = {"notified"} /\ DispatchMoves["deliver"].to = "delivered"
        /\ DispatchMoves["fail"].from = {"pending", "notified"} /\ DispatchMoves["fail"].to = "failed"
    BY DEF DispatchMoves
  <2>2. CASE e.op = "queue"
    <3>1. Ledger!MoveRequest(e.id, {"absent"}, "pending")
      BY <1>5, <2>1, <2>2
    <3> QED
      BY <3>1 DEF Ledger!RequestMoves
  <2>3. CASE e.op = "notify"
    <3>1. Ledger!MoveRequest(e.id, {"pending"}, "notified")
      BY <1>5, <2>1, <2>3
    <3> QED
      BY <3>1 DEF Ledger!RequestMoves
  <2>4. CASE e.op = "deliver"
    <3>1. Ledger!MoveRequest(e.id, {"notified"}, "delivered")
      BY <1>5, <2>1, <2>4
    <3> QED
      BY <3>1 DEF Ledger!RequestMoves
  <2>5. CASE e.op = "fail"
    <3>1. Ledger!MoveRequest(e.id, {"pending", "notified"}, "failed")
      BY <1>5, <2>1, <2>5
    <3> QED
      BY <3>1 DEF Ledger!RequestMoves
  <2> QED
    BY <1>3, <2>2, <2>3, <2>4, <2>5
<1> QED
  BY <1>6 DEF Ledger!Next

LEMMA MessageMove ==
  ASSUME NEW e \in Event, e.id \in Message,
         Loaded.state.mailbox[e.id] \in MailboxMoves[e.op].from,
         Loaded'.state.mailbox = [Loaded.state.mailbox EXCEPT ![e.id] = MailboxMoves[e.op].to],
         Loaded'.state.dispatch \in {Loaded.state.dispatch, Ledger!Live(Loaded.state.dispatch)}
  PROVE  Ledger!Next
<1>1. \E op \in {"create", "notifyMessage", "deliverMessage"} : e.op = op
  BY EventTypes
<1>2. Ledger!Keep(Loaded.state.dispatch)
  BY DEF Ledger!Keep
<1>3. Ledger!MoveMessage(e.id, MailboxMoves[e.op].from, MailboxMoves[e.op].to)
  BY <1>2 DEF Ledger!MoveMessage
<1>4. Ledger!MessageMoves(e.id)
  <2>1. /\ MailboxMoves["create"].from = {"absent"} /\ MailboxMoves["create"].to = "new"
        /\ MailboxMoves["notifyMessage"].from = {"new", "notified"} /\ MailboxMoves["notifyMessage"].to = "notified"
        /\ MailboxMoves["deliverMessage"].from = {"new", "notified"} /\ MailboxMoves["deliverMessage"].to = "delivered"
    BY DEF MailboxMoves
  <2>2. CASE e.op = "create"
    <3>1. Ledger!MoveMessage(e.id, {"absent"}, "new")
      BY <1>3, <2>1, <2>2
    <3> QED
      BY <3>1 DEF Ledger!MessageMoves
  <2>3. CASE e.op = "notifyMessage"
    <3>1. Ledger!MoveMessage(e.id, {"new", "notified"}, "notified")
      BY <1>3, <2>1, <2>3
    <3> QED
      BY <3>1 DEF Ledger!MessageMoves
  <2>4. CASE e.op = "deliverMessage"
    <3>1. Ledger!MoveMessage(e.id, {"new", "notified"}, "delivered")
      BY <1>3, <2>1, <2>4
    <3> QED
      BY <3>1 DEF Ledger!MessageMoves
  <2> QED
    BY <1>1, <2>2, <2>3, <2>4
<1> QED
  BY <1>4 DEF Ledger!Next

LEMMA Forgetting ==
  ASSUME Loaded'.state.mailbox = Loaded.state.mailbox,
         Loaded'.state.dispatch \in {Loaded.state.dispatch, Ledger!Live(Loaded.state.dispatch)}
  PROVE  Ledger!Next
BY DEF Ledger!Next, Ledger!Forget, Ledger!Keep

\* What every quiet step shows.
QuietStep ==
  /\ [Ledger!Next]_(Ledger!ledgerVars)
  /\ OneAtATime' /\ FirstTheLog' /\ FilesAgree' /\ HandsAgree' /\ ViewNotAhead'

\* What a process that is at work knows: nobody else is.
LEMMA AtWork ==
  ASSUME LogInv, QuietInv, ~disturbed, NEW p \in Proc, stage[p] # "idle", NEW to \in Stage, Goes(p, to)
  PROVE  /\ \A q \in Proc : stage'[q] # "idle" => q = p
         /\ \A q \in Proc : q # p => stage[q] = "idle"
         /\ OneAtATime'
         /\ stage'[p] = to
         /\ engine[p] \in Engine
         /\ stage[p] # "mailbox" => Loaded.state = Replay(Loaded.log)
         /\ stage[p] \notin {"idle", "log"} =>
              log \in Seq(Event) /\ log # Torn /\ log = engine[p].log /\ Mirrors(engine[p])
<1>1. stage' = [stage EXCEPT ![p] = to] /\ stage \in [Proc -> Stage]
  BY DEF Goes, LogInv, EngineTypeOK
<1>2. \A q \in Proc : q # p => stage[q] = "idle"
  BY DEF QuietInv, OneAtATime
<1>3. engine[p] \in Engine /\ engine[p].log \in Seq(Event)
  BY EngineParts DEF LogInv, EngineTypeOK
<1>4. stage[p] # "mailbox" => Loaded.state = Replay(Loaded.log)
  BY <1>2 DEF QuietInv, FilesAgree
<1>5. stage[p] \notin {"idle", "log"} => log = engine[p].log /\ Mirrors(engine[p])
  BY DEF QuietInv, HandsAgree
<1> QED
  BY <1>1, <1>2, <1>3, <1>4, <1>5, TornIsNone DEF OneAtATime

LEMMA QuietExec ==
  ASSUME LogInv, QuietInv, ~disturbed', NEW p \in Proc, NEW e \in Event, Exec(p, e)
  PROVE  QuietStep
<1>1. ~disturbed /\ \A q \in Proc : stage[q] = "idle"
  BY DEF Exec
<1>2. EngineTypeOK /\ LogReplays
  BY DEF LogInv
<1>3. PICK x \in Engine : Done(e, x) /\ engine' = [engine EXCEPT ![p] = x]
  BY <1>2, ExecDone
<1>4. Loaded' = Loaded /\ UNCHANGED <<log, box, shown>>
  BY LoadedUnchanged DEF Exec
<1>5. /\ stage'[p] = "log" /\ engine'[p] = x
      /\ \A q \in Proc : q # p => stage'[q] = "idle"
  BY <1>1, <1>2, <1>3 DEF Exec, EngineTypeOK
<1>6. Started(p)'
  <2>1. Accepts(e, Loaded'.state)
    BY <1>4 DEF Exec
  <2>2. Done(e, engine[p])'
    BY <1>3, <1>4, <1>5 DEF Done
  <2>3. e.op = "queue" /\ shown' # Torn => shown'[e.id] = "absent"
    BY <1>4 DEF Exec, NewRequest
  <2> QED
    BY <2>1, <2>2, <2>3 DEF Started
<1>7. HandsAgree'
  BY <1>5, <1>6 DEF HandsAgree
<1>8. OneAtATime'
  BY <1>5 DEF OneAtATime
<1>9. Loaded.state = Replay(Loaded.log)
  BY <1>1 DEF QuietInv, FilesAgree
<1>10. FilesAgree'
  BY <1>4, <1>9 DEF FilesAgree
<1>11. FirstTheLog' /\ ViewNotAhead'
  BY <1>1, <1>4 DEF QuietInv, FirstTheLog, ViewNotAhead
<1>12. UNCHANGED Ledger!ledgerVars
  BY <1>4 DEF Ledger!ledgerVars
<1> QED
  BY <1>7, <1>8, <1>10, <1>11, <1>12 DEF QuietStep

\* The log becomes the one of the process: the ledger takes the command's step, but for a
\* message that mailbox.json has still to catch up with.
LEMMA QuietPersistLog ==
  ASSUME LogInv, QuietInv, ~disturbed', NEW p \in Proc, PersistLog(p)
  PROVE  QuietStep
<1> DEFINE x == engine[p]
<1>1. /\ stage[p] = "log" /\ Goes(p, "mailbox") /\ log' = x.log
      /\ UNCHANGED <<box, shown, engine, disturbed>>
  BY DEF PersistLog
<1>2. ~disturbed /\ stage[p] # "idle" /\ "mailbox" \in Stage
  BY <1>1 DEF Stage
<1>3. /\ \A q \in Proc : stage'[q] # "idle" => q = p
      /\ OneAtATime'
      /\ stage'[p] = "mailbox"
      /\ x \in Engine
      /\ Loaded.state = Replay(Loaded.log)
  BY <1>1, <1>2, AtWork
<1>4. EngineTypeOK /\ LogReplays
  BY DEF LogInv
<1>5. PICK e \in Event :
        /\ Accepts(e, Loaded.state) /\ Done(e, x)
        /\ e.op = "queue" /\ shown # Torn => shown[e.id] = "absent"
  BY <1>1, <1>2 DEF QuietInv, HandsAgree, Started
<1>6. x.state = Apply(e, Loaded.state) /\ Mirrors(x)
  BY <1>3, <1>4, <1>5, DoneMirrors
<1>7. x.log \in Seq(Event) /\ x.log # Torn /\ x.state \in State /\ Loaded.state \in State
  BY <1>3, <1>4, EngineParts, LoadedEngine, TornIsNone
<1>8. /\ Replay(x.log).mailbox = x.state.mailbox
      /\ Replay(x.log).dispatch \in {x.state.dispatch, Ledger!Live(x.state.dispatch)}
      /\ \A r \in Request : \/ Replay(x.log).dispatch[r] = x.state.dispatch[r]
                            \/ Compacting /\ Replay(x.log).dispatch[r] = "absent"
  BY <1>3, <1>6, MirrorsKeeps
<1> HIDE DEF x
<1>a. /\ e.id \in Request =>
           /\ x.state.dispatch = [Loaded.state.dispatch EXCEPT ![e.id] = DispatchMoves[e.op].to]
           /\ x.state.mailbox = Loaded.state.mailbox
      /\ e.id \notin Request =>
           /\ x.state.dispatch = Loaded.state.dispatch
           /\ x.state.mailbox = [Loaded.state.mailbox EXCEPT ![e.id] = MailboxMoves[e.op].to]
  <2> DEFINE s == Loaded.state
  <2>1. s \in State /\ x.state = Apply(e, s)
    BY <1>6, <1>7
  <2> HIDE DEF s
  <2>2. /\ e.id \in Request =>
             /\ x.state.dispatch = [s.dispatch EXCEPT ![e.id] = DispatchMoves[e.op].to]
             /\ x.state.mailbox = s.mailbox
        /\ e.id \notin Request =>
             /\ x.state.dispatch = s.dispatch
             /\ x.state.mailbox = [s.mailbox EXCEPT ![e.id] = MailboxMoves[e.op].to]
    BY <2>1, ApplyChanges
  <2> QED
    BY <2>2 DEF s
<1>9. /\ Loaded'.log = x.log
      /\ Loaded'.state.dispatch = Replay(x.log).dispatch
      /\ Loaded'.state.mailbox = IF box = Torn THEN x.state.mailbox ELSE box
  BY <1>1, <1>7, <1>8, LoadedPartsNext
<1>10. box # Torn => Loaded.state.mailbox = box
  <2>1. box # Torn => log # Torn
    BY <1>2 DEF QuietInv, FirstTheLog
  <2>2. log # Torn => log \in Seq(Event)
    BY <1>4 DEF EngineTypeOK
  <2> QED
    BY <2>1, <2>2, LoadedParts
<1>11. [Ledger!Next]_(Ledger!ledgerVars) /\ BoxBefore(p)'
  <2>1. CASE e.id \in Request
    <3>1. x.state.mailbox = Loaded.state.mailbox
      BY <1>a, <2>1
    <3>2. Loaded'.state.mailbox = Loaded.state.mailbox
      BY <1>9, <1>10, <3>1
    <3>3. Ledger!Next
      BY <1>4, <1>5, <1>6, <1>8, <1>9, <2>1, <3>2, RequestMove
    <3>4. box' = Torn \/ box' = engine'[p].state.mailbox
      BY <1>1, <1>10, <3>1 DEF x
    <3> QED
      BY <3>3, <3>4 DEF BoxBefore
  <2>2. CASE e.id \notin Request
    <3>1. /\ x.state.dispatch = Loaded.state.dispatch
          /\ x.state.mailbox = [Loaded.state.mailbox EXCEPT ![e.id] = MailboxMoves[e.op].to]
      BY <1>a, <2>2
    <3>2. e.id \in Message /\ Loaded.state.mailbox[e.id] \in MailboxMoves[e.op].from
      BY <1>5, <2>2, EventTypes DEF Accepts
    <3>3. CASE box = Torn
      <4>1. Ledger!Next
        BY <1>8, <1>9, <3>1, <3>2, <3>3, MessageMove
      <4> QED
        BY <1>1, <3>3, <4>1 DEF BoxBefore
    <3>4. CASE box # Torn
      <4>1. Ledger!Next
        BY <1>8, <1>9, <1>10, <3>1, <3>4, Forgetting
      <4>2. /\ box'[e.id] \in MailboxMoves[e.op].from
            /\ engine'[p].state.mailbox = [box' EXCEPT ![e.id] = MailboxMoves[e.op].to]
        BY <1>1, <1>10, <3>1, <3>2, <3>4 DEF x
      <4> QED
        BY <3>2, <4>1, <4>2 DEF BoxBefore
    <3> QED
      BY <3>3, <3>4
  <2> QED
    BY <2>1, <2>2
<1>12. HandsAgree'
  <2>1. log' = engine'[p].log /\ Mirrors(engine[p])'
    BY <1>1, <1>6 DEF x, Mirrors, Forgets, Over
  <2> QED
    BY <1>3, <1>11, <2>1 DEF HandsAgree
<1>13. FirstTheLog' /\ FilesAgree'
  BY <1>1, <1>3, <1>7 DEF FirstTheLog, FilesAgree
<1>14. ViewNotAhead'
  <2>1. SUFFICES ASSUME shown # Torn, NEW r \in Request
        PROVE  \/ shown[r] = Loaded'.state.dispatch[r]
               \/ Rank(shown[r]) < Rank(Loaded'.state.dispatch[r])
               \/ Compacting /\ Loaded'.state.dispatch[r] = "absent"
    BY <1>1 DEF ViewNotAhead
  <2> DEFINE old == Loaded.state.dispatch[r]
             new == x.state.dispatch[r]
  <2>2. \/ Loaded'.state.dispatch[r] = new
        \/ Compacting /\ Loaded'.state.dispatch[r] = "absent"
    BY <1>8, <1>9
  <2>3. \/ shown[r] = old \/ Rank(shown[r]) < Rank(old)
        \/ Compacting /\ old = "absent"
    BY <1>2, <2>1 DEF QuietInv, ViewNotAhead
  <2>4. CASE e.id = r
    <3>1. new = DispatchMoves[e.op].to /\ old \in DispatchMoves[e.op].from
      <4>1. x.state.dispatch = [Loaded.state.dispatch EXCEPT ![e.id] = DispatchMoves[e.op].to]
        BY <1>a, <2>4
      <4>2. Loaded.state.dispatch \in [Request -> RequestStatus]
        BY <1>7 DEF State
      <4> QED
        BY <1>5, <2>4, <4>1, <4>2 DEF Accepts
    <3>2. e.op \in {"queue", "notify", "deliver", "fail"}
      BY <2>4, EventTypes
    <3>3. Rank(old) < Rank(new)
      BY <3>1, <3>2, RankGrows
    <3>4. shown[r] \in RequestStatus /\ old \in RequestStatus /\ new \in RequestStatus
      BY <1>4, <1>7, <2>1 DEF EngineTypeOK, State
    <3>5. old = "absent" => shown[r] = "absent"
      <4>1. old = "absent" => e.op = "queue"
        BY <3>1, <3>2 DEF DispatchMoves
      <4> QED
        BY <1>5, <2>1, <2>4, <4>1
    <3>6. \A s \in RequestStatus : Rank(s) \in Nat
      BY DEF Rank, RequestStatus
    <3>7. Rank(shown[r]) < Rank(new)
      BY <2>3, <3>3, <3>4, <3>5, <3>6
    <3> QED
      BY <2>2, <3>7
  <2>5. CASE e.id # r
    <3>1. new = old
      <4>1. Loaded.state.dispatch \in [Request -> RequestStatus]
        BY <1>7 DEF State
      <4> QED
        BY <1>a, <2>5, <4>1
    <3> QED
      BY <2>2, <2>3, <3>1
  <2> QED
    BY <2>4, <2>5
<1> QED
  BY <1>3, <1>11, <1>12, <1>13, <1>14 DEF QuietStep

\* The ledger does not move, and dispatch.json is not written.
LEMMA QuietStutter ==
  ASSUME LogInv, QuietInv, ~disturbed, UNCHANGED disturbed, log' = log, shown' \in {shown, Torn},
         Loaded'.state.dispatch = Loaded.state.dispatch
  PROVE  ViewNotAhead'
BY DEF QuietInv, ViewNotAhead

\* mailbox.json is brought up to date, or truncated, by a process whose log is the log.
LEMMA BoxWritten ==
  ASSUME LogInv, QuietInv, ~disturbed, NEW p \in Proc, stage[p] \notin {"idle", "log"},
         NEW to \in Stage, Goes(p, to),
         UNCHANGED <<log, disturbed>>, shown' \in {shown, Torn},
         box' \in {Torn, engine[p].state.mailbox},
         stage[p] = "mailbox" \/ Loaded.state = Replay(Loaded.log)
  PROVE  /\ [Ledger!Next]_(Ledger!ledgerVars)
         /\ FirstTheLog' /\ FilesAgree' /\ ViewNotAhead'
<1> DEFINE x == engine[p]
<1>1. x \in Engine /\ log \in Seq(Event) /\ log # Torn /\ log = x.log /\ Mirrors(x)
  BY AtWork
<1>2. x.state \in State /\ Replay(log).mailbox = x.state.mailbox
  BY <1>1, EngineParts, MirrorsKeeps
<1> HIDE DEF x
<1>3. /\ Loaded'.log = log
      /\ Loaded'.state = Replay(log)
  BY <1>1, <1>2, LoadedPartsNext DEF x
<1>4. /\ Loaded.log = log
      /\ Loaded.state.dispatch = Replay(log).dispatch
      /\ Loaded.state.mailbox = IF box = Torn THEN Replay(log).mailbox ELSE box
  BY <1>1, LoadedParts
<1>5. [Ledger!Next]_(Ledger!ledgerVars)
  <2>1. CASE Loaded.state.mailbox = x.state.mailbox
    <3>1. /\ Loaded'.state.dispatch = Loaded.state.dispatch
          /\ Loaded'.state.mailbox = Loaded.state.mailbox
      BY <1>2, <1>3, <1>4, <2>1
    <3> QED
      BY <3>1 DEF Ledger!ledgerVars
  <2>2. CASE Loaded.state.mailbox # x.state.mailbox
    <3>1. stage[p] = "mailbox" /\ box # Torn
      BY <1>2, <1>4, <2>2
    <3>2. BoxBefore(p)
      BY <3>1 DEF QuietInv, HandsAgree
    <3>3. PICK e \in Event :
            /\ e.id \in Message /\ box[e.id] \in MailboxMoves[e.op].from
            /\ x.state.mailbox = [box EXCEPT ![e.id] = MailboxMoves[e.op].to]
      BY <1>4, <2>2, <3>1, <3>2 DEF BoxBefore, x
    <3>4. Ledger!Next
      BY <1>2, <1>3, <1>4, <3>1, <3>3, MessageMove
    <3> QED
      BY <3>4
  <2> QED
    BY <2>1, <2>2
<1>6. FirstTheLog' /\ FilesAgree'
  BY <1>1, <1>3 DEF FirstTheLog, FilesAgree
<1>7. ViewNotAhead'
  BY <1>3, <1>4, QuietStutter
<1> QED
  BY <1>5, <1>6, <1>7

\* The steps after the log is written; Loaded.state = Replay(Loaded.log) but in stage mailbox.
LEMMA QuietWrite ==
  ASSUME LogInv, QuietInv, ~disturbed', NEW p \in Proc,
         PersistMailbox(p) \/ TruncateMailbox(p) \/ ViewMailbox(p)
  PROVE  QuietStep
<1> USE DEF PersistMailbox, TruncateMailbox, ViewMailbox
<1>1. PICK to \in {"dispatch view", "rest of mailbox view", "idle"} :
        /\ Goes(p, to)
        /\ to # "idle" => engine' = engine
  OBVIOUS
<1>2. /\ to \in Stage /\ to \notin {"log", "mailbox"} /\ ~disturbed
      /\ stage[p] \notin {"idle", "log"}
      /\ UNCHANGED <<log, shown, disturbed>>
      /\ box' \in {Torn, engine[p].state.mailbox}
  <2>1. to \in Stage /\ to \notin {"log", "mailbox"}
    BY DEF Stage
  <2>2. UNCHANGED <<log, shown, disturbed>> /\ stage[p] \notin {"idle", "log"}
    OBVIOUS
  <2>4. ~disturbed
    BY <2>2
  <2>3. box' \in {Torn, engine[p].state.mailbox}
    OBVIOUS
  <2> QED
    BY <2>1, <2>2, <2>3, <2>4
<1>3. /\ \A q \in Proc : stage'[q] # "idle" => q = p
      /\ OneAtATime'
      /\ stage'[p] = to
      /\ stage[p] # "mailbox" => Loaded.state = Replay(Loaded.log)
      /\ log = engine[p].log /\ Mirrors(engine[p])
  BY <1>1, <1>2, AtWork
<1>4. /\ [Ledger!Next]_(Ledger!ledgerVars)
      /\ FirstTheLog' /\ FilesAgree' /\ ViewNotAhead'
  BY <1>1, <1>2, <1>3, BoxWritten
<1>5. HandsAgree'
  <2>1. CASE to = "idle"
    BY <1>3, <2>1 DEF HandsAgree
  <2>2. CASE to # "idle"
    <3>1. log' = engine'[p].log /\ Mirrors(engine[p])'
      BY <1>1, <1>2, <1>3, <2>2 DEF Mirrors, Forgets, Over
    <3> QED
      BY <1>2, <1>3, <3>1 DEF HandsAgree
  <2> QED
    BY <2>1, <2>2
<1> QED
  BY <1>3, <1>4, <1>5 DEF QuietStep

LEMMA QuietViewDispatch ==
  ASSUME LogInv, QuietInv, ~disturbed', NEW p \in Proc, ViewDispatch(p)
  PROVE  QuietStep
<1> DEFINE x == engine[p]
<1>1. /\ stage[p] = "dispatch view" /\ Goes(p, "mailbox view") /\ ~disturbed
      /\ "mailbox view" \in Stage
      /\ shown' = x.state.dispatch /\ UNCHANGED <<log, box, engine>>
  BY DEF ViewDispatch, Stage
<1>2. /\ \A q \in Proc : stage'[q] # "idle" => q = p
      /\ OneAtATime'
      /\ stage'[p] = "mailbox view"
      /\ Loaded.state = Replay(Loaded.log)
      /\ x \in Engine /\ log \in Seq(Event) /\ log # Torn /\ log = x.log /\ Mirrors(x)
  BY <1>1, AtWork
<1>3. Loaded' = Loaded
  BY <1>1, LoadedUnchanged
<1>4. UNCHANGED Ledger!ledgerVars
  BY <1>3 DEF Ledger!ledgerVars
<1>5. FirstTheLog' /\ FilesAgree'
  BY <1>1, <1>2, <1>3 DEF FirstTheLog, FilesAgree
<1>6. HandsAgree'
  <2>1. log' = engine'[p].log /\ Mirrors(engine[p])'
    BY <1>1, <1>2 DEF Mirrors, Forgets, Over
  <2> QED
    BY <1>2, <2>1 DEF HandsAgree
<1>7. ViewNotAhead'
  <2>1. Loaded.state.dispatch = Replay(x.log).dispatch
    BY <1>2, LoadedParts
  <2>2. \A r \in Request : \/ Replay(x.log).dispatch[r] = x.state.dispatch[r]
                           \/ Compacting /\ Replay(x.log).dispatch[r] = "absent"
    BY <1>2, MirrorsKeeps
  <2> QED
    BY <1>1, <1>3, <2>1, <2>2 DEF ViewNotAhead
<1> QED
  BY <1>2, <1>4, <1>5, <1>6, <1>7 DEF QuietStep

\* A death that does not disturb leaves the files of before, or of after, or a torn one that
\* the next exec does without.
LEMMA QuietDeath ==
  ASSUME LogInv, QuietInv, ~disturbed', NEW p \in Proc, Die(p) \/ DieWriting(p)
  PROVE  QuietStep
<1>1. /\ stage[p] # "idle" /\ Goes(p, "idle") /\ "idle" \in Stage
      /\ UNCHANGED <<log, disturbed>> /\ ~disturbed
      /\ shown' \in {shown, Torn}
      /\ stage[p] = "mailbox" => box' = Torn
      /\ stage[p] # "mailbox" => box' = box
  BY DEF Die, DieWriting, Gone, Stage, LogInv, EngineTypeOK
<1>2. /\ \A q \in Proc : stage'[q] = "idle"
      /\ OneAtATime'
      /\ stage[p] # "mailbox" => Loaded.state = Replay(Loaded.log)
  BY <1>1, AtWork
<1>3. HandsAgree'
  BY <1>2 DEF HandsAgree
<1>4. CASE stage[p] = "mailbox"
  BY <1>1, <1>2, <1>3, <1>4, BoxWritten DEF QuietStep
<1>5. CASE stage[p] # "mailbox"
  <2>1. Loaded' = Loaded
    BY <1>1, <1>5, LoadedUnchanged
  <2>2. UNCHANGED Ledger!ledgerVars
    BY <2>1 DEF Ledger!ledgerVars
  <2>3. FirstTheLog' /\ FilesAgree'
    BY <1>1, <1>2, <1>5, <2>1 DEF FirstTheLog, FilesAgree, QuietInv
  <2>4. ViewNotAhead'
    BY <1>1, <2>1, QuietStutter
  <2> QED
    BY <1>2, <1>3, <2>2, <2>3, <2>4 DEF QuietStep
<1> QED
  BY <1>4, <1>5

LEMMA QuietNext ==
  ASSUME LogInv, QuietInv, ~disturbed', [Next]_engineVars
  PROVE  QuietStep
<1>1. CASE UNCHANGED engineVars
  <2>1. UNCHANGED <<log, box, shown, stage, engine, disturbed>>
    BY <1>1 DEF engineVars
  <2>2. Loaded' = Loaded
    BY <2>1, LoadedUnchanged
  <2>3. UNCHANGED Ledger!ledgerVars
    BY <2>2 DEF Ledger!ledgerVars
  <2>4. OneAtATime' /\ FirstTheLog' /\ FilesAgree' /\ ViewNotAhead'
    BY <2>1, <2>2 DEF QuietInv, OneAtATime, FirstTheLog, FilesAgree, ViewNotAhead
  <2>5. HandsAgree'
    BY <2>1, <2>2 DEF QuietInv, HandsAgree, Started, Done, Mirrors, Forgets, Over, BoxBefore
  <2> QED
    BY <2>3, <2>4, <2>5 DEF QuietStep
<1> QED
  BY <1>1, QuietExec, QuietPersistLog, QuietWrite, QuietViewDispatch, QuietDeath DEF Next

LEMMA InitQuietInv == Init => QuietInv
<1> SUFFICES ASSUME Init PROVE QuietInv
  OBVIOUS
<1>1. Loaded.state = Replay(Loaded.log)
  BY ReplayType DEF Init, Loaded, NoEngine
<1> QED
  BY <1>1 DEF Init, QuietInv, OneAtATime, FirstTheLog, FilesAgree, HandsAgree, ViewNotAhead

LEMMA QuietInvariant == Spec => [](LogInv /\ QuietInv)
<1>1. Init => LogInv /\ QuietInv
  BY InitLogInv, InitQuietInv
<1>2. LogInv /\ QuietInv /\ [Next]_engineVars => (LogInv /\ QuietInv)'
  BY NextLogInv, QuietNext DEF QuietStep, QuietInv
<1> QED
  BY <1>1, <1>2, PTL DEF Spec

\* While no exec overlaps another and none dies with the log torn or newer than mailbox.json,
\* dispatch.json shows no request further on than the log has it, or with another end.
THEOREM ViewNeverAhead == Spec => []ViewNotAhead
<1>1. QuietInv => ViewNotAhead
  BY DEF QuietInv, ViewNotAhead
<1> QED
  BY QuietInvariant, <1>1, PTL

\* RuntimeEngine implements DeliveryLedger while it is not disturbed: each command takes effect
\* at one write of a file, and no other write, compaction or death changes what the next exec
\* loads, but that requests which are over may be forgotten.
THEOREM ImplementsLedger == Spec => StepsLikeLedger
<1>1. ASSUME LogInv, QuietInv, [Next]_engineVars
      PROVE  [~disturbed' => [Ledger!Next]_(Ledger!ledgerVars)]_engineVars
  BY <1>1, QuietNext DEF QuietStep
<1> QED
  BY <1>1, QuietInvariant, PTL DEF Spec, StepsLikeLedger
=============================================================================
