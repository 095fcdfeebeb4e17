--------------------------- MODULE SessionBroker ---------------------------
(***************************************************************************)
(* Sessions, their turns and their event subscribers (sessions.py, the     *)
(* orchestration of pipeline.py, the session routes of app.py).            *)
(*                                                                         *)
(* Everything runs on one asyncio loop, and no section under the broker's  *)
(* lock awaits, so the lock never makes a task wait: a handler runs from   *)
(* one real suspension (a request body, a provider in its thread, a send   *)
(* on a socket) to the next as one step.  That is why a subscriber's       *)
(* history and its registration, or an admission and its first events,     *)
(* cannot be told apart by other tasks.                                    *)
(***************************************************************************)
EXTENDS Integers, Sequences, FiniteSets

CONSTANTS
  MaxCreated,   \* bound: sessions created, identified in creation order
  MaxSessions,  \* SessionBroker.max_sessions
  MaxEvents,    \* SessionBroker.max_events
  QueueSize,    \* SessionBroker.subscriber_queue_size
  Turn,         \* requests for a full turn
  Subscriber,   \* connections to the events route
  MaxPosts,     \* bound: turns posted
  MaxEchoes     \* bound: events the realtime streams echo to the broker

ASSUME BrokerAssumption ==
  /\ MaxCreated \in Nat \ {0} /\ MaxSessions \in Nat \ {0}
  /\ MaxEvents \in Nat \ {0} /\ QueueSize \in Nat \ {0}
  /\ MaxPosts \in Nat /\ MaxEchoes \in Nat

Session == 1..MaxCreated
Stages == <<"vad", "asr", "correction", "endpoint", "agent", "tts">>
None == 0

VARIABLES
  created,             \* sessions created so far; known: those not evicted
  known, activeTurns, state, sequence, events,
  turnPc, turnSession, turnStage,      \* turn requests
  subPc, subSession, backlog, queue,   \* subscribers: history left to replay
  gone,                                \* the subscriber's client has left
  last, dropped,                       \* auxiliary: last number sent; overflow
  posts, echoes                        \* bounds

broker == <<created, known, activeTurns, state, sequence, events>>
turns == <<turnPc, turnSession, turnStage>>
feeds == <<subPc, subSession, backlog, gone, last>>
vars == <<broker, turns, feeds, queue, dropped, posts, echoes>>

-----------------------------------------------------------------------------
(* Helpers *)

Latest(s, n) == SubSeq(s, IF Len(s) > n THEN Len(s) - n + 1 ELSE 1, Len(s))

Subscribed(u) == subPc[u] = "streaming"
Subscribers(s) == {u \in Subscriber : Subscribed(u) /\ subSession[u] = s}

Event(type, stage) == [type |-> type, stage |-> stage]

Numbered(s, list) ==
  [i \in DOMAIN list |-> [number |-> sequence[s] + i,
                          type |-> list[i].type, stage |-> list[i].stage]]

(* Mutant: a full subscriber queue refuses the new event. *)
PublishDropNewest(s, list) ==
  /\ sequence' = [sequence EXCEPT ![s] = @ + Len(list)]
  /\ events' = [events EXCEPT ![s] = Latest(@ \o Numbered(s, list), MaxEvents)]
  /\ queue' = [u \in Subscriber |->
       IF u \in Subscribers(s)
       THEN SubSeq(queue[u] \o Numbered(s, list), 1,
                   IF Len(queue[u]) + Len(list) > QueueSize
                   THEN QueueSize ELSE Len(queue[u]) + Len(list))
       ELSE queue[u]]
  /\ dropped' = [u \in Subscriber |->
       dropped[u] \/ /\ u \in Subscribers(s)
                     /\ Len(queue[u]) + Len(list) > QueueSize]

(* emit, once per element of list and without a suspension in between: the  *)
(* history keeps the latest MaxEvents, a full subscriber queue its latest.  *)
Publish(s, list) ==
  /\ sequence' = [sequence EXCEPT ![s] = @ + Len(list)]
  /\ events' = [events EXCEPT ![s] = Latest(@ \o Numbered(s, list), MaxEvents)]
  /\ queue' = [u \in Subscriber |->
       IF u \in Subscribers(s)
       THEN Latest(queue[u] \o Numbered(s, list), QueueSize)
       ELSE queue[u]]
  /\ dropped' = [u \in Subscriber |->
       dropped[u] \/ /\ u \in Subscribers(s)
                     /\ Len(queue[u]) + Len(list) > QueueSize]

Init ==
  /\ created = 0 /\ known = {} /\ activeTurns = {}
  /\ state = [s \in Session |-> "ready"]
  /\ sequence = [s \in Session |-> 0] /\ events = [s \in Session |-> <<>>]
  /\ turnPc = [t \in Turn |-> "off"]
  /\ turnSession = [t \in Turn |-> None] /\ turnStage = [t \in Turn |-> 0]
  /\ subPc = [u \in Subscriber |-> "off"]
  /\ subSession = [u \in Subscriber |-> None]
  /\ backlog = [u \in Subscriber |-> <<>>]
  /\ queue = [u \in Subscriber |-> <<>>]
  /\ gone = [u \in Subscriber |-> FALSE]
  /\ last = [u \in Subscriber |-> 0]
  /\ dropped = [u \in Subscriber |-> FALSE]
  /\ posts = 0 /\ echoes = 0

-----------------------------------------------------------------------------
(* Sessions *)

(* Mutant: a session counts as unused although a turn is running in it. *)
RemovableIdleSubscribers == {s \in known : Subscribers(s) = {}}

Removable == {s \in known \ activeTurns : Subscribers(s) = {}}

Insert(old) ==
  /\ created' = created + 1
  /\ known' = (known \ old) \cup {created'}
  /\ state' = [s \in Session |-> IF s \in old THEN "ready" ELSE state[s]]
  /\ sequence' = [s \in Session |-> IF s \in old THEN 0
                                    ELSE IF s = created' THEN 1 ELSE sequence[s]]
  /\ events' = [s \in Session |->
       IF s \in old THEN <<>>
       ELSE IF s = created' THEN Numbered(s, <<Event("session.created", "")>>)
       ELSE events[s]]
  /\ UNCHANGED <<activeTurns, turns, feeds, queue, dropped, posts, echoes>>

(* create: at capacity the oldest unused session makes room, history and    *)
(* all; if there is none the request is refused and nothing changes.        *)
Create ==
  /\ created < MaxCreated
  /\ \/ Cardinality(known) < MaxSessions /\ Insert({})
     \/ /\ Cardinality(known) >= MaxSessions
        /\ \E r \in Removable : (\A s \in Removable : r <= s) /\ Insert({r})

(* A realtime stream copies its semantic events to the broker; it may have  *)
(* outlived its session, and then the emit raises into the stream.          *)
Echo(s) ==
  /\ echoes < MaxEchoes /\ echoes' = echoes + 1
  /\ s \in known
  /\ Publish(s, <<Event("realtime.event", "")>>)
  /\ UNCHANGED <<created, known, activeTurns, state, turns, feeds, posts>>

-----------------------------------------------------------------------------
(* Turns *)

EndTurn(t) ==
  /\ turnPc' = [turnPc EXCEPT ![t] = "off"]
  /\ turnSession' = [turnSession EXCEPT ![t] = None]
  /\ turnStage' = [turnStage EXCEPT ![t] = 0]

(* full_turn looks the session up, then awaits the request's body. *)
Post(t, s) ==
  /\ posts < MaxPosts /\ posts' = posts + 1
  /\ turnPc[t] = "off" /\ s \in known
  /\ turnPc' = [turnPc EXCEPT ![t] = "reading"]
  /\ turnSession' = [turnSession EXCEPT ![t] = s]
  /\ UNCHANGED <<broker, turnStage, feeds, queue, dropped, echoes>>

(* The body is refused, the session has been evicted meanwhile, or a turn   *)
(* is in progress in it.                                                    *)
Refuse(t) ==
  /\ turnPc[t] = "reading"
  /\ EndTurn(t)
  /\ UNCHANGED <<broker, feeds, queue, dropped, posts, echoes>>

(* Mutant: admission does not look at the running turns. *)
AdmitAlways(t) ==
  /\ turnPc[t] = "reading"
  /\ turnSession[t] \in known
  /\ activeTurns' = activeTurns \cup {turnSession[t]}
  /\ state' = [state EXCEPT ![turnSession[t]] = "processing"]
  /\ Publish(turnSession[t], <<Event("pipeline.started", ""),
                               Event("stage.started", Stages[1])>>)
  /\ turnPc' = [turnPc EXCEPT ![t] = "stage"]
  /\ turnStage' = [turnStage EXCEPT ![t] = 1]
  /\ UNCHANGED <<created, known, turnSession, feeds, posts, echoes>>

Admit(t) ==
  /\ turnPc[t] = "reading"
  /\ turnSession[t] \in known \ activeTurns
  /\ activeTurns' = activeTurns \cup {turnSession[t]}
  /\ state' = [state EXCEPT ![turnSession[t]] = "processing"]
  /\ Publish(turnSession[t], <<Event("pipeline.started", ""),
                               Event("stage.started", Stages[1])>>)
  /\ turnPc' = [turnPc EXCEPT ![t] = "stage"]
  /\ turnStage' = [turnStage EXCEPT ![t] = 1]
  /\ UNCHANGED <<created, known, turnSession, feeds, posts, echoes>>

StageDone(t) ==
  /\ turnPc[t] = "stage" /\ turnStage[t] < Len(Stages)
  /\ turnStage' = [turnStage EXCEPT ![t] = @ + 1]
  /\ Publish(turnSession[t], <<Event("stage.completed", Stages[turnStage[t]]),
                               Event("stage.started", Stages[turnStage[t] + 1])>>)
  /\ UNCHANGED <<created, known, activeTurns, state, turnPc, turnSession,
                 feeds, posts, echoes>>

(* The end of a turn: state, last events, and the admission is given back.  *)
Conclude(t, outcome, list) ==
  /\ state' = [state EXCEPT ![turnSession[t]] = outcome]
  /\ activeTurns' = activeTurns \ {turnSession[t]}
  /\ Publish(turnSession[t], list)
  /\ EndTurn(t)
  /\ UNCHANGED <<created, known, feeds, posts, echoes>>

Complete(t) ==
  /\ turnPc[t] = "stage" /\ turnStage[t] = Len(Stages)
  /\ Conclude(t, "completed", <<Event("stage.completed", Stages[turnStage[t]]),
                                Event("pipeline.completed", "")>>)

(* Mutant: a turn without speech leaves the session processing. *)
NoSpeechKeepsState(t) ==
  /\ turnPc[t] = "stage" /\ turnStage[t] = 1
  /\ Conclude(t, "processing", <<Event("stage.completed", Stages[1]),
                                 Event("pipeline.failed", Stages[1])>>)

(* The detector hears no speech. *)
NoSpeech(t) ==
  /\ turnPc[t] = "stage" /\ turnStage[t] = 1
  /\ Conclude(t, "failed", <<Event("stage.completed", Stages[1]),
                             Event("pipeline.failed", Stages[1])>>)

(* The stage pipeline.failed names: the one the exception carries.  The     *)
(* text worker serves two stages and blames correction for both.            *)
Blamed(stage) ==
  IF stage = "endpoint" THEN {"endpoint", "correction"} ELSE {stage}

(* Mutant: the failed stage is reported as completed first. *)
StageFailsTwice(t) ==
  /\ turnPc[t] = "stage"
  /\ \E b \in Blamed(Stages[turnStage[t]]) :
       Conclude(t, "failed", <<Event("stage.completed", Stages[turnStage[t]]),
                               Event("stage.failed", Stages[turnStage[t]]),
                               Event("pipeline.failed", b)>>)

(* A provider, or the storing of its audio, raises. *)
StageFails(t) ==
  /\ turnPc[t] = "stage"
  /\ \E b \in Blamed(Stages[turnStage[t]]) :
       Conclude(t, "failed", <<Event("stage.failed", Stages[turnStage[t]]),
                               Event("pipeline.failed", b)>>)

-----------------------------------------------------------------------------
(* Subscribers *)

(* session_events looks the session up and awaits the handshake. *)
Connect(u, s) ==
  /\ subPc[u] = "off" /\ ~gone[u] /\ s \in known
  /\ subPc' = [subPc EXCEPT ![u] = "accepting"]
  /\ subSession' = [subSession EXCEPT ![u] = s]
  /\ UNCHANGED <<broker, turns, backlog, gone, last, queue, dropped, posts, echoes>>

(* subscribe takes the history and registers its queue. *)
Subscribe(u) ==
  /\ subPc[u] = "accepting" /\ subSession[u] \in known
  /\ subPc' = [subPc EXCEPT ![u] = "streaming"]
  /\ backlog' = [backlog EXCEPT ![u] = events[subSession[u]]]
  /\ last' = [last EXCEPT ![u] = Head(events[subSession[u]]).number - 1]
  /\ UNCHANGED <<broker, turns, subSession, gone, queue, dropped, posts, echoes>>

Unsubscribe(u) ==
  /\ subPc' = [subPc EXCEPT ![u] = "off"]
  /\ subSession' = [subSession EXCEPT ![u] = None]
  /\ backlog' = [backlog EXCEPT ![u] = <<>>]
  /\ queue' = [queue EXCEPT ![u] = <<>>]
  /\ last' = [last EXCEPT ![u] = 0]
  /\ dropped' = [dropped EXCEPT ![u] = FALSE]
  /\ UNCHANGED gone

(* The session was evicted during the handshake: the generator raises. *)
SubscribeTooLate(u) ==
  /\ subPc[u] = "accepting" /\ subSession[u] \notin known
  /\ Unsubscribe(u)
  /\ UNCHANGED <<broker, turns, posts, echoes>>

(* The history is replayed before the first event is taken off the queue.   *)
Send(u) ==
  /\ Subscribed(u) /\ ~gone[u]
  /\ \/ /\ backlog[u] # <<>>
        /\ last' = [last EXCEPT ![u] = Head(backlog[u]).number]
        /\ backlog' = [backlog EXCEPT ![u] = Tail(@)]
        /\ UNCHANGED queue
     \/ /\ backlog[u] = <<>> /\ queue[u] # <<>>
        /\ last' = [last EXCEPT ![u] = Head(queue[u]).number]
        /\ queue' = [queue EXCEPT ![u] = Tail(@)]
        /\ UNCHANGED backlog
  /\ UNCHANGED <<broker, turns, subPc, subSession, gone, dropped, posts, echoes>>

(* The client leaves.  The route never reads from its socket: ...            *)
Leave(u) ==
  /\ subPc[u] # "off" /\ ~gone[u]
  /\ gone' = [gone EXCEPT ![u] = TRUE]
  /\ UNCHANGED <<broker, turns, subPc, subSession, backlog, last, queue, dropped,
                 posts, echoes>>

(* ... it notices at the next send, which fails.                             *)
SendFails(u) ==
  /\ Subscribed(u) /\ gone[u]
  /\ backlog[u] # <<>> \/ queue[u] # <<>>
  /\ Unsubscribe(u)
  /\ UNCHANGED <<broker, turns, posts, echoes>>

TurnStep(t) ==
  \/ Refuse(t) \/ Admit(t) \/ StageDone(t) \/ Complete(t) \/ NoSpeech(t)
  \/ StageFails(t)

Feed(u) == Subscribe(u) \/ SubscribeTooLate(u) \/ Send(u) \/ SendFails(u)

Next ==
  \/ Create
  \/ \E s \in Session : \/ Echo(s)
                        \/ \E t \in Turn : Post(t, s)
                        \/ \E u \in Subscriber : Connect(u, s)
  \/ \E t \in Turn : TurnStep(t)
  \/ \E u \in Subscriber : Feed(u) \/ Leave(u)

Spec == Init /\ [][Next]_vars

-----------------------------------------------------------------------------
(* Properties *)

(* Every variable holds a value of the shape the code gives it. *)
TypeOK ==
  /\ created \in 0..MaxCreated
  /\ known \subseteq 1..created /\ activeTurns \subseteq 1..created
  /\ Cardinality(known) <= MaxSessions
  /\ state \in [Session -> {"ready", "processing", "failed", "completed"}]
  /\ sequence \in [Session -> Nat]
  /\ \A s \in Session : Len(events[s]) <= MaxEvents
  /\ turnPc \in [Turn -> {"off", "reading", "stage"}]
  /\ turnSession \in [Turn -> Session \cup {None}]
  /\ turnStage \in [Turn -> 0..Len(Stages)]
  /\ subPc \in [Subscriber -> {"off", "accepting", "streaming"}]
  /\ subSession \in [Subscriber -> Session \cup {None}]
  /\ \A u \in Subscriber : Len(queue[u]) <= QueueSize
  /\ gone \in [Subscriber -> BOOLEAN] /\ dropped \in [Subscriber -> BOOLEAN]
  /\ posts \in 0..MaxPosts /\ echoes \in 0..MaxEchoes

(* A session runs one turn at a time, the admissions are those of the       *)
(* running turns, and neither a running turn nor a subscriber ever loses    *)
(* its session to an eviction.                                              *)
Running(t) == turnPc[t] = "stage"

TurnsExclusive ==
  /\ activeTurns = {turnSession[t] : t \in {x \in Turn : Running(x)}}
  /\ \A t, x \in Turn :
       Running(t) /\ Running(x) /\ turnSession[t] = turnSession[x] => t = x

InUseKept ==
  /\ activeTurns \subseteq known
  /\ \A u \in Subscriber : Subscribed(u) => subSession[u] \in known

(* The story a client reads in a session's history: what may come before    *)
(* and after what, realtime events aside.                                   *)
Position(stage) == CHOOSE i \in DOMAIN Stages : Stages[i] = stage

Follows(a, b) ==
  CASE a.type \in {"session.created", "pipeline.completed", "pipeline.failed"} ->
         b.type = "pipeline.started"
    [] a.type = "pipeline.started" ->
         b.type = "stage.started" /\ b.stage = Stages[1]
    [] a.type = "stage.started" ->
         b.type \in {"stage.completed", "stage.failed"} /\ b.stage = a.stage
    [] a.type = "stage.failed" -> b.type = "pipeline.failed" /\ b.stage \in Blamed(a.stage)
    [] a.type = "stage.completed" ->
         \/ /\ b.type = "stage.started"
            /\ Position(b.stage) = Position(a.stage) + 1
         \/ b.type = "pipeline.completed" /\ a.stage = Stages[Len(Stages)]
         \/ b.type = "pipeline.failed" /\ a.stage = Stages[1]

TurnEvent(e) == e.type # "realtime.event"

(* In a history q, event j comes next after event i; event i is the latest. *)
Succeeds(q, i, j) ==
  /\ i < j /\ TurnEvent(q[i]) /\ TurnEvent(q[j])
  /\ \A k \in (i + 1)..(j - 1) : ~TurnEvent(q[k])

Closes(q, i) == TurnEvent(q[i]) /\ \A k \in (i + 1)..Len(q) : ~TurnEvent(q[k])

Told(q) == \A i, j \in 1..Len(q) : Succeeds(q, i, j) => Follows(q[i], q[j])

StoryTold == \A s \in known : Told(events[s])

(* The state of a session tells how its turn stands: it is processing while *)
(* one runs, and otherwise names the outcome of the last one.               *)
StateHonest ==
  \A s \in known :
    /\ s \in activeTurns <=> state[s] = "processing"
    /\ \A i \in 1..Len(events[s]) : Closes(events[s], i) =>
         /\ events[s][i].type = "pipeline.completed" => state[s] = "completed"
         /\ events[s][i].type = "pipeline.failed" => state[s] = "failed"

(* What a subscriber has been sent and what waits for it are in order,      *)
(* without repetition, up to the newest event of its session; and nothing   *)
(* is missing in between unless its queue has overflowed.                   *)
Pending(u) == backlog[u] \o queue[u]

FeedsInOrder ==
  \A u \in Subscriber : Subscribed(u) =>
    LET p == Pending(u)
        before(i) == IF i = 1 THEN last[u] ELSE p[i - 1].number
    IN /\ \A i \in DOMAIN p : /\ before(i) < p[i].number
                              /\ ~dropped[u] => p[i].number = before(i) + 1
       /\ sequence[subSession[u]] = IF p = <<>> THEN last[u] ELSE p[Len(p)].number
=============================================================================
