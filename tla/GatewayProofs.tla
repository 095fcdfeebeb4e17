---------------------------- MODULE GatewayProofs ----------------------------
(***************************************************************************)
(* Theorems about the gateway's own state: SessionBroker, for any number   *)
(* of sessions, turns and subscribers and any size of history and queue,   *)
(* and ArtifactStore, for any number of workers and files.                 *)
(*                                                                         *)
(* Admission and eviction need BrokerInv.  What the histories tell and     *)
(* what subscribers receive need EventsInv: a history can be cut at its    *)
(* old end at any time and a feed consists of two sequences of which one   *)
(* can lose events, so both are described from their newest end, by the    *)
(* number (RunsTo) and the turn (Standing) of the last event.              *)
(***************************************************************************)
EXTENDS SessionBroker, ArtifactStore, SequenceTheorems, FiniteSetTheorems, TLAPS

-----------------------------------------------------------------------------
(* Admission and eviction *)

(* The part of the state that admission and eviction depend on. *)
AdmissionType ==
  /\ known \subseteq Session /\ created \in 0..MaxCreated
  /\ turnPc \in [Turn -> {"off", "reading", "stage"}]
  /\ turnSession \in [Turn -> Session \cup {None}]
  /\ subPc \in [Subscriber -> {"off", "accepting", "streaming"}]
  /\ subSession \in [Subscriber -> Session \cup {None}]

(* One turn at a time in a session, and nothing in use is evicted. *)
BrokerInv == AdmissionType /\ TurnsExclusive /\ InUseKept

admission == <<created, known, activeTurns, turnPc, turnSession, subPc, subSession>>

(* At the start there are no sessions, turns or subscribers. *)
LEMMA BrokerInvInit == Init => BrokerInv
  BY BrokerAssumption
  DEF Init, BrokerInv, AdmissionType, TurnsExclusive, InUseKept, Running, Subscribed

(* A step that neither creates, admits, ends nor subscribes. *)
LEMMA BrokerInvStutter ==
  ASSUME BrokerInv, UNCHANGED admission
  PROVE  BrokerInv'
  BY DEF admission, BrokerInv, AdmissionType, TurnsExclusive, InUseKept, Running,
         Subscribed

(* A new session takes the place of none, or of one that nobody uses. *)
LEMMA BrokerInvInsert ==
  ASSUME BrokerInv, created < MaxCreated, NEW old \in SUBSET Removable, Insert(old)
  PROVE  BrokerInv'
<1>1. UNCHANGED <<activeTurns, turnPc, turnSession, subPc, subSession>>
  BY DEF Insert, turns, feeds
<1>2. created' = created + 1 /\ known' = (known \ old) \cup {created'}
  BY DEF Insert
<1>3. AdmissionType'
  <2>1. created \in 0..MaxCreated /\ MaxCreated \in Nat /\ created < MaxCreated
    BY BrokerAssumption DEF BrokerInv, AdmissionType
  <2>2. created' \in 0..MaxCreated /\ created' \in Session
    BY <1>2, <2>1 DEF Session
  <2>3. known' \subseteq Session
    BY <1>2, <2>2 DEF BrokerInv, AdmissionType
  <2>. QED
    BY <1>1, <2>2, <2>3 DEF BrokerInv, AdmissionType
<1>4. TurnsExclusive'
  BY <1>1 DEF BrokerInv, TurnsExclusive, Running
<1>5. InUseKept'
  <2>1. activeTurns \subseteq known /\ activeTurns \cap old = {}
    BY DEF BrokerInv, InUseKept, Removable
  <2>2. ASSUME NEW u \in Subscriber, Subscribed(u)
        PROVE  subSession[u] \in known /\ subSession[u] \notin old
    BY <2>2 DEF BrokerInv, InUseKept, Removable, Subscribers
  <2>. QED
    BY <1>1, <1>2, <2>1, <2>2 DEF InUseKept, Subscribed
<1>. QED
  BY <1>3, <1>4, <1>5 DEF BrokerInv

(* Creating a session evicts at most one that nobody uses. *)
LEMMA BrokerInvCreate ==
  ASSUME BrokerInv, Create
  PROVE  BrokerInv'
<1>1. created < MaxCreated
  BY DEF Create
<1>2. CASE Insert({})
  BY <1>1, <1>2, BrokerInvInsert
<1>3. CASE \E r \in Removable : Insert({r})
  BY <1>1, <1>3, BrokerInvInsert
<1>. QED
  BY <1>2, <1>3 DEF Create

(* Admission: the session is known and no turn is running in it. *)
LEMMA BrokerInvAdmit ==
  ASSUME BrokerInv, NEW t \in Turn, Admit(t)
  PROVE  BrokerInv'
<1>. DEFINE s == turnSession[t]
<1>1. /\ turnPc' = [turnPc EXCEPT ![t] = "stage"] /\ turnPc[t] = "reading"
      /\ activeTurns' = activeTurns \cup {s} /\ s \in known \ activeTurns
      /\ UNCHANGED <<created, known, turnSession, subPc, subSession>>
  BY DEF Admit, feeds
<1>2. AdmissionType'
  BY <1>1 DEF BrokerInv, AdmissionType
<1>3. \A x \in Turn : Running(x)' <=> Running(x) \/ x = t
  BY <1>1 DEF BrokerInv, AdmissionType, Running
<1>4. \A x \in Turn : Running(x) => turnSession[x] \in activeTurns
  BY DEF BrokerInv, TurnsExclusive
<1>5. activeTurns' = {turnSession'[x] : x \in {y \in Turn : Running(y)'}}
  <2>1. activeTurns = {turnSession[x] : x \in {y \in Turn : Running(y)}}
    BY DEF BrokerInv, TurnsExclusive
  <2>. QED
    BY <1>1, <1>3, <2>1
<1>6. ASSUME NEW x \in Turn, NEW y \in Turn, Running(x)', Running(y)',
             turnSession'[x] = turnSession'[y]
      PROVE  x = y
  BY <1>1, <1>3, <1>4, <1>6 DEF BrokerInv, TurnsExclusive
<1>7. TurnsExclusive'
  BY <1>5, <1>6 DEF TurnsExclusive
<1>8. InUseKept'
  BY <1>1 DEF BrokerInv, InUseKept, Subscribed
<1>. QED
  BY <1>2, <1>7, <1>8 DEF BrokerInv

(* The end of a turn gives back the admission of its session only. *)
LEMMA BrokerInvConclude ==
  ASSUME BrokerInv, NEW t \in Turn, Running(t), NEW outcome, NEW list,
         Conclude(t, outcome, list)
  PROVE  BrokerInv'
<1>. DEFINE s == turnSession[t]
<1>1. /\ turnPc' = [turnPc EXCEPT ![t] = "off"]
      /\ turnSession' = [turnSession EXCEPT ![t] = None]
      /\ activeTurns' = activeTurns \ {s}
      /\ UNCHANGED <<created, known, subPc, subSession>>
  BY DEF Conclude, EndTurn, feeds
<1>2. AdmissionType'
  BY <1>1 DEF BrokerInv, AdmissionType
<1>3. \A x \in Turn : Running(x)' <=> Running(x) /\ x # t
  BY <1>1 DEF BrokerInv, AdmissionType, Running
<1>4. \A x \in Turn : x # t => turnSession'[x] = turnSession[x]
  BY <1>1 DEF BrokerInv, AdmissionType
<1>5. \A x \in Turn : Running(x) /\ x # t => turnSession[x] # s
  BY DEF BrokerInv, TurnsExclusive
<1>6. activeTurns' = {turnSession'[x] : x \in {y \in Turn : Running(y)'}}
  <2>1. activeTurns = {turnSession[x] : x \in {y \in Turn : Running(y)}}
    BY DEF BrokerInv, TurnsExclusive
  <2>2. \A v : v \in activeTurns' <=> \E x \in Turn : Running(x) /\ x # t /\ v = turnSession[x]
    BY <1>1, <1>5, <2>1
  <2>3. \A v : v \in {turnSession'[x] : x \in {y \in Turn : Running(y)'}}
                 <=> \E x \in Turn : Running(x) /\ x # t /\ v = turnSession[x]
    BY <1>3, <1>4
  <2>. QED
    BY <2>2, <2>3
<1>7. ASSUME NEW x \in Turn, NEW y \in Turn, Running(x)', Running(y)',
             turnSession'[x] = turnSession'[y]
      PROVE  x = y
  BY <1>3, <1>4, <1>7 DEF BrokerInv, TurnsExclusive
<1>8. TurnsExclusive'
  BY <1>6, <1>7 DEF TurnsExclusive
<1>9. InUseKept'
  BY <1>1 DEF BrokerInv, InUseKept, Subscribed
<1>. QED
  BY <1>2, <1>8, <1>9 DEF BrokerInv

(* A request that is not admitted, or a new one, touches no admission. *)
LEMMA BrokerInvRequest ==
  ASSUME BrokerInv, NEW t \in Turn, ~Running(t), Refuse(t) \/ \E s \in Session : Post(t, s)
  PROVE  BrokerInv'
<1>1. PICK v \in Session \cup {None} :
        /\ turnPc' \in {[turnPc EXCEPT ![t] = "off"], [turnPc EXCEPT ![t] = "reading"]}
        /\ turnSession' = [turnSession EXCEPT ![t] = v]
        /\ UNCHANGED <<created, known, activeTurns, subPc, subSession>>
  BY DEF Refuse, Post, EndTurn, broker, feeds
<1>2. AdmissionType'
  BY <1>1 DEF BrokerInv, AdmissionType
<1>3. \A x \in Turn : /\ Running(x)' <=> Running(x)
                      /\ Running(x) => turnSession'[x] = turnSession[x]
  BY <1>1 DEF BrokerInv, AdmissionType, Running
<1>4. activeTurns' = {turnSession'[x] : x \in {y \in Turn : Running(y)'}}
  <2>1. activeTurns = {turnSession[x] : x \in {y \in Turn : Running(y)}}
    BY DEF BrokerInv, TurnsExclusive
  <2>2. \A u : u \in {turnSession'[x] : x \in {y \in Turn : Running(y)'}}
                 <=> u \in {turnSession[x] : x \in {y \in Turn : Running(y)}}
    BY <1>3
  <2>. QED
    BY <1>1, <2>1, <2>2
<1>5. TurnsExclusive'
  BY <1>3, <1>4 DEF BrokerInv, TurnsExclusive
<1>6. InUseKept'
  BY <1>1 DEF BrokerInv, InUseKept, Subscribed
<1>. QED
  BY <1>2, <1>5, <1>6 DEF BrokerInv

(* A subscriber registers while its session is known. *)
LEMMA BrokerInvFeed ==
  ASSUME BrokerInv, NEW u \in Subscriber,
         Feed(u) \/ Leave(u) \/ \E s \in Session : Connect(u, s)
  PROVE  BrokerInv'
<1>. USE DEF broker, turns, feeds
<1>1. UNCHANGED <<created, known, activeTurns, turnPc, turnSession>>
  BY DEF Feed, Subscribe, SubscribeTooLate, Send, SendFails, Leave, Connect
<1>2. \/ UNCHANGED <<subPc, subSession>>
      \/ /\ subPc' = [subPc EXCEPT ![u] = "streaming"]
         /\ subSession' = subSession /\ subSession[u] \in known
      \/ /\ subPc' = [subPc EXCEPT ![u] = "off"]
         /\ subSession' = [subSession EXCEPT ![u] = None]
      \/ \E s \in Session : /\ subPc' = [subPc EXCEPT ![u] = "accepting"]
                            /\ subSession' = [subSession EXCEPT ![u] = s]
  BY DEF Feed, Subscribe, SubscribeTooLate, Send, SendFails, Leave, Connect, Unsubscribe
<1>3. AdmissionType'
  BY <1>1, <1>2 DEF BrokerInv, AdmissionType
<1>4. TurnsExclusive'
  BY <1>1 DEF BrokerInv, TurnsExclusive, Running
<1>5. InUseKept'
  BY <1>1, <1>2 DEF BrokerInv, AdmissionType, InUseKept, Subscribed
<1>. QED
  BY <1>3, <1>4, <1>5 DEF BrokerInv

(* Every step keeps the invariant. *)
LEMMA BrokerInvNext == BrokerInv /\ [Next]_vars => BrokerInv'
<1>. SUFFICES ASSUME BrokerInv, [Next]_vars PROVE BrokerInv'
  OBVIOUS
<1>1. CASE Create
  BY <1>1, BrokerInvCreate
<1>2. ASSUME NEW s \in Session, Echo(s) PROVE BrokerInv'
  BY <1>2, BrokerInvStutter DEF Echo, admission, turns, feeds
<1>3. ASSUME NEW t \in Turn, Refuse(t) \/ \E s \in Session : Post(t, s)
      PROVE  BrokerInv'
  <2>1. ~Running(t)
    BY <1>3 DEF Refuse, Post, Running
  <2>. QED
    BY <1>3, <2>1, BrokerInvRequest
<1>4. ASSUME NEW t \in Turn, Admit(t) PROVE BrokerInv'
  BY <1>4, BrokerInvAdmit
<1>5. ASSUME NEW t \in Turn, StageDone(t) PROVE BrokerInv'
  BY <1>5, BrokerInvStutter DEF StageDone, admission, feeds
<1>6. ASSUME NEW t \in Turn, Complete(t) \/ NoSpeech(t) \/ StageFails(t) PROVE BrokerInv'
  <2>1. Running(t) /\ \E outcome, list : Conclude(t, outcome, list)
    BY <1>6 DEF Complete, NoSpeech, StageFails, Running
  <2>. QED
    BY <2>1, BrokerInvConclude
<1>7. ASSUME NEW u \in Subscriber,
             Feed(u) \/ Leave(u) \/ \E s \in Session : Connect(u, s)
      PROVE  BrokerInv'
  BY <1>7, BrokerInvFeed
<1>8. CASE UNCHANGED vars
  BY <1>8, BrokerInvStutter DEF vars, broker, turns, feeds, admission
<1>. QED
  BY <1>1, <1>2, <1>3, <1>4, <1>5, <1>6, <1>7, <1>8 DEF Next, TurnStep

(* A session runs one turn at a time, and the broker's admissions are those *)
(* of the running turns: none is lost and none is left behind.              *)
THEOREM OneTurnPerSession == Spec => []TurnsExclusive
<1>1. BrokerInv => TurnsExclusive
  BY DEF BrokerInv
<1>. QED
  BY <1>1, BrokerInvInit, BrokerInvNext, PTL DEF Spec

(* Eviction never takes a session with a running turn or a registered       *)
(* subscriber.                                                              *)
THEOREM SessionsInUseKept == Spec => []InUseKept
<1>1. BrokerInv => InUseKept
  BY DEF BrokerInv
<1>. QED
  BY <1>1, BrokerInvInit, BrokerInvNext, PTL DEF Spec

-----------------------------------------------------------------------------
(* Events and their numbers *)

Types == {"session.created", "realtime.event", "pipeline.started", "stage.started",
          "stage.completed", "stage.failed", "pipeline.completed", "pipeline.failed"}
(* The stages an event can be about, and "" for none. *)
Names == {"", "vad", "asr", "correction", "endpoint", "agent", "tts"}

(* Events as they are kept, and as they are published, still without a     *)
(* number.                                                                 *)
Record == [number : Nat, type : Types, stage : Names]
Draft == [type : Types, stage : Names]

(* What is published has one event or two. *)
LEMMA ShortLists ==
  ASSUME NEW S, NEW x \in S, NEW y \in S
  PROVE  /\ <<x>> \in Seq(S) /\ <<x>> # <<>> /\ Len(<<x>>) = 1 /\ <<x>>[1] = x
         /\ <<x, y>> \in Seq(S) /\ <<x, y>> # <<>> /\ Len(<<x, y>>) = 2
         /\ <<x, y>>[1] = x /\ <<x, y>>[2] = y
  OBVIOUS

(* The events of q are numbered one after the other, and n was the last. *)
RunsTo(q, n) ==
  /\ q \in Seq(Record)
  /\ \A i \in 1..Len(q) : q[i].number = n - Len(q) + i

(* What the history and the subscriber queues keep is the end of a sequence. *)
LEMMA LatestIsSuffix ==
  ASSUME NEW S, NEW q \in Seq(S), NEW n \in Nat \ {0}
  PROVE  /\ Latest(q, n) \in Seq(S)
         /\ Len(Latest(q, n)) = IF Len(q) > n THEN n ELSE Len(q)
         /\ \A i \in 1..Len(Latest(q, n)) : Latest(q, n)[i] = q[Len(q) - Len(Latest(q, n)) + i]
<1>. DEFINE m == IF Len(q) > n THEN Len(q) - n + 1 ELSE 1
<1>1. Len(q) \in Nat /\ m \in 1..(Len(q) + 1)
  BY LenProperties
<1>2. m \in Int /\ Len(q) \in Int /\ \A i \in m..Len(q) : q[i] \in S
  BY <1>1, ElementOfSeq
<1>3. /\ SubSeq(q, m, Len(q)) \in Seq(S)
      /\ Len(SubSeq(q, m, Len(q))) = IF m <= Len(q) THEN Len(q) - m + 1 ELSE 0
      /\ \A i \in 1..(Len(q) - m + 1) : SubSeq(q, m, Len(q))[i] = q[m + i - 1]
  <2>. HIDE DEF m
  <2>. QED
    BY <1>2, SubSeqProperties
<1>4. Latest(q, n) = SubSeq(q, m, Len(q))
  BY DEF Latest
<1>5. Len(Latest(q, n)) = IF Len(q) > n THEN n ELSE Len(q)
  <2>1. CASE Len(q) > n
    <3>1. m = Len(q) - n + 1 /\ m <= Len(q) /\ Len(q) - m + 1 = n
      BY <1>1, <2>1
    <3>. HIDE DEF m
    <3>. QED
      BY <1>3, <1>4, <2>1, <3>1
  <2>2. CASE ~(Len(q) > n)
    <3>1. m = 1 /\ (IF m <= Len(q) THEN Len(q) - m + 1 ELSE 0) = Len(q)
      BY <1>1, <2>2
    <3>. HIDE DEF m
    <3>. QED
      BY <1>3, <1>4, <2>2, <3>1
  <2>. QED
    BY <2>1, <2>2
<1>6. ASSUME NEW i \in 1..Len(Latest(q, n))
      PROVE  Latest(q, n)[i] = q[Len(q) - Len(Latest(q, n)) + i]
  <2>1. m + i - 1 = Len(q) - Len(Latest(q, n)) + i /\ i \in 1..(Len(q) - m + 1)
    BY <1>1, <1>5
  <2>. QED
    BY <1>3, <1>4, <2>1
<1>. QED
  BY <1>3, <1>4, <1>5, <1>6

(* Events are numbered from the session's counter on. *)
LEMMA NumberedIsNext ==
  ASSUME NEW s \in Session, sequence[s] \in Nat, NEW list \in Seq(Draft)
  PROVE  /\ Numbered(s, list) \in Seq(Record) /\ Len(Numbered(s, list)) = Len(list)
         /\ \A i \in 1..Len(list) : Numbered(s, list)[i] =
              [number |-> sequence[s] + i, type |-> list[i].type, stage |-> list[i].stage]
<1>1. DOMAIN list = 1..Len(list) /\ Len(list) \in Nat /\ \A i \in 1..Len(list) : list[i] \in Draft
  BY LenProperties, ElementOfSeq
<1>2. Numbered(s, list) \in [1..Len(list) -> Record]
  BY <1>1 DEF Numbered, Draft, Record
<1>. QED
  BY <1>1, <1>2 DEF Numbered

(* A run that is extended with the next numbers, and then cut, is a run. *)
LEMMA RunExtended ==
  ASSUME NEW s \in Session, sequence[s] \in Nat, NEW list \in Seq(Draft), NEW q,
         RunsTo(q, sequence[s]), NEW size \in Nat \ {0}
  PROVE  /\ RunsTo(q \o Numbered(s, list), sequence[s] + Len(list))
         /\ RunsTo(Latest(q \o Numbered(s, list), size), sequence[s] + Len(list))
         /\ Len(q \o Numbered(s, list)) = Len(q) + Len(list)
<1>. DEFINE new == Numbered(s, list)
            n == sequence[s]
            c == q \o new
            d == Latest(c, size)
<1>1. /\ new \in Seq(Record) /\ Len(new) = Len(list) /\ Len(list) \in Nat
      /\ \A i \in 1..Len(list) : new[i].number = n + i
  <2>1. /\ new \in Seq(Record) /\ Len(new) = Len(list)
        /\ \A i \in 1..Len(list) : new[i] =
              [number |-> sequence[s] + i, type |-> list[i].type, stage |-> list[i].stage]
    BY NumberedIsNext
  <2>2. ASSUME NEW i \in 1..Len(list) PROVE new[i].number = n + i
    <3>1. new[i] = [number |-> n + i, type |-> list[i].type, stage |-> list[i].stage]
      BY <2>1
    <3>. QED
      BY <3>1
  <2>. QED
    BY <2>1, <2>2, LenProperties
<1>2. q \in Seq(Record) /\ Len(q) \in Nat /\ \A i \in 1..Len(q) : q[i].number = n - Len(q) + i
  BY LenProperties DEF RunsTo
<1>. HIDE DEF new, n
<1>3. /\ c \in Seq(Record) /\ Len(c) = Len(q) + Len(list)
      /\ \A i \in 1..(Len(q) + Len(list)) : c[i] = IF i <= Len(q) THEN q[i] ELSE new[i - Len(q)]
  <2>1. /\ c \in Seq(Record) /\ Len(c) = Len(q) + Len(new)
        /\ \A i \in 1..(Len(q) + Len(new)) : c[i] = IF i <= Len(q) THEN q[i] ELSE new[i - Len(q)]
    BY <1>1, <1>2, ConcatProperties
  <2>. QED
    BY <1>1, <2>1
<1>4. n \in Nat
  BY DEF n
<1>5. \A i \in 1..Len(c) : c[i].number = n + Len(list) - Len(c) + i
  BY <1>1, <1>2, <1>3, <1>4
<1>. HIDE DEF c
<1>6. /\ d \in Seq(Record) /\ Len(d) = IF Len(c) > size THEN size ELSE Len(c)
      /\ \A i \in 1..Len(d) : d[i] = c[Len(c) - Len(d) + i]
  BY <1>3, LatestIsSuffix
<1>. HIDE DEF d
<1>7. ASSUME NEW i \in 1..Len(d) PROVE d[i].number = n + Len(list) - Len(d) + i
  <2>1. Len(c) \in Nat /\ Len(d) \in Nat /\ Len(d) <= Len(c)
    BY <1>1, <1>2, <1>3, <1>6
  <2>2. Len(c) - Len(d) + i \in 1..Len(c)
    BY <2>1
  <2>3. d[i].number = n + Len(list) - Len(c) + (Len(c) - Len(d) + i)
    BY <1>5, <1>6, <2>2
  <2>. QED
    BY <1>1, <1>4, <2>1, <2>3
<1>8. RunsTo(c, n + Len(list)) /\ RunsTo(d, n + Len(list))
  <2>1. /\ c \in Seq(Record) /\ d \in Seq(Record)
        /\ n \in Nat /\ Len(list) \in Nat /\ Len(c) \in Nat /\ Len(d) \in Nat
    BY <1>1, <1>2, <1>3, <1>4, <1>6
  <2>2. RunsTo(c, n + Len(list))
    BY <1>5, <2>1 DEF RunsTo
  <2>3. RunsTo(d, n + Len(list))
    BY <1>7, <2>1 DEF RunsTo
  <2>. QED
    BY <2>2, <2>3
<1>. QED
  BY <1>3, <1>8 DEF c, d, n, new

-----------------------------------------------------------------------------
(* Histories and subscribers *)

(* The history of a session ends with its newest event, and a session that *)
(* is not known, or not any more, has none.                                *)
HistoryInv ==
  /\ known \subseteq 1..created
  /\ sequence \in [Session -> Nat] /\ events \in [Session -> Seq(Record)]
  /\ \A s \in Session :
       /\ RunsTo(events[s], sequence[s])
       /\ IF s \in known THEN events[s] # <<>> ELSE events[s] = <<>> /\ sequence[s] = 0

(* A subscriber's backlog follows what it was sent, its queue ends with the *)
(* newest event of its session, and the gap between them is what the queue  *)
(* has dropped.                                                             *)
FeedTold(u) ==
  LET n == sequence[subSession[u]]
      replayed == last[u] + Len(backlog[u])
  IN /\ RunsTo(backlog[u], replayed) /\ RunsTo(queue[u], n)
     /\ replayed <= n - Len(queue[u])
     /\ ~dropped[u] \/ queue[u] = <<>> => replayed = n - Len(queue[u])

(* A place that nobody subscribes with has an empty queue. *)
FeedsInv ==
  /\ backlog \in [Subscriber -> Seq(Record)] /\ queue \in [Subscriber -> Seq(Record)]
  /\ last \in [Subscriber -> Int] /\ dropped \in [Subscriber -> BOOLEAN]
  /\ \A u \in Subscriber : IF Subscribed(u) THEN FeedTold(u) ELSE queue[u] = <<>> /\ ~dropped[u]

(* The latest turn event of a history, if it still has one. *)
Closing(q) == {q[i] : i \in {k \in 1..Len(q) : Closes(q, k)}}

(* What the closing event of the history of s says: the stage that the      *)
(* session's turn is in or, when none runs, how the last one ended.         *)
Standing(s, e) ==
  IF s \in activeTurns
  THEN \A t \in Turn : Running(t) /\ turnSession[t] = s =>
         e.type = "stage.started" /\ e.stage = Stages[turnStage[t]]
  ELSE \/ e.type = "session.created"
       \/ e.type = "pipeline.completed" /\ state[s] = "completed"
       \/ e.type = "pipeline.failed" /\ state[s] = "failed"

(* Histories tell stories, and what closes them agrees with the turns and  *)
(* the states of the sessions.                                             *)
StoryInv ==
  /\ state \in [Session -> {"ready", "processing", "failed", "completed"}]
  /\ turnStage \in [Turn -> 0..Len(Stages)]
  /\ \A t \in Turn : Running(t) => turnStage[t] # 0
  /\ \A s \in Session : s \in activeTurns <=> state[s] = "processing"
  /\ \A s \in known : /\ Told(events[s])
                      /\ \A e \in Closing(events[s]) : Standing(s, e)

(* At the start there is nothing to tell. *)
LEMMA HistoryInit == Init => HistoryInv /\ FeedsInv
<1>. SUFFICES ASSUME Init PROVE HistoryInv /\ FeedsInv
  OBVIOUS
<1>1. \A S : <<>> \in Seq(S) /\ Len(<<>>) = 0
  BY EmptySeq
<1>2. HistoryInv
  BY <1>1 DEF Init, HistoryInv, RunsTo
<1>3. FeedsInv
  BY <1>1 DEF Init, FeedsInv, Subscribed
<1>. QED
  BY <1>2, <1>3

(* Publishing extends the history of its session and no other. *)
LEMMA PublishHistory ==
  ASSUME HistoryInv, known \subseteq Session, NEW s \in known,
         NEW list \in Seq(Draft), list # <<>>,
         Publish(s, list), UNCHANGED <<created, known>>
  PROVE  HistoryInv'
<1>1. /\ known \subseteq 1..created /\ s \in Session
      /\ sequence \in [Session -> Nat] /\ events \in [Session -> Seq(Record)]
      /\ \A x \in Session : RunsTo(events[x], sequence[x])
  BY DEF HistoryInv
<1>2. Len(list) \in Nat /\ Len(list) > 0 /\ MaxEvents \in Nat \ {0}
  BY EmptySeq, LenProperties, BrokerAssumption
<1>. DEFINE n == sequence[s] + Len(list)
            h == Latest(events[s] \o Numbered(s, list), MaxEvents)
<1>3. sequence' = [sequence EXCEPT ![s] = n] /\ events' = [events EXCEPT ![s] = h]
  BY DEF Publish
<1>4. /\ sequence[s] \in Nat /\ n \in Nat /\ n > 0 /\ events[s] \in Seq(Record)
      /\ RunsTo(events[s], sequence[s])
  BY <1>1, <1>2
<1>5. /\ RunsTo(events[s] \o Numbered(s, list), n) /\ RunsTo(h, n)
      /\ Len(events[s] \o Numbered(s, list)) = Len(events[s]) + Len(list)
  BY <1>1, <1>2, <1>4, RunExtended
<1>6. h # <<>>
  <2>. DEFINE c == events[s] \o Numbered(s, list)
  <2>1. c \in Seq(Record) /\ Len(c) > 0
    BY <1>2, <1>4, <1>5, LenProperties DEF RunsTo
  <2>. HIDE DEF c
  <2>2. Len(Latest(c, MaxEvents)) > 0
    BY <1>2, <2>1, LatestIsSuffix
  <2>. QED
    BY <2>2, EmptySeq DEF c
<1>. HIDE DEF n, h
<1>7. h \in Seq(Record)
  BY <1>5 DEF RunsTo
<1>8. \A x \in Session : IF x = s THEN sequence'[x] = n /\ events'[x] = h
                         ELSE sequence'[x] = sequence[x] /\ events'[x] = events[x]
  BY <1>1, <1>3
<1>9. sequence' \in [Session -> Nat] /\ events' \in [Session -> Seq(Record)]
  BY <1>1, <1>3, <1>4, <1>7
<1>10. ASSUME NEW x \in Session
       PROVE  /\ RunsTo(events'[x], sequence'[x])
              /\ IF x \in known THEN events'[x] # <<>>
                 ELSE events'[x] = <<>> /\ sequence'[x] = 0
  BY <1>1, <1>5, <1>6, <1>8 DEF HistoryInv
<1>. QED
  BY <1>1, <1>9, <1>10 DEF HistoryInv

(* A subscriber of the session gets the new events; a queue that cannot     *)
(* hold them drops its oldest and says so.                                  *)
LEMMA PublishQueue ==
  ASSUME HistoryInv, known \subseteq Session, FeedsInv, NEW s \in known,
         NEW list \in Seq(Draft), list # <<>>,
         Publish(s, list), UNCHANGED feeds, NEW u \in Subscriber,
         u \in Subscribers(s)
  PROVE  FeedTold(u)' /\ queue'[u] \in Seq(Record) /\ dropped'[u] \in BOOLEAN
<1>. DEFINE n == sequence[s] 
            k == Len(list)
            c == queue[u] \o Numbered(s, list)
            q == Latest(c, QueueSize)
            r == last[u] + Len(backlog[u])
<1>1. /\ s \in Session /\ n \in Nat /\ QueueSize \in Nat \ {0}
      /\ k \in Nat /\ k > 0
  BY EmptySeq, LenProperties, BrokerAssumption DEF HistoryInv
<1>2. Subscribed(u) /\ subSession[u] = s /\ FeedTold(u)
  BY DEF Subscribers, FeedsInv
<1>3. /\ RunsTo(backlog[u], r) /\ RunsTo(queue[u], n) /\ r <= n - Len(queue[u])
      /\ ~dropped[u] \/ queue[u] = <<>> => r = n - Len(queue[u])
  BY <1>2 DEF FeedTold
<1>4. /\ queue[u] \in Seq(Record) /\ Len(queue[u]) \in Nat
      /\ backlog[u] \in Seq(Record) /\ Len(backlog[u]) \in Nat
      /\ last[u] \in Int /\ r \in Int /\ dropped[u] \in BOOLEAN
  BY LenProperties DEF FeedsInv
<1>5. RunsTo(c, n + k) /\ RunsTo(q, n + k) /\ Len(c) = Len(queue[u]) + k
  BY <1>1, <1>3, RunExtended
<1>6. c \in Seq(Record) /\ q \in Seq(Record)
  BY <1>5 DEF RunsTo
<1>7. Len(q) = IF Len(c) > QueueSize THEN QueueSize ELSE Len(c)
  <2>. HIDE DEF c
  <2>. QED
    BY <1>1, <1>6, LatestIsSuffix
<1>8. /\ sequence'[s] = n + k /\ queue'[u] = q
      /\ dropped'[u] <=> dropped[u] \/ Len(queue[u]) + k > QueueSize
      /\ dropped'[u] \in BOOLEAN
  <2>1. sequence' = [sequence EXCEPT ![s] = n + k] /\ sequence \in [Session -> Nat]
    BY DEF Publish, HistoryInv
  <2>2. queue'[u] = q
    BY DEF Publish
  <2>3. dropped'[u] = (dropped[u] \/ (u \in Subscribers(s) /\ Len(queue[u]) + k > QueueSize))
    BY DEF Publish
  <2>. QED
    BY <1>1, <2>1, <2>2, <2>3
<1>9. UNCHANGED <<subPc, subSession, backlog, last>>
  BY DEF feeds
<1>. HIDE DEF c, q, n, k, r
<1>10. q # <<>> /\ Len(q) > 0 /\ Len(q) \in Nat
  <2>1. Len(q) > 0 /\ Len(q) \in Nat
    BY <1>1, <1>4, <1>5, <1>7
  <2>. QED
    BY <2>1, EmptySeq
<1>11. r <= n + k - Len(q)
  BY <1>1, <1>3, <1>4, <1>5, <1>7
<1>12. ~dropped'[u] => r = n + k - Len(q)
  <2>1. SUFFICES ASSUME ~dropped'[u] PROVE r = n + k - Len(q)
    OBVIOUS
  <2>2. ~dropped[u] /\ ~(Len(queue[u]) + k > QueueSize)
    BY <1>8, <2>1
  <2>3. Len(q) = Len(queue[u]) + k
    BY <1>1, <1>4, <1>5, <1>7, <2>2
  <2>4. r = n - Len(queue[u])
    BY <1>3, <2>2
  <2>. QED
    BY <1>1, <1>4, <2>3, <2>4
<1>13. FeedTold(u)'
  <2>1. /\ backlog'[u] = backlog[u] /\ last'[u] + Len(backlog'[u]) = r
        /\ sequence'[subSession'[u]] = n + k /\ queue'[u] = q
    BY <1>2, <1>8, <1>9 DEF r
  <2>2. RunsTo(backlog'[u], last'[u] + Len(backlog'[u]))
    BY <1>3, <2>1
  <2>3. RunsTo(queue'[u], sequence'[subSession'[u]])
    BY <1>5, <2>1
  <2>4. last'[u] + Len(backlog'[u]) <= sequence'[subSession'[u]] - Len(queue'[u])
    BY <1>1, <1>4, <1>10, <1>11, <2>1
  <2>5. ASSUME ~dropped'[u] \/ queue'[u] = <<>>
        PROVE  last'[u] + Len(backlog'[u]) = sequence'[subSession'[u]] - Len(queue'[u])
    <3>1. r = n + k - Len(q)
      BY <1>10, <1>12, <2>1, <2>5
    <3>. QED
      BY <1>1, <1>4, <1>10, <2>1, <3>1
  <2>. QED
    BY <2>2, <2>3, <2>4, <2>5 DEF FeedTold
<1>. QED
  BY <1>6, <1>8, <1>13

(* A subscriber none of whose variables changes, nor the events of its      *)
(* session, keeps its feed.                                                 *)
LEMMA FeedKept ==
  ASSUME FeedsInv, NEW u \in Subscriber,
         UNCHANGED <<subPc[u], subSession[u], backlog[u], last[u], queue[u], dropped[u]>>,
         Subscribed(u) => sequence'[subSession[u]] = sequence[subSession[u]]
  PROVE  IF Subscribed(u)' THEN FeedTold(u)' ELSE queue'[u] = <<>> /\ ~dropped'[u]
<1>1. Subscribed(u)' <=> Subscribed(u)
  BY DEF Subscribed
<1>2. CASE Subscribed(u)
  <2>1. FeedTold(u) /\ sequence'[subSession'[u]] = sequence[subSession[u]]
    BY <1>2 DEF FeedsInv
  <2>. QED
    BY <1>1, <1>2, <2>1 DEF FeedTold
<1>3. CASE ~Subscribed(u)
  BY <1>1, <1>3 DEF FeedsInv
<1>. QED
  BY <1>2, <1>3, <1>1

(* Publishing reaches the subscribers of the session, and no others. *)
LEMMA PublishFeeds ==
  ASSUME HistoryInv, known \subseteq Session, InUseKept, FeedsInv, NEW s \in known,
         NEW list \in Seq(Draft), list # <<>>,
         Publish(s, list), UNCHANGED feeds
  PROVE  FeedsInv'
<1>1. UNCHANGED <<subPc, subSession, backlog, last>>
  BY DEF feeds
<1>2. ASSUME NEW u \in Subscriber
      PROVE  /\ queue'[u] \in Seq(Record) /\ dropped'[u] \in BOOLEAN
             /\ IF Subscribed(u)' THEN FeedTold(u)' ELSE queue'[u] = <<>> /\ ~dropped'[u]
  <2>1. CASE u \in Subscribers(s)
    <3>1. FeedTold(u)' /\ queue'[u] \in Seq(Record) /\ dropped'[u] \in BOOLEAN
      BY <2>1, PublishQueue
    <3>2. Subscribed(u)'
      BY <1>1, <2>1 DEF Subscribers, Subscribed
    <3>. QED
      BY <3>1, <3>2
  <2>2. CASE u \notin Subscribers(s)
    <3>1. queue'[u] = queue[u] /\ dropped'[u] = dropped[u] /\ queue[u] \in Seq(Record)
          /\ dropped[u] \in BOOLEAN
      BY <2>2 DEF Publish, FeedsInv
    <3>2. Subscribed(u) => sequence'[subSession[u]] = sequence[subSession[u]]
      BY <2>2 DEF Publish, HistoryInv, InUseKept, Subscribers
    <3>. QED
      BY <1>1, <3>1, <3>2, FeedKept
  <2>. QED
    BY <2>1, <2>2
<1>3. queue' \in [Subscriber -> Seq(Record)] /\ dropped' \in [Subscriber -> BOOLEAN]
  <2>1. DOMAIN queue' = Subscriber /\ queue' = [u \in Subscriber |-> queue'[u]]
    BY DEF Publish
  <2>2. dropped' = [u \in Subscriber |-> dropped'[u]]
    BY DEF Publish
  <2>. QED
    BY <1>2, <2>1, <2>2
<1>4. backlog' \in [Subscriber -> Seq(Record)] /\ last' \in [Subscriber -> Int]
  BY <1>1 DEF FeedsInv
<1>. QED
  BY <1>2, <1>3, <1>4 DEF FeedsInv

(* A new session has one event; an evicted one leaves nothing behind.       *)
LEMMA InsertHistory ==
  ASSUME BrokerInv, HistoryInv, FeedsInv, created < MaxCreated,
         NEW old \in SUBSET Removable, Insert(old)
  PROVE  HistoryInv' /\ FeedsInv'
<1>. DEFINE e == <<Event("session.created", "")>>
<1>1. PICK c : c = created'
  OBVIOUS
<1>2. /\ c = created + 1 /\ c \in Session /\ c \notin known /\ created \in Nat
      /\ known \subseteq 1..created /\ known \subseteq Session
  <2>1. created \in 0..MaxCreated /\ MaxCreated \in Nat /\ known \subseteq Session
    BY BrokerAssumption DEF BrokerInv, AdmissionType
  <2>2. c = created + 1 /\ known \subseteq 1..created
    BY <1>1 DEF Insert, HistoryInv
  <2>. QED
    BY <2>1, <2>2 DEF Session
<1>3. sequence[c] = 0 /\ sequence[c] \in Nat /\ events[c] = <<>>
  BY <1>2 DEF HistoryInv
<1>. HIDE DEF e
<1>4. e \in Seq(Draft) /\ Len(e) = 1
  <2>1. Event("session.created", "") \in Draft
    BY DEF Event, Draft, Types, Names
  <2>. QED
    BY <2>1, ShortLists DEF e
<1>5. /\ Numbered(c, e) \in Seq(Record) /\ Len(Numbered(c, e)) = 1
      /\ Numbered(c, e)[1].number = 1
  <2>1. /\ Numbered(c, e) \in Seq(Record) /\ Len(Numbered(c, e)) = Len(e)
        /\ \A i \in 1..Len(e) : Numbered(c, e)[i] =
             [number |-> sequence[c] + i, type |-> e[i].type, stage |-> e[i].stage]
    BY <1>2, <1>3, <1>4, NumberedIsNext
  <2>2. Numbered(c, e)[1] = [number |-> sequence[c] + 1, type |-> e[1].type, stage |-> e[1].stage]
    BY <1>4, <2>1
  <2>. QED
    BY <1>3, <1>4, <2>1, <2>2
<1>. DEFINE h == Numbered(c, e)
<1>6. h # <<>> /\ RunsTo(h, 1)
  <2>. HIDE DEF h
  <2>1. h \in Seq(Record) /\ Len(h) = 1 /\ h[1].number = 1
    BY <1>5 DEF h
  <2>2. h # <<>>
    BY <2>1
  <2>3. \A i \in 1..Len(h) : h[i].number = 1 - Len(h) + i
    BY <2>1
  <2>. QED
    BY <2>1, <2>2, <2>3 DEF RunsTo
<1>7. /\ known' = (known \ old) \cup {c} /\ created' = c
      /\ sequence' = [s \in Session |-> IF s \in old THEN 0
                                        ELSE IF s = c THEN 1 ELSE sequence[s]]
      /\ events' = [s \in Session |-> IF s \in old THEN <<>>
                                      ELSE IF s = c THEN h ELSE events[s]]
      /\ UNCHANGED <<subPc, subSession, backlog, last, queue, dropped>>
  BY <1>1 DEF Insert, e, feeds
<1>8. old \subseteq known /\ c \notin old
  BY <1>2 DEF Removable
<1>9. HistoryInv'
  <2>. HIDE DEF h
  <2>1. h \in Seq(Record) /\ <<>> \in Seq(Record) /\ RunsTo(<<>>, 0)
    BY <1>6, EmptySeq DEF RunsTo
  <2>2. known' \subseteq 1..created'
    <3>1. c \in 1..c /\ 1..created \subseteq 1..c
      BY <1>2
    <3>. QED
      BY <1>2, <1>7, <3>1
  <2>3. sequence' \in [Session -> Nat] /\ events' \in [Session -> Seq(Record)]
    BY <1>7, <2>1 DEF HistoryInv
  <2>4. ASSUME NEW s \in Session
        PROVE  /\ RunsTo(events'[s], sequence'[s])
               /\ IF s \in known' THEN events'[s] # <<>>
                  ELSE events'[s] = <<>> /\ sequence'[s] = 0
    <3>1. CASE s \in old
      BY <1>7, <1>8, <2>1, <3>1
    <3>2. CASE s = c
      BY <1>6, <1>7, <1>8, <3>2
    <3>3. CASE s \notin old /\ s # c
      <4>1. events'[s] = events[s] /\ sequence'[s] = sequence[s] /\ (s \in known' <=> s \in known)
        BY <1>7, <3>3
      <4>. QED
        BY <4>1 DEF HistoryInv
    <3>. QED
      BY <3>1, <3>2, <3>3
  <2>. QED
    BY <2>2, <2>3, <2>4 DEF HistoryInv
<1>10. FeedsInv'
  <2>1. ASSUME NEW u \in Subscriber
        PROVE  IF Subscribed(u)' THEN FeedTold(u)' ELSE queue'[u] = <<>> /\ ~dropped'[u]
    <3>1. Subscribed(u) => /\ subSession[u] \in known /\ subSession[u] \notin old
      BY DEF BrokerInv, InUseKept, Removable, Subscribers
    <3>2. Subscribed(u) => sequence'[subSession[u]] = sequence[subSession[u]]
      BY <1>2, <1>7, <3>1
    <3>. QED
      BY <1>7, <3>2, FeedKept
  <2>. QED
    BY <1>7, <2>1 DEF FeedsInv
<1>. QED
  BY <1>9, <1>10

(* What is left of a run after its first event is a run. *)
LEMMA RunTail ==
  ASSUME NEW q, NEW n \in Int, RunsTo(q, n), q # <<>>
  PROVE  /\ RunsTo(Tail(q), n) /\ Len(Tail(q)) = Len(q) - 1 /\ Len(q) \in Nat
         /\ Head(q).number = n - Len(q) + 1
<1>1. /\ q \in Seq(Record) /\ Len(q) \in Nat /\ Len(q) > 0
      /\ \A i \in 1..Len(q) : q[i].number = n - Len(q) + i
  BY EmptySeq, LenProperties DEF RunsTo
<1>2. /\ Tail(q) \in Seq(Record) /\ Len(Tail(q)) = Len(q) - 1 /\ Head(q) = q[1]
      /\ \A i \in 1..Len(Tail(q)) : Tail(q)[i] = q[i + 1]
  BY HeadTailProperties DEF RunsTo
<1>3. ASSUME NEW i \in 1..Len(Tail(q))
      PROVE  Tail(q)[i].number = n - Len(Tail(q)) + i
  <2>1. i + 1 \in 1..Len(q)
    BY <1>1, <1>2
  <2>2. q[i + 1].number = n - Len(q) + (i + 1)
    BY <1>1, <2>1
  <2>. QED
    BY <1>1, <1>2, <2>2
<1>. QED
  BY <1>1, <1>2, <1>3 DEF RunsTo

(* A step of one subscriber, from what it leaves to that subscriber. *)
LEMMA FeedChanged ==
  ASSUME BrokerInv, FeedsInv, UNCHANGED sequence, NEW u \in Subscriber,
         NEW stage, NEW s, NEW b \in Seq(Record), NEW l \in Int,
         NEW q \in Seq(Record), NEW d \in BOOLEAN,
         subPc' = [subPc EXCEPT ![u] = stage], subSession' = [subSession EXCEPT ![u] = s],
         backlog' = [backlog EXCEPT ![u] = b], last' = [last EXCEPT ![u] = l],
         queue' = [queue EXCEPT ![u] = q], dropped' = [dropped EXCEPT ![u] = d],
         IF stage = "streaming"
         THEN /\ RunsTo(b, l + Len(b)) /\ RunsTo(q, sequence[s])
              /\ l + Len(b) <= sequence[s] - Len(q)
              /\ ~d \/ q = <<>> => l + Len(b) = sequence[s] - Len(q)
         ELSE q = <<>> /\ ~d
  PROVE  FeedsInv'
<1>1. /\ subPc \in [Subscriber -> {"off", "accepting", "streaming"}]
      /\ subSession \in [Subscriber -> Session \cup {None}]
      /\ backlog \in [Subscriber -> Seq(Record)] /\ queue \in [Subscriber -> Seq(Record)]
      /\ last \in [Subscriber -> Int] /\ dropped \in [Subscriber -> BOOLEAN]
  BY DEF BrokerInv, AdmissionType, FeedsInv
<1>2. /\ backlog' \in [Subscriber -> Seq(Record)] /\ queue' \in [Subscriber -> Seq(Record)]
      /\ last' \in [Subscriber -> Int] /\ dropped' \in [Subscriber -> BOOLEAN]
  BY <1>1
<1>3. ASSUME NEW x \in Subscriber
      PROVE  IF Subscribed(x)' THEN FeedTold(x)' ELSE queue'[x] = <<>> /\ ~dropped'[x]
  <2>1. CASE x = u
    <3>1. /\ subPc'[u] = stage /\ subSession'[u] = s /\ backlog'[u] = b /\ last'[u] = l
          /\ queue'[u] = q /\ dropped'[u] = d
      BY <1>1
    <3>2. CASE stage = "streaming"
      <4>1. /\ RunsTo(backlog'[u], last'[u] + Len(backlog'[u]))
            /\ RunsTo(queue'[u], sequence'[subSession'[u]])
        BY <3>1, <3>2
      <4>2. last'[u] + Len(backlog'[u]) <= sequence'[subSession'[u]] - Len(queue'[u])
        BY <3>1, <3>2
      <4>3. ~dropped'[u] \/ queue'[u] = <<>> =>
              last'[u] + Len(backlog'[u]) = sequence'[subSession'[u]] - Len(queue'[u])
        BY <3>1, <3>2
      <4>4. FeedTold(u)'
        BY <4>1, <4>2, <4>3 DEF FeedTold
      <4>. QED
        BY <2>1, <3>1, <3>2, <4>4 DEF Subscribed
    <3>3. CASE stage # "streaming"
      BY <2>1, <3>1, <3>3 DEF Subscribed
    <3>. QED
      BY <3>2, <3>3
  <2>2. CASE x # u
    <3>1. UNCHANGED <<subPc[x], subSession[x], backlog[x], last[x], queue[x], dropped[x]>>
      BY <1>1, <2>2
    <3>. QED
      BY <3>1, FeedKept
  <2>. QED
    BY <2>1, <2>2
<1>. QED
  BY <1>2, <1>3 DEF FeedsInv

(* A subscriber that leaves, or has not started, waits for nothing. *)
LEMMA FeedIdle ==
  ASSUME FeedsInv, UNCHANGED sequence, NEW u \in Subscriber,
         backlog' \in [Subscriber -> Seq(Record)], queue' \in [Subscriber -> Seq(Record)],
         last' \in [Subscriber -> Int], dropped' \in [Subscriber -> BOOLEAN],
         subPc'[u] # "streaming", queue'[u] = <<>>, ~dropped'[u],
         \A x \in Subscriber \ {u} :
           UNCHANGED <<subPc[x], subSession[x], backlog[x], last[x], queue[x], dropped[x]>>
  PROVE  FeedsInv'
<1>1. ASSUME NEW x \in Subscriber
      PROVE  IF Subscribed(x)' THEN FeedTold(x)' ELSE queue'[x] = <<>> /\ ~dropped'[x]
  <2>1. CASE x = u
    BY <2>1 DEF Subscribed
  <2>2. CASE x # u
    BY <2>2, FeedKept
  <2>. QED
    BY <2>1, <2>2
<1>. QED
  BY <1>1 DEF FeedsInv

(* A new subscriber's backlog is the whole history that is kept. *)
LEMMA FeedsSubscribe ==
  ASSUME BrokerInv, HistoryInv, FeedsInv, NEW u \in Subscriber, Subscribe(u)
  PROVE  FeedsInv'
<1>1. PICK s : s = subSession[u]
  OBVIOUS
<1>. DEFINE b == events[s]
            n == sequence[s]
            l == Head(b).number - 1
<1>2. s \in Session /\ b \in Seq(Record) /\ b # <<>> /\ n \in Nat /\ RunsTo(b, n)
  BY <1>1 DEF Subscribe, HistoryInv, BrokerInv, AdmissionType
<1>3. Len(b) \in Nat /\ Len(b) > 0
  BY <1>2, EmptySeq, LenProperties
<1>. HIDE DEF b, n
<1>4. l \in Int /\ l + Len(b) = n
  <2>1. n \in Int
    BY <1>2
  <2>2. Head(b).number = n - Len(b) + 1
    BY <1>2, <2>1, RunTail
  <2>. QED
    BY <1>2, <1>3, <2>2
<1>5. queue[u] = <<>> /\ dropped[u] = FALSE
  BY DEF Subscribe, FeedsInv, Subscribed
<1>6. /\ subPc' = [subPc EXCEPT ![u] = "streaming"]
      /\ subSession' = [subSession EXCEPT ![u] = s]
      /\ backlog' = [backlog EXCEPT ![u] = b] /\ last' = [last EXCEPT ![u] = l]
      /\ queue' = [queue EXCEPT ![u] = <<>>] /\ dropped' = [dropped EXCEPT ![u] = FALSE]
      /\ UNCHANGED sequence
  BY <1>1, <1>5 DEF Subscribe, b, broker, BrokerInv, AdmissionType, FeedsInv
<1>. HIDE DEF l
<1>7. /\ RunsTo(b, l + Len(b)) /\ RunsTo(<<>>, sequence[s])
      /\ l + Len(b) = sequence[s] - Len(<<>>) /\ <<>> \in Seq(Record)
  <2>1. RunsTo(<<>>, n) /\ <<>> \in Seq(Record) /\ Len(<<>>) = 0
    BY EmptySeq DEF RunsTo
  <2>2. RunsTo(b, l + Len(b))
    BY <1>2, <1>4
  <2>. QED
    BY <1>2, <1>4, <2>1, <2>2 DEF n
<1>8. l + Len(b) <= sequence[s] - Len(<<>>)
  BY <1>2, <1>3, <1>4, <1>7
<1>. QED
  BY <1>2, <1>4, <1>6, <1>7, <1>8, FeedChanged

(* What is sent is the next of the backlog, or the head of the queue. *)
LEMMA FeedsSend ==
  ASSUME BrokerInv, HistoryInv, FeedsInv, NEW u \in Subscriber, Send(u)
  PROVE  FeedsInv'
<1>1. PICK s, n, b, q, l, d : /\ s = subSession[u] /\ n = sequence[s] /\ b = backlog[u]
                              /\ q = queue[u] /\ l = last[u] /\ d = dropped[u]
  OBVIOUS
<1>2. /\ subPc[u] = "streaming" /\ FeedTold(u) /\ b \in Seq(Record) /\ q \in Seq(Record)
      /\ l \in Int /\ d \in BOOLEAN
  BY <1>1 DEF Send, FeedsInv, Subscribed
<1>3. n \in Nat /\ Len(b) \in Nat /\ Len(q) \in Nat
  <2>1. s \in Session
    BY <1>1 DEF BrokerInv, InUseKept, AdmissionType, Send
  <2>. QED
    BY <1>1, <1>2, <2>1, LenProperties DEF HistoryInv
<1>4. /\ RunsTo(b, l + Len(b)) /\ RunsTo(q, n) /\ l + Len(b) <= n - Len(q)
      /\ ~d \/ q = <<>> => l + Len(b) = n - Len(q)
  BY <1>1, <1>2 DEF FeedTold
<1>5. /\ subPc' = [subPc EXCEPT ![u] = "streaming"]
      /\ subSession' = [subSession EXCEPT ![u] = s]
      /\ dropped' = [dropped EXCEPT ![u] = d] /\ UNCHANGED sequence
  BY <1>1, <1>2 DEF Send, broker, BrokerInv, AdmissionType, FeedsInv
<1>6. CASE b # <<>> /\ last' = [last EXCEPT ![u] = Head(b).number]
           /\ backlog' = [backlog EXCEPT ![u] = Tail(b)] /\ UNCHANGED queue
  <2>1. /\ RunsTo(Tail(b), l + Len(b)) /\ Len(Tail(b)) = Len(b) - 1
        /\ Head(b).number = l + Len(b) - Len(b) + 1
    BY <1>2, <1>3, <1>4, <1>6, RunTail
  <2>2. PICK c, m : c = Tail(b) /\ m = Head(b).number
    OBVIOUS
  <2>3. /\ c \in Seq(Record) /\ m \in Int /\ m + Len(c) = l + Len(b)
    BY <1>2, <1>3, <2>1, <2>2 DEF RunsTo
  <2>4. /\ RunsTo(c, m + Len(c)) /\ m + Len(c) <= n - Len(q)
        /\ ~d \/ q = <<>> => m + Len(c) = n - Len(q)
    BY <1>4, <2>1, <2>2, <2>3
  <2>5. queue' = [queue EXCEPT ![u] = q]
    BY <1>1, <1>6 DEF FeedsInv
  <2>6. last' = [last EXCEPT ![u] = m] /\ backlog' = [backlog EXCEPT ![u] = c]
    BY <1>6, <2>2
  <2>. QED
    BY <1>1, <1>2, <1>4, <1>5, <2>3, <2>4, <2>5, <2>6, FeedChanged
<1>7. CASE b = <<>> /\ q # <<>> /\ last' = [last EXCEPT ![u] = Head(q).number]
           /\ queue' = [queue EXCEPT ![u] = Tail(q)] /\ UNCHANGED backlog
  <2>1. /\ RunsTo(Tail(q), n) /\ Len(Tail(q)) = Len(q) - 1
        /\ Head(q).number = n - Len(q) + 1
    BY <1>2, <1>3, <1>4, <1>7, RunTail
  <2>2. PICK c, m : c = Tail(q) /\ m = Head(q).number
    OBVIOUS
  <2>3. /\ c \in Seq(Record) /\ m \in Int /\ Len(b) = 0 /\ m + Len(b) = n - Len(c)
    BY <1>2, <1>3, <1>7, <2>1, <2>2, EmptySeq DEF RunsTo
  <2>4. RunsTo(b, m + Len(b)) /\ RunsTo(c, n)
    BY <1>2, <1>7, <2>1, <2>2, <2>3 DEF RunsTo
  <2>5. backlog' = [backlog EXCEPT ![u] = b]
    BY <1>1, <1>7 DEF FeedsInv
  <2>6. last' = [last EXCEPT ![u] = m] /\ queue' = [queue EXCEPT ![u] = c]
    BY <1>7, <2>2
  <2>7. m + Len(b) <= n - Len(c)
    BY <1>3, <2>1, <2>2, <2>3
  <2>. QED
    BY <1>1, <1>2, <1>5, <2>3, <2>4, <2>5, <2>6, <2>7, FeedChanged
<1>. QED
  BY <1>1, <1>6, <1>7 DEF Send

(* Every step of a subscriber keeps the histories and the feeds. *)
LEMMA FeedsStep ==
  ASSUME BrokerInv, HistoryInv, FeedsInv, NEW u \in Subscriber,
         Feed(u) \/ Leave(u) \/ \E s \in Session : Connect(u, s)
  PROVE  HistoryInv' /\ FeedsInv'
<1>1. HistoryInv'
  BY DEF HistoryInv, RunsTo, Feed, Subscribe, SubscribeTooLate, Send, SendFails, Leave,
         Connect, broker
<1>2. <<>> \in Seq(Record)
  BY EmptySeq
<1>3. CASE SubscribeTooLate(u) \/ SendFails(u)
  <2>1. UNCHANGED sequence /\ Unsubscribe(u)
    BY <1>3 DEF SubscribeTooLate, SendFails, broker
  <2>2. /\ backlog' \in [Subscriber -> Seq(Record)] /\ queue' \in [Subscriber -> Seq(Record)]
        /\ last' \in [Subscriber -> Int] /\ dropped' \in [Subscriber -> BOOLEAN]
    BY <1>2, <2>1 DEF Unsubscribe, FeedsInv
  <2>3. subPc'[u] # "streaming" /\ queue'[u] = <<>> /\ ~dropped'[u]
    BY <2>1 DEF Unsubscribe, FeedsInv, BrokerInv, AdmissionType
  <2>4. \A x \in Subscriber \ {u} :
          UNCHANGED <<subPc[x], subSession[x], backlog[x], last[x], queue[x], dropped[x]>>
    BY <2>1 DEF Unsubscribe, FeedsInv, BrokerInv, AdmissionType
  <2>5. FeedsInv'
    BY <2>1, <2>2, <2>3, <2>4, FeedIdle
  <2>. QED
    BY <1>1, <2>5
<1>4. CASE \E s \in Session : Connect(u, s)
  <2>1. PICK s \in Session : Connect(u, s)
    BY <1>4
  <2>2. UNCHANGED <<sequence, backlog, last, queue, dropped>>
    BY <2>1 DEF Connect, broker
  <2>3. subPc'[u] # "streaming" /\ queue'[u] = <<>> /\ ~dropped'[u]
    BY <2>1 DEF Connect, FeedsInv, BrokerInv, AdmissionType, Subscribed
  <2>4. \A x \in Subscriber \ {u} :
          UNCHANGED <<subPc[x], subSession[x], backlog[x], last[x], queue[x], dropped[x]>>
    BY <2>1, <2>2 DEF Connect, BrokerInv, AdmissionType
  <2>5. FeedsInv'
    BY <2>2, <2>3, <2>4, FeedIdle DEF FeedsInv
  <2>. QED
    BY <1>1, <2>5
<1>5. CASE Leave(u)
  <2>1. /\ UNCHANGED <<sequence, subPc, subSession, backlog, last, queue, dropped>>
    BY <1>5 DEF Leave, broker
  <2>2. ASSUME NEW x \in Subscriber
        PROVE  IF Subscribed(x)' THEN FeedTold(x)' ELSE queue'[x] = <<>> /\ ~dropped'[x]
    BY <2>1, FeedKept
  <2>3. /\ backlog' \in [Subscriber -> Seq(Record)] /\ queue' \in [Subscriber -> Seq(Record)]
        /\ last' \in [Subscriber -> Int] /\ dropped' \in [Subscriber -> BOOLEAN]
    BY <2>1 DEF FeedsInv
  <2>. QED
    BY <1>1, <2>2, <2>3 DEF FeedsInv
<1>. QED
  BY <1>1, <1>3, <1>4, <1>5, FeedsSubscribe, FeedsSend DEF Feed

-----------------------------------------------------------------------------
(* The story a history tells *)

(* The latest part of a story is a story, and has no other closing event. *)
LEMMA ToldLatest ==
  ASSUME NEW S, NEW q \in Seq(S), NEW n \in Nat \ {0}, Told(q)
  PROVE  Told(Latest(q, n)) /\ Closing(Latest(q, n)) \subseteq Closing(q)
<1>. DEFINE d == Latest(q, n)
            k == Len(q) - Len(d)
<1>1. /\ Len(q) \in Nat /\ Len(d) \in Nat /\ k \in Nat
      /\ \A i \in 1..Len(d) : d[i] = q[k + i]
  <2>1. /\ Len(q) \in Nat /\ Len(d) = IF Len(q) > n THEN n ELSE Len(q)
        /\ \A i \in 1..Len(d) : d[i] = q[k + i]
    BY LenProperties, LatestIsSuffix
  <2>. HIDE DEF d
  <2>2. Len(q) \in Nat /\ Len(d) \in Nat /\ k \in Nat
    BY <2>1
  <2>. QED
    BY <2>1, <2>2
<1>2. Len(q) = k + Len(d)
  <2>. HIDE DEF d
  <2>. QED
    BY <1>1
<1>. HIDE DEF d, k
<1>3. ASSUME NEW i \in 1..Len(d), NEW j \in 1..Len(d), Succeeds(d, i, j)
      PROVE  Follows(d[i], d[j])
  <2>1. k + i \in 1..Len(q) /\ k + j \in 1..Len(q) /\ d[i] = q[k + i] /\ d[j] = q[k + j]
    BY <1>1, <1>2
  <2>2. ASSUME NEW m \in (k + i + 1)..(k + j - 1) PROVE ~TurnEvent(q[m])
    <3>1. m - k \in (i + 1)..(j - 1) /\ m - k \in 1..Len(d) /\ k + (m - k) = m
      BY <1>1
    <3>2. ~TurnEvent(d[m - k]) /\ d[m - k] = q[k + (m - k)]
      BY <1>1, <1>3, <3>1 DEF Succeeds
    <3>. QED
      BY <3>1, <3>2
  <2>3. k + i < k + j /\ TurnEvent(q[k + i]) /\ TurnEvent(q[k + j])
    BY <1>1, <1>3, <2>1 DEF Succeeds
  <2>4. PICK a, b : a = k + i /\ b = k + j
    OBVIOUS
  <2>5. Succeeds(q, a, b)
    <3>1. a < b /\ TurnEvent(q[a]) /\ TurnEvent(q[b])
      BY <2>3, <2>4
    <3>2. ASSUME NEW m \in (a + 1)..(b - 1) PROVE ~TurnEvent(q[m])
      BY <1>1, <2>2, <2>4
    <3>. QED
      BY <3>1, <3>2 DEF Succeeds
  <2>. QED
    BY <2>1, <2>4, <2>5 DEF Told
<1>4. ASSUME NEW i \in 1..Len(d), Closes(d, i) PROVE d[i] \in Closing(q)
  <2>1. k + i \in 1..Len(q) /\ d[i] = q[k + i]
    BY <1>1, <1>2
  <2>2. ASSUME NEW m \in (k + i + 1)..Len(q) PROVE ~TurnEvent(q[m])
    <3>1. m - k \in (i + 1)..Len(d) /\ m - k \in 1..Len(d) /\ k + (m - k) = m
      BY <1>1, <1>2
    <3>2. ~TurnEvent(d[m - k]) /\ d[m - k] = q[k + (m - k)]
      BY <1>1, <1>4, <3>1 DEF Closes
    <3>. QED
      BY <3>1, <3>2
  <2>3. Closes(q, k + i)
    BY <1>4, <2>1, <2>2 DEF Closes
  <2>. QED
    BY <2>1, <2>3 DEF Closing
<1>. QED
  BY <1>3, <1>4 DEF Told, Closing, d

(* Two events that go on with the story. *)
LEMMA ToldPair ==
  ASSUME NEW S, NEW q \in Seq(S), NEW x \in S, NEW y \in S, Told(q),
         \A e \in Closing(q) : Follows(e, x), Follows(x, y), TurnEvent(x), TurnEvent(y)
  PROVE  Told(q \o <<x, y>>) /\ \A e \in Closing(q \o <<x, y>>) : e = y
<1>. DEFINE c == q \o <<x, y>>
            n == Len(q)
<1>1. /\ n \in Nat /\ Len(c) = n + 2 /\ c[n + 1] = x /\ c[n + 2] = y
      /\ \A i \in 1..n : c[i] = q[i]
  <2>1. /\ <<x, y>> \in Seq(S) /\ Len(<<x, y>>) = 2 /\ <<x, y>>[1] = x /\ <<x, y>>[2] = y
    BY ShortLists
  <2>2. PICK p : p = <<x, y>>
    OBVIOUS
  <2>3. /\ Len(q \o p) = Len(q) + Len(p) /\ Len(q) \in Nat
        /\ \A i \in 1..(Len(q) + Len(p)) :
             (q \o p)[i] = IF i <= Len(q) THEN q[i] ELSE p[i - Len(q)]
    BY <2>1, <2>2, ConcatProperties, LenProperties
  <2>4. Len(p) = 2 /\ p[1] = x /\ p[2] = y /\ c = q \o p
    BY <2>1, <2>2
  <2>. HIDE DEF c
  <2>5. Len(c) = n + 2 /\ \A i \in 1..(n + 2) : c[i] = IF i <= n THEN q[i] ELSE p[i - n]
    BY <2>3, <2>4
  <2>. QED
    BY <2>3, <2>4, <2>5
<1>. HIDE DEF c, n
<1>2. ASSUME NEW i \in 1..Len(c), NEW j \in 1..Len(c), Succeeds(c, i, j)
      PROVE  Follows(c[i], c[j])
  <2>1. i < j /\ \A k \in (i + 1)..(j - 1) : ~TurnEvent(c[k])
    BY <1>2 DEF Succeeds
  <2>2. CASE j <= n
    <3>1. i \in 1..n /\ j \in 1..n
      BY <1>1, <2>1, <2>2
    <3>2. c[i] = q[i] /\ c[j] = q[j] /\ \A k \in (i + 1)..(j - 1) : c[k] = q[k]
      BY <1>1, <3>1
    <3>3. Succeeds(q, i, j)
      BY <1>2, <3>2 DEF Succeeds
    <3>. QED
      BY <3>1, <3>2, <3>3 DEF Told, n
  <2>3. CASE j = n + 1
    <3>1. i \in 1..n /\ c[i] = q[i] /\ c[j] = x
      BY <1>1, <2>1, <2>3
    <3>2. \A k \in (i + 1)..n : k \in (i + 1)..(j - 1) /\ c[k] = q[k]
      BY <1>1, <2>3, <3>1
    <3>3. Closes(q, i)
      BY <1>2, <2>1, <3>1, <3>2 DEF Closes, Succeeds, n
    <3>. QED
      BY <3>1, <3>3 DEF Closing, n
  <2>4. CASE j = n + 2
    <3>1. i = n + 1
      <4>1. SUFFICES ASSUME i # n + 1 PROVE FALSE
        OBVIOUS
      <4>2. n + 1 \in (i + 1)..(j - 1)
        BY <1>1, <2>1, <2>4, <4>1
      <4>. QED
        BY <1>1, <2>1, <4>2
    <3>. QED
      BY <1>1, <2>4, <3>1
  <2>. QED
    BY <1>1, <2>2, <2>3, <2>4
<1>3. ASSUME NEW i \in 1..Len(c), Closes(c, i) PROVE c[i] = y
  <2>1. SUFFICES ASSUME i # n + 2 PROVE FALSE
    BY <1>1
  <2>2. n + 2 \in (i + 1)..Len(c)
    BY <1>1, <2>1
  <2>. QED
    BY <1>1, <1>3, <2>2 DEF Closes
<1>. QED
  BY <1>2, <1>3 DEF Told, Closing, c

(* An event that is none of the turn's. *)
LEMMA ToldAside ==
  ASSUME NEW S, NEW q \in Seq(S), NEW x \in S, Told(q), ~TurnEvent(x)
  PROVE  Told(q \o <<x>>) /\ Closing(q \o <<x>>) \subseteq Closing(q)
<1>. DEFINE c == q \o <<x>>
            n == Len(q)
<1>1. n \in Nat /\ Len(c) = n + 1 /\ c[n + 1] = x /\ \A i \in 1..n : c[i] = q[i]
  <2>1. <<x>> \in Seq(S) /\ Len(<<x>>) = 1 /\ <<x>>[1] = x
    BY ShortLists
  <2>2. PICK p : p = <<x>>
    OBVIOUS
  <2>3. /\ Len(q \o p) = Len(q) + Len(p) /\ Len(q) \in Nat
        /\ \A i \in 1..(Len(q) + Len(p)) :
             (q \o p)[i] = IF i <= Len(q) THEN q[i] ELSE p[i - Len(q)]
    BY <2>1, <2>2, ConcatProperties, LenProperties
  <2>4. Len(p) = 1 /\ p[1] = x /\ c = q \o p
    BY <2>1, <2>2
  <2>. HIDE DEF c
  <2>5. Len(c) = n + 1 /\ \A i \in 1..(n + 1) : c[i] = IF i <= n THEN q[i] ELSE p[i - n]
    BY <2>3, <2>4
  <2>. QED
    BY <2>3, <2>4, <2>5
<1>. HIDE DEF c, n
<1>2. \A i \in 1..Len(c) : TurnEvent(c[i]) => i \in 1..n /\ c[i] = q[i]
  BY <1>1
<1>3. ASSUME NEW i \in 1..Len(c), NEW j \in 1..Len(c), Succeeds(c, i, j)
      PROVE  Follows(c[i], c[j])
  <2>1. i \in 1..n /\ j \in 1..n /\ c[i] = q[i] /\ c[j] = q[j]
    BY <1>2, <1>3 DEF Succeeds
  <2>2. \A k \in (i + 1)..(j - 1) : c[k] = q[k]
    BY <1>1, <2>1
  <2>3. Succeeds(q, i, j)
    BY <1>3, <2>1, <2>2 DEF Succeeds
  <2>. QED
    BY <2>1, <2>3 DEF Told, n
<1>4. ASSUME NEW i \in 1..Len(c), Closes(c, i) PROVE c[i] \in Closing(q)
  <2>1. i \in 1..n /\ c[i] = q[i]
    BY <1>2, <1>4 DEF Closes
  <2>2. \A k \in (i + 1)..n : k \in (i + 1)..Len(c) /\ c[k] = q[k]
    BY <1>1, <2>1
  <2>3. Closes(q, i)
    BY <1>4, <2>1, <2>2 DEF Closes, n
  <2>. QED
    BY <2>1, <2>3 DEF Closing, n
<1>. QED
  BY <1>3, <1>4 DEF Told, Closing, c

(* The stages of a turn, their names and their places. *)
LEMMA StageNames ==
  /\ Len(Stages) = 6 /\ 1 \in 1..Len(Stages)
  /\ \A n \in 1..Len(Stages) : Stages[n] \in Names /\ Position(Stages[n]) = n
  /\ \A n \in 1..Len(Stages) : Blamed(Stages[n]) \subseteq Names
<1>1. Len(Stages) = 6 /\ DOMAIN Stages = 1..6
  BY DEF Stages
<1>2. ASSUME NEW n \in 1..6 PROVE Stages[n] \in Names
  <2>1. n = 1 \/ n = 2 \/ n = 3 \/ n = 4 \/ n = 5 \/ n = 6
    OBVIOUS
  <2>2. /\ Stages[1] = "vad" /\ Stages[2] = "asr" /\ Stages[3] = "correction"
        /\ Stages[4] = "endpoint" /\ Stages[5] = "agent" /\ Stages[6] = "tts"
    BY DEF Stages
  <2>. QED
    BY <2>1, <2>2 DEF Names
<1>3. \A m, n \in 1..6 : Stages[m] = Stages[n] => m = n
  BY DEF Stages
<1>4. ASSUME NEW n \in 1..6 PROVE Position(Stages[n]) = n
  BY <1>1, <1>3 DEF Position
<1>5. \A n \in 1..6 : Blamed(Stages[n]) \subseteq Names
  BY <1>2 DEF Blamed, Names
<1>. QED
  BY <1>1, <1>2, <1>4, <1>5

(* Whether an event follows another is a matter of their types and stages. *)
LEMMA FollowsAlike ==
  ASSUME NEW a, NEW b, NEW c, NEW d, Follows(a, b),
         c.type = a.type, c.stage = a.stage, d.type = b.type, d.stage = b.stage
  PROVE  Follows(c, d)
  BY DEF Follows

(* What a turn publishes goes on with the story and closes it. *)
LEMMA PublishStory ==
  ASSUME HistoryInv, known \subseteq Session, NEW s \in known,
         NEW a \in Draft, NEW b \in Draft, TurnEvent(a), TurnEvent(b),
         Publish(s, <<a, b>>), Told(events[s]), Follows(a, b),
         \A e \in Closing(events[s]) : Follows(e, a)
  PROVE  /\ Told(events'[s])
         /\ \A e \in Closing(events'[s]) : e.type = b.type /\ e.stage = b.stage
         /\ \A x \in Session \ {s} : events'[x] = events[x]
<1>1. /\ s \in Session /\ sequence[s] \in Nat /\ events[s] \in Seq(Record)
      /\ events \in [Session -> Seq(Record)]
  BY DEF HistoryInv
<1>2. PICK list : list = <<a, b>>
  OBVIOUS
<1>3. list \in Seq(Draft) /\ Len(list) = 2 /\ list[1] = a /\ list[2] = b
  BY <1>2, ShortLists
<1>4. PICK x, y : /\ x = [number |-> sequence[s] + 1, type |-> a.type, stage |-> a.stage]
                  /\ y = [number |-> sequence[s] + 2, type |-> b.type, stage |-> b.stage]
  OBVIOUS
<1>5. Numbered(s, list) = <<x, y>>
  <2>1. DOMAIN list = 1..2
    BY <1>3, LenProperties
  <2>. QED
    BY <1>3, <1>4, <2>1 DEF Numbered
<1>6. x \in Record /\ y \in Record
  BY <1>1, <1>4 DEF Draft, Record
<1>7. TurnEvent(x) /\ TurnEvent(y) /\ y.type = b.type /\ y.stage = b.stage
  BY <1>4 DEF TurnEvent
<1>8. Follows(x, y) /\ \A e \in Closing(events[s]) : Follows(e, x)
  <2>1. x.type = a.type /\ x.stage = a.stage
    BY <1>4
  <2>. QED
    BY <1>7, <2>1, FollowsAlike
<1>9. PICK c : c = events[s] \o <<x, y>>
  OBVIOUS
<1>10. Told(c) /\ \A e \in Closing(c) : e = y
  BY <1>1, <1>6, <1>7, <1>8, <1>9, ToldPair
<1>11. c \in Seq(Record)
  BY <1>1, <1>6, <1>9, ShortLists, ConcatProperties
<1>12. Told(Latest(c, MaxEvents)) /\ Closing(Latest(c, MaxEvents)) \subseteq Closing(c)
  <2>1. MaxEvents \in Nat \ {0}
    BY BrokerAssumption
  <2>. QED
    BY <1>10, <1>11, <2>1, ToldLatest
<1>13. events' = [events EXCEPT ![s] = Latest(c, MaxEvents)]
  BY <1>2, <1>5, <1>9 DEF Publish
<1>. QED
  BY <1>1, <1>7, <1>10, <1>12, <1>13

(* What is no turn event leaves the story of the session as it is. *)
LEMMA PublishAside ==
  ASSUME HistoryInv, known \subseteq Session, NEW s \in known,
         NEW a \in Draft, ~TurnEvent(a), Publish(s, <<a>>), Told(events[s])
  PROVE  /\ Told(events'[s]) /\ Closing(events'[s]) \subseteq Closing(events[s])
         /\ \A x \in Session \ {s} : events'[x] = events[x]
<1>1. /\ s \in Session /\ sequence[s] \in Nat /\ events[s] \in Seq(Record)
      /\ events \in [Session -> Seq(Record)]
  BY DEF HistoryInv
<1>2. PICK list : list = <<a>>
  OBVIOUS
<1>3. list \in Seq(Draft) /\ Len(list) = 1 /\ list[1] = a
  BY <1>2, ShortLists
<1>4. PICK x : x = [number |-> sequence[s] + 1, type |-> a.type, stage |-> a.stage]
  OBVIOUS
<1>5. Numbered(s, list) = <<x>>
  <2>1. DOMAIN list = 1..1
    BY <1>3, LenProperties
  <2>. QED
    BY <1>3, <1>4, <2>1 DEF Numbered
<1>6. x \in Record /\ ~TurnEvent(x)
  BY <1>1, <1>4 DEF Draft, Record, TurnEvent
<1>7. PICK c : c = events[s] \o <<x>>
  OBVIOUS
<1>8. Told(c) /\ Closing(c) \subseteq Closing(events[s])
  BY <1>1, <1>6, <1>7, ToldAside
<1>9. c \in Seq(Record)
  BY <1>1, <1>6, <1>7, ShortLists, ConcatProperties
<1>10. Told(Latest(c, MaxEvents)) /\ Closing(Latest(c, MaxEvents)) \subseteq Closing(c)
  <2>1. MaxEvents \in Nat \ {0}
    BY BrokerAssumption
  <2>. QED
    BY <1>8, <1>9, <2>1, ToldLatest
<1>11. events' = [events EXCEPT ![s] = Latest(c, MaxEvents)]
  BY <1>2, <1>5, <1>7 DEF Publish
<1>. QED
  BY <1>1, <1>8, <1>10, <1>11

(* A step of one turn in its session, from what it leaves there. *)
LEMMA StoryStep ==
  ASSUME BrokerInv, StoryInv, NEW t \in Turn, NEW s \in Session,
         s = turnSession[t], UNCHANGED known,
         state' \in [Session -> {"ready", "processing", "failed", "completed"}],
         turnStage' \in [Turn -> 0..Len(Stages)],
         \A x \in Session \ {s} : /\ UNCHANGED <<events[x], state[x]>>
                                  /\ x \in activeTurns' <=> x \in activeTurns,
         \A x \in Turn \ {t} : UNCHANGED <<turnPc[x], turnSession[x], turnStage[x]>>,
         Running(t)' => turnStage'[t] # 0 /\ turnSession'[t] = s,
         s \in activeTurns' <=> state'[s] = "processing",
         Told(events'[s]), \A e \in Closing(events'[s]) : Standing(s, e)'
  PROVE  StoryInv'
<1>1. \A x \in Turn : Running(x)' => turnStage'[x] # 0
  BY DEF StoryInv, Running
<1>2. \A x \in Session : x \in activeTurns' <=> state'[x] = "processing"
  BY DEF StoryInv
<1>3. ASSUME NEW x \in known'
      PROVE  Told(events'[x]) /\ \A e \in Closing(events'[x]) : Standing(x, e)'
  <2>1. CASE x = s
    BY <2>1
  <2>2. CASE x # s
    <3>1. /\ x \in Session /\ x \in known /\ events'[x] = events[x] /\ state'[x] = state[x]
          /\ x \in activeTurns' <=> x \in activeTurns
      BY <2>2 DEF BrokerInv, AdmissionType
    <3>2. \A y \in Turn : Running(y)' /\ turnSession'[y] = x =>
            Running(y) /\ turnSession[y] = x /\ turnStage'[y] = turnStage[y]
      BY <2>2 DEF Running
    <3>3. ASSUME NEW e \in Closing(events'[x]) PROVE Standing(x, e)'
      <4>1. Standing(x, e)
        BY <3>1 DEF StoryInv
      <4>. QED
        BY <3>1, <3>2, <4>1 DEF Standing
    <3>4. Told(events'[x])
      BY <3>1 DEF StoryInv
    <3>. QED
      BY <3>3, <3>4
  <2>. QED
    BY <2>1, <2>2
<1>. QED
  BY <1>1, <1>2, <1>3 DEF StoryInv

(* What the events of a turn's step have in common. *)
LEMMA TurnEvents ==
  ASSUME NEW n \in 1..Len(Stages)
  PROVE  /\ \A type \in Types, stage \in Names :
              /\ Event(type, stage) \in Draft
              /\ Event(type, stage).type = type /\ Event(type, stage).stage = stage
              /\ type # "realtime.event" => TurnEvent(Event(type, stage))
         /\ Stages[n] \in Names /\ "" \in Names
  BY StageNames DEF Event, Draft, TurnEvent, Names

(* A turn that is admitted opens a story, whatever closed the last one. *)
LEMMA StoryAdmit ==
  ASSUME BrokerInv, BrokerInv', HistoryInv, StoryInv, NEW t \in Turn, Admit(t)
  PROVE  StoryInv'
<1>1. PICK s, a, b : /\ s = turnSession[t] /\ a = Event("pipeline.started", "")
                     /\ b = Event("stage.started", Stages[1])
  OBVIOUS
<1>2. /\ s \in known \ activeTurns /\ s \in Session /\ known \subseteq Session
      /\ activeTurns' = activeTurns \cup {s} /\ state' = [state EXCEPT ![s] = "processing"]
      /\ Publish(s, <<a, b>>) /\ turnPc' = [turnPc EXCEPT ![t] = "stage"]
      /\ turnStage' = [turnStage EXCEPT ![t] = 1] /\ UNCHANGED <<known, turnSession>>
  BY <1>1 DEF Admit, BrokerInv, AdmissionType
<1>3. /\ a \in Draft /\ b \in Draft /\ TurnEvent(a) /\ TurnEvent(b)
      /\ a.type = "pipeline.started" /\ b.type = "stage.started" /\ b.stage = Stages[1]
  BY <1>1, StageNames, TurnEvents DEF Types
<1>4. Follows(a, b)
  BY <1>3 DEF Follows
<1>5. Told(events[s]) /\ \A e \in Closing(events[s]) : Follows(e, a)
  BY <1>2, <1>3 DEF StoryInv, Standing, Follows
<1>6. /\ Told(events'[s])
      /\ \A e \in Closing(events'[s]) : e.type = b.type /\ e.stage = b.stage
      /\ \A x \in Session \ {s} : events'[x] = events[x]
  BY <1>2, <1>3, <1>4, <1>5, PublishStory
<1>7. /\ turnPc \in [Turn -> {"off", "reading", "stage"}]
      /\ state \in [Session -> {"ready", "processing", "failed", "completed"}]
      /\ turnStage \in [Turn -> 0..Len(Stages)] /\ 1 \in 0..Len(Stages)
  BY StageNames DEF BrokerInv, AdmissionType, StoryInv
<1>8. s \in activeTurns' /\ state'[s] = "processing" /\ turnStage'[t] = 1
  BY <1>2, <1>7
<1>9. ASSUME NEW e \in Closing(events'[s]) PROVE Standing(s, e)'
  <2>1. \A x \in Turn : Running(x)' /\ turnSession'[x] = s => x = t
    <3>1. Running(t)' /\ turnSession'[t] = s
      BY <1>1, <1>2, <1>7 DEF Running
    <3>. QED
      BY <3>1 DEF BrokerInv, TurnsExclusive
  <2>. QED
    BY <1>3, <1>6, <1>8, <2>1 DEF Standing
<1>10. /\ state' \in [Session -> {"ready", "processing", "failed", "completed"}]
       /\ turnStage' \in [Turn -> 0..Len(Stages)]
       /\ \A x \in Session \ {s} : /\ UNCHANGED <<events[x], state[x]>>
                                   /\ x \in activeTurns' <=> x \in activeTurns
       /\ \A x \in Turn \ {t} : UNCHANGED <<turnPc[x], turnSession[x], turnStage[x]>>
  BY <1>2, <1>6, <1>7
<1>. QED
  <2>1. turnStage'[t] # 0
    BY <1>8
  <2>2. turnSession'[t] = s
    BY <1>1, <1>2
  <2>. QED
    BY <1>1, <1>2, <1>6, <1>8, <1>9, <1>10, <2>1, <2>2, StoryStep

(* A stage that is done is followed by the next. *)
LEMMA StoryStageDone ==
  ASSUME BrokerInv, BrokerInv', HistoryInv, StoryInv, NEW t \in Turn, StageDone(t)
  PROVE  StoryInv'
<1>1. PICK s, n : s = turnSession[t] /\ n = turnStage[t]
  OBVIOUS
<1>2. PICK a, b : /\ a = Event("stage.completed", Stages[n])
                  /\ b = Event("stage.started", Stages[n + 1])
  OBVIOUS
<1>3. /\ n \in 1..Len(Stages) /\ n + 1 \in 1..Len(Stages) /\ turnPc[t] = "stage"
      /\ Running(t)
  <2>1. n \in 0..Len(Stages) /\ n # 0 /\ n < Len(Stages) /\ turnPc[t] = "stage"
    BY <1>1 DEF StageDone, StoryInv, Running
  <2>. QED
    BY <2>1, StageNames DEF Running
<1>4. s \in known /\ s \in activeTurns /\ s \in Session /\ known \subseteq Session
  BY <1>1, <1>3 DEF BrokerInv, TurnsExclusive, InUseKept, AdmissionType
<1>5. /\ Publish(s, <<a, b>>) /\ turnStage' = [turnStage EXCEPT ![t] = n + 1]
      /\ UNCHANGED <<known, activeTurns, state, turnPc, turnSession>>
  BY <1>1, <1>2 DEF StageDone
<1>6. /\ a \in Draft /\ b \in Draft /\ TurnEvent(a) /\ TurnEvent(b)
      /\ a.type = "stage.completed" /\ a.stage = Stages[n]
      /\ b.type = "stage.started" /\ b.stage = Stages[n + 1]
  BY <1>2, <1>3, StageNames, TurnEvents DEF Types
<1>7. Follows(a, b)
  <2>1. Position(b.stage) = Position(a.stage) + 1
    BY <1>3, <1>6, StageNames
  <2>. QED
    BY <1>6, <2>1 DEF Follows
<1>8. Told(events[s]) /\ \A e \in Closing(events[s]) : Follows(e, a)
  <2>1. \A e \in Closing(events[s]) : e.type = "stage.started" /\ e.stage = Stages[n]
    BY <1>1, <1>3, <1>4 DEF StoryInv, Standing
  <2>. QED
    BY <1>4, <1>6, <2>1 DEF StoryInv, Follows
<1>9. /\ Told(events'[s])
      /\ \A e \in Closing(events'[s]) : e.type = b.type /\ e.stage = b.stage
      /\ \A x \in Session \ {s} : events'[x] = events[x]
  BY <1>4, <1>5, <1>6, <1>7, <1>8, PublishStory
<1>10. /\ state \in [Session -> {"ready", "processing", "failed", "completed"}]
       /\ turnStage \in [Turn -> 0..Len(Stages)] /\ n + 1 \in 0..Len(Stages) /\ n + 1 # 0
  BY <1>3, StageNames DEF StoryInv
<1>11. turnStage'[t] = n + 1 /\ s \in activeTurns' /\ state'[s] = "processing"
  BY <1>4, <1>5, <1>10 DEF StoryInv
<1>12. ASSUME NEW e \in Closing(events'[s]) PROVE Standing(s, e)'
  <2>1. \A x \in Turn : Running(x)' /\ turnSession'[x] = s => x = t
    BY <1>1, <1>3, <1>5 DEF BrokerInv, TurnsExclusive, Running
  <2>. QED
    BY <1>6, <1>9, <1>11, <2>1 DEF Standing
<1>13. /\ state' \in [Session -> {"ready", "processing", "failed", "completed"}]
       /\ turnStage' \in [Turn -> 0..Len(Stages)]
       /\ \A x \in Session \ {s} : /\ UNCHANGED <<events[x], state[x]>>
                                   /\ x \in activeTurns' <=> x \in activeTurns
       /\ \A x \in Turn \ {t} : UNCHANGED <<turnPc[x], turnSession[x], turnStage[x]>>
  BY <1>5, <1>9, <1>10
<1>. QED
  BY <1>1, <1>4, <1>5, <1>9, <1>10, <1>11, <1>12, <1>13, StoryStep

(* The end of a turn: its last event names the outcome that the state has. *)
LEMMA StoryConclude ==
  ASSUME BrokerInv, HistoryInv, StoryInv, NEW t \in Turn, Running(t),
         NEW outcome \in {"failed", "completed"}, NEW a \in Draft, NEW b \in Draft,
         TurnEvent(a), TurnEvent(b), Conclude(t, outcome, <<a, b>>), Follows(a, b),
         b.type = IF outcome = "failed" THEN "pipeline.failed" ELSE "pipeline.completed",
         \A e : e.type = "stage.started" /\ e.stage = Stages[turnStage[t]] => Follows(e, a)
  PROVE  StoryInv'
<1>1. PICK s : s = turnSession[t]
  OBVIOUS
<1>2. /\ s \in known /\ s \in activeTurns /\ s \in Session /\ known \subseteq Session
      /\ turnPc \in [Turn -> {"off", "reading", "stage"}]
      /\ turnSession \in [Turn -> Session \cup {None}]
      /\ state \in [Session -> {"ready", "processing", "failed", "completed"}]
      /\ turnStage \in [Turn -> 0..Len(Stages)] /\ 0 \in 0..Len(Stages)
  BY <1>1, StageNames DEF BrokerInv, TurnsExclusive, InUseKept, AdmissionType, StoryInv
<1>3. /\ Publish(s, <<a, b>>) /\ UNCHANGED known
      /\ state' = [state EXCEPT ![s] = outcome] /\ activeTurns' = activeTurns \ {s}
      /\ turnPc' = [turnPc EXCEPT ![t] = "off"]
      /\ turnSession' = [turnSession EXCEPT ![t] = None]
      /\ turnStage' = [turnStage EXCEPT ![t] = 0]
  BY <1>1 DEF Conclude, EndTurn
<1>4. Told(events[s]) /\ \A e \in Closing(events[s]) : Follows(e, a)
  <2>1. \A e \in Closing(events[s]) : e.type = "stage.started" /\ e.stage = Stages[turnStage[t]]
    BY <1>1, <1>2 DEF StoryInv, Standing
  <2>. QED
    BY <1>2, <2>1 DEF StoryInv
<1>5. /\ Told(events'[s])
      /\ \A e \in Closing(events'[s]) : e.type = b.type /\ e.stage = b.stage
      /\ \A x \in Session \ {s} : events'[x] = events[x]
  BY <1>2, <1>3, <1>4, PublishStory
<1>6. s \notin activeTurns' /\ state'[s] = outcome /\ ~Running(t)'
  BY <1>2, <1>3 DEF Running
<1>7. ASSUME NEW e \in Closing(events'[s]) PROVE Standing(s, e)'
  BY <1>5, <1>6 DEF Standing
<1>8. /\ state' \in [Session -> {"ready", "processing", "failed", "completed"}]
      /\ turnStage' \in [Turn -> 0..Len(Stages)]
      /\ \A x \in Session \ {s} : /\ UNCHANGED <<events[x], state[x]>>
                                  /\ x \in activeTurns' <=> x \in activeTurns
      /\ \A x \in Turn \ {t} : UNCHANGED <<turnPc[x], turnSession[x], turnStage[x]>>
  BY <1>2, <1>3, <1>5
<1>. QED
  BY <1>1, <1>2, <1>3, <1>5, <1>6, <1>7, <1>8, StoryStep

(* The three ways a turn ends, as Conclude with two events that go on with  *)
(* the story.                                                               *)
LEMMA TurnEnds ==
  ASSUME StoryInv, NEW t \in Turn, Complete(t) \/ NoSpeech(t) \/ StageFails(t)
  PROVE  /\ Running(t)
         /\ \E outcome \in {"failed", "completed"}, a \in Draft, b \in Draft :
              /\ TurnEvent(a) /\ TurnEvent(b) /\ Conclude(t, outcome, <<a, b>>)
              /\ Follows(a, b)
              /\ b.type = IF outcome = "failed" THEN "pipeline.failed" ELSE "pipeline.completed"
              /\ \A e : e.type = "stage.started" /\ e.stage = Stages[turnStage[t]]
                          => Follows(e, a)
<1>1. PICK n : n = turnStage[t]
  OBVIOUS
<1>2. Running(t) /\ n \in 1..Len(Stages)
  <2>1. Running(t)
    BY DEF Complete, NoSpeech, StageFails, Running
  <2>. QED
    BY <1>1, <2>1, StageNames DEF StoryInv
<1>3. CASE Complete(t)
  <2>1. PICK a, b : /\ a = Event("stage.completed", Stages[n])
                    /\ b = Event("pipeline.completed", "")
    OBVIOUS
  <2>2. /\ a \in Draft /\ b \in Draft /\ TurnEvent(a) /\ TurnEvent(b)
        /\ a.type = "stage.completed" /\ a.stage = Stages[n] /\ b.type = "pipeline.completed"
    BY <1>2, <2>1, TurnEvents DEF Types
  <2>3. n = Len(Stages) /\ Conclude(t, "completed", <<a, b>>)
    BY <1>1, <1>3, <2>1 DEF Complete
  <2>4. Follows(a, b)
    BY <2>2, <2>3 DEF Follows
  <2>5. \A e : e.type = "stage.started" /\ e.stage = Stages[n] => Follows(e, a)
    BY <2>2 DEF Follows
  <2>. QED
    BY <1>1, <1>2, <2>2, <2>3, <2>4, <2>5
<1>4. CASE NoSpeech(t)
  <2>1. PICK a, b : /\ a = Event("stage.completed", Stages[1])
                    /\ b = Event("pipeline.failed", Stages[1])
    OBVIOUS
  <2>2. n = 1 /\ Conclude(t, "failed", <<a, b>>)
    BY <1>1, <1>4, <2>1 DEF NoSpeech
  <2>3. /\ a \in Draft /\ b \in Draft /\ TurnEvent(a) /\ TurnEvent(b)
        /\ a.type = "stage.completed" /\ a.stage = Stages[n] /\ b.type = "pipeline.failed"
    BY <1>2, <2>1, <2>2, TurnEvents DEF Types
  <2>4. Follows(a, b)
    BY <2>2, <2>3 DEF Follows
  <2>5. \A e : e.type = "stage.started" /\ e.stage = Stages[n] => Follows(e, a)
    BY <2>3 DEF Follows
  <2>. QED
    BY <1>1, <1>2, <2>2, <2>3, <2>4, <2>5
<1>5. CASE StageFails(t)
  <2>1. PICK c \in Blamed(Stages[n]) :
          Conclude(t, "failed", <<Event("stage.failed", Stages[n]), Event("pipeline.failed", c)>>)
    BY <1>1, <1>5 DEF StageFails
  <2>2. PICK a, b : a = Event("stage.failed", Stages[n]) /\ b = Event("pipeline.failed", c)
    OBVIOUS
  <2>3. c \in Names
    BY <1>2, <2>1, StageNames
  <2>4. /\ a \in Draft /\ b \in Draft /\ TurnEvent(a) /\ TurnEvent(b)
        /\ a.type = "stage.failed" /\ a.stage = Stages[n]
        /\ b.type = "pipeline.failed" /\ b.stage = c
    BY <1>2, <2>2, <2>3, TurnEvents DEF Types
  <2>5. Follows(a, b)
    BY <2>1, <2>4 DEF Follows
  <2>6. \A e : e.type = "stage.started" /\ e.stage = Stages[n] => Follows(e, a)
    BY <2>4 DEF Follows
  <2>. QED
    BY <1>1, <1>2, <2>1, <2>2, <2>4, <2>5, <2>6
<1>. QED
  BY <1>3, <1>4, <1>5

(* An echo of the realtime stream is no part of a story. *)
LEMMA StoryEcho ==
  ASSUME BrokerInv, HistoryInv, StoryInv, NEW s \in Session, Echo(s)
  PROVE  StoryInv'
<1>1. PICK a : a = Event("realtime.event", "")
  OBVIOUS
<1>2. /\ s \in known /\ known \subseteq Session /\ Publish(s, <<a>>)
      /\ UNCHANGED <<known, activeTurns, state, turnPc, turnSession, turnStage>>
  BY <1>1 DEF Echo, BrokerInv, AdmissionType, turns
<1>3. a \in Draft /\ ~TurnEvent(a)
  BY <1>1 DEF Event, Draft, Types, Names, TurnEvent
<1>4. Told(events[s])
  BY <1>2 DEF StoryInv
<1>5. /\ Told(events'[s]) /\ Closing(events'[s]) \subseteq Closing(events[s])
      /\ \A x \in Session \ {s} : events'[x] = events[x]
  BY <1>2, <1>3, <1>4, PublishAside
<1>6. ASSUME NEW x \in known'
      PROVE  Told(events'[x]) /\ \A e \in Closing(events'[x]) : Standing(x, e)'
  <2>1. x \in known /\ x \in Session
    BY <1>2
  <2>2. Told(events'[x]) /\ Closing(events'[x]) \subseteq Closing(events[x])
    BY <1>5, <2>1 DEF StoryInv
  <2>3. ASSUME NEW e \in Closing(events'[x]) PROVE Standing(x, e)'
    <3>1. Standing(x, e)
      BY <2>1, <2>2 DEF StoryInv
    <3>. QED
      BY <1>2, <3>1 DEF Standing, Running
  <2>. QED
    BY <2>2, <2>3
<1>. QED
  BY <1>2, <1>6 DEF StoryInv, Running

(* A new session has no turn events, and an evicted one no history. *)
LEMMA StoryInsert ==
  ASSUME BrokerInv, HistoryInv, StoryInv, created < MaxCreated,
         NEW old \in SUBSET Removable, Insert(old)
  PROVE  StoryInv'
<1>1. PICK c, a : c = created' /\ a = Event("session.created", "")
  OBVIOUS
<1>2. /\ c = created + 1 /\ c \in Session /\ c \notin known /\ known \subseteq Session
  <2>1. created \in 0..MaxCreated /\ MaxCreated \in Nat /\ known \subseteq Session
    BY BrokerAssumption DEF BrokerInv, AdmissionType
  <2>2. c = created + 1 /\ known \subseteq 1..created
    BY <1>1 DEF Insert, HistoryInv
  <2>. QED
    BY <2>1, <2>2 DEF Session
<1>3. sequence[c] = 0 /\ sequence[c] \in Nat
  BY <1>2 DEF HistoryInv
<1>4. a \in Draft /\ a.type = "session.created"
  BY <1>1 DEF Event, Draft, Types, Names
<1>5. PICK h : h = Numbered(c, <<a>>)
  OBVIOUS
<1>6. Len(h) = 1 /\ h[1].type = "session.created"
  <2>1. PICK list : list = <<a>>
    OBVIOUS
  <2>2. list \in Seq(Draft) /\ Len(list) = 1 /\ list[1] = a
    BY <1>4, <2>1, ShortLists
  <2>3. /\ Len(Numbered(c, list)) = Len(list)
        /\ \A i \in 1..Len(list) : Numbered(c, list)[i] =
             [number |-> sequence[c] + i, type |-> list[i].type, stage |-> list[i].stage]
    BY <1>2, <1>3, <2>2, NumberedIsNext
  <2>4. h[1] = [number |-> sequence[c] + 1, type |-> a.type, stage |-> a.stage]
    BY <1>5, <2>1, <2>2, <2>3
  <2>. QED
    BY <1>4, <1>5, <2>1, <2>2, <2>3, <2>4
<1>7. Told(h) /\ \A e \in Closing(h) : e.type = "session.created"
  BY <1>6 DEF Told, Succeeds, Closing
<1>8. /\ known' = (known \ old) \cup {c}
      /\ state' = [s \in Session |-> IF s \in old THEN "ready" ELSE state[s]]
      /\ events' = [s \in Session |-> IF s \in old THEN <<>>
                                      ELSE IF s = c THEN h ELSE events[s]]
      /\ UNCHANGED <<activeTurns, turnPc, turnSession, turnStage>>
  BY <1>1, <1>5 DEF Insert, turns
<1>9. old \subseteq known \ activeTurns /\ c \notin old
  BY <1>2 DEF Removable
<1>10. c \notin activeTurns
  BY <1>2 DEF BrokerInv, InUseKept
<1>11. ASSUME NEW x \in Session PROVE x \in activeTurns' <=> state'[x] = "processing"
  BY <1>8, <1>9 DEF StoryInv
<1>12. ASSUME NEW x \in known'
       PROVE  Told(events'[x]) /\ \A e \in Closing(events'[x]) : Standing(x, e)'
  <2>1. CASE x = c
    <3>1. events'[c] = h /\ c \notin activeTurns'
      BY <1>2, <1>8, <1>9, <1>10
    <3>2. ASSUME NEW e \in Closing(events'[c]) PROVE Standing(c, e)'
      BY <1>7, <3>1 DEF Standing
    <3>. QED
      BY <1>7, <2>1, <3>1, <3>2
  <2>2. CASE x # c
    <3>1. x \in known /\ x \in Session /\ events'[x] = events[x] /\ state'[x] = state[x]
      BY <1>2, <1>8, <2>2
    <3>2. ASSUME NEW e \in Closing(events'[x]) PROVE Standing(x, e)'
      <4>1. Standing(x, e)
        BY <3>1 DEF StoryInv
      <4>. QED
        BY <1>8, <3>1, <4>1 DEF Standing, Running
    <3>. QED
      BY <3>1, <3>2 DEF StoryInv
  <2>. QED
    BY <2>1, <2>2
<1>13. state' \in [Session -> {"ready", "processing", "failed", "completed"}]
  BY <1>8 DEF StoryInv
<1>. QED
  BY <1>8, <1>11, <1>12, <1>13 DEF StoryInv, Running

(* Requests and subscribers leave the histories alone. *)
LEMMA StoryStutter ==
  ASSUME StoryInv, UNCHANGED <<known, activeTurns, state, events>>,
         turnStage' \in [Turn -> 0..Len(Stages)],
         \A x \in Turn : Running(x)' => /\ Running(x) /\ turnStage'[x] = turnStage[x]
                                        /\ turnSession'[x] = turnSession[x]
  PROVE  StoryInv'
<1>1. ASSUME NEW x \in known'
      PROVE  Told(events'[x]) /\ \A e \in Closing(events'[x]) : Standing(x, e)'
  <2>1. ASSUME NEW e \in Closing(events'[x]) PROVE Standing(x, e)'
    <3>1. Standing(x, e)
      BY DEF StoryInv
    <3>. QED
      BY <3>1 DEF Standing
  <2>. QED
    BY <2>1 DEF StoryInv
<1>2. ASSUME NEW x \in Turn, Running(x)' PROVE turnStage'[x] # 0
  BY <1>2 DEF StoryInv
<1>. QED
  BY <1>1, <1>2 DEF StoryInv

-----------------------------------------------------------------------------
(* The invariant of histories, feeds and stories *)

EventsInv == BrokerInv /\ HistoryInv /\ FeedsInv /\ StoryInv

(* The invariant holds at the start. *)
LEMMA EventsInit == Init => EventsInv
<1>. SUFFICES ASSUME Init PROVE EventsInv
  OBVIOUS
<1>1. 0 \in 0..Len(Stages)
  BY StageNames
<1>2. StoryInv
  BY <1>1 DEF Init, StoryInv, Running
<1>. QED
  BY <1>2, BrokerInvInit, HistoryInit DEF EventsInv

(* Publishing keeps histories and feeds. *)
LEMMA EventsPublished ==
  ASSUME EventsInv, NEW s \in known, NEW list \in Seq(Draft), list # <<>>,
         Publish(s, list), UNCHANGED <<created, known, feeds>>
  PROVE  HistoryInv' /\ FeedsInv'
<1>1. known \subseteq Session /\ InUseKept
  BY DEF EventsInv, BrokerInv, AdmissionType
<1>. QED
  BY <1>1, PublishHistory, PublishFeeds DEF EventsInv

(* Every step of an admitted turn publishes something in a known session.  *)
LEMMA TurnPublishes ==
  ASSUME EventsInv, NEW t \in Turn, TurnStep(t), ~Refuse(t)
  PROVE  \E s \in known, list \in Seq(Draft) :
           list # <<>> /\ Publish(s, list) /\ UNCHANGED <<created, known, feeds, posts, echoes>>
<1>1. CASE Admit(t)
  <2>1. PICK a, b : a = Event("pipeline.started", "") /\ b = Event("stage.started", Stages[1])
    OBVIOUS
  <2>2. a \in Draft /\ b \in Draft
    BY <2>1, StageNames, TurnEvents DEF Types
  <2>3. PICK s, list : s = turnSession[t] /\ list = <<a, b>>
    OBVIOUS
  <2>4. s \in known /\ Publish(s, list) /\ UNCHANGED <<created, known, feeds, posts, echoes>>
    BY <1>1, <2>1, <2>3 DEF Admit
  <2>5. list \in Seq(Draft) /\ list # <<>>
    BY <2>2, <2>3, ShortLists
  <2>. QED
    BY <2>4, <2>5
<1>2. CASE StageDone(t)
  <2>1. PICK n : n = turnStage[t]
    OBVIOUS
  <2>2. Running(t) /\ n \in 1..Len(Stages) /\ n + 1 \in 1..Len(Stages)
    <3>1. Running(t) /\ n \in 0..Len(Stages) /\ n # 0 /\ n < Len(Stages)
      BY <1>2, <2>1 DEF StageDone, Running, EventsInv, StoryInv
    <3>. QED
      BY <3>1, StageNames
  <2>3. PICK a, b : /\ a = Event("stage.completed", Stages[n])
                    /\ b = Event("stage.started", Stages[n + 1])
    OBVIOUS
  <2>4. a \in Draft /\ b \in Draft
    BY <2>2, <2>3, StageNames, TurnEvents DEF Types
  <2>5. PICK s, list : s = turnSession[t] /\ list = <<a, b>>
    OBVIOUS
  <2>6. s \in known
    BY <2>2, <2>5 DEF EventsInv, BrokerInv, TurnsExclusive, InUseKept
  <2>7. Publish(s, list) /\ UNCHANGED <<created, known, feeds, posts, echoes>>
    BY <1>2, <2>1, <2>3, <2>5 DEF StageDone
  <2>8. list \in Seq(Draft) /\ list # <<>>
    BY <2>4, <2>5, ShortLists
  <2>. QED
    BY <2>6, <2>7, <2>8
<1>3. CASE Complete(t) \/ NoSpeech(t) \/ StageFails(t)
  <2>1. StoryInv
    BY DEF EventsInv
  <2>2. Running(t)
    BY <1>3, <2>1, TurnEnds
  <2>3. PICK outcome \in {"failed", "completed"}, a \in Draft, b \in Draft :
          Conclude(t, outcome, <<a, b>>)
    BY <1>3, <2>1, TurnEnds
  <2>4. PICK s, list : s = turnSession[t] /\ list = <<a, b>>
    OBVIOUS
  <2>5. s \in known
    BY <2>2, <2>4 DEF EventsInv, BrokerInv, TurnsExclusive, InUseKept
  <2>6. Publish(s, list) /\ UNCHANGED <<created, known, feeds, posts, echoes>>
    BY <2>3, <2>4 DEF Conclude
  <2>7. list \in Seq(Draft) /\ list # <<>>
    BY <2>4, ShortLists
  <2>. QED
    BY <2>5, <2>6, <2>7
<1>. QED
  BY <1>1, <1>2, <1>3 DEF TurnStep

(* It keeps the invariant. *)
LEMMA EventsTurn ==
  ASSUME EventsInv, BrokerInv', NEW t \in Turn, TurnStep(t), ~Refuse(t)
  PROVE  EventsInv'
<1>1. HistoryInv' /\ FeedsInv'
  BY TurnPublishes, EventsPublished
<1>2. StoryInv'
  <2>1. CASE Admit(t)
    BY <2>1, StoryAdmit DEF EventsInv
  <2>2. CASE StageDone(t)
    BY <2>2, StoryStageDone DEF EventsInv
  <2>3. CASE Complete(t) \/ NoSpeech(t) \/ StageFails(t)
    <3>1. StoryInv
      BY DEF EventsInv
    <3>2. Running(t)
      BY <2>3, <3>1, TurnEnds
    <3>3. PICK outcome \in {"failed", "completed"}, a \in Draft, b \in Draft :
            /\ TurnEvent(a) /\ TurnEvent(b) /\ Conclude(t, outcome, <<a, b>>)
            /\ Follows(a, b)
            /\ b.type = IF outcome = "failed" THEN "pipeline.failed" ELSE "pipeline.completed"
            /\ \A e : e.type = "stage.started" /\ e.stage = Stages[turnStage[t]]
                        => Follows(e, a)
      BY <2>3, <3>1, TurnEnds
    <3>. QED
      BY <3>2, <3>3, StoryConclude DEF EventsInv
  <2>. QED
    BY <2>1, <2>2, <2>3 DEF TurnStep
<1>. QED
  BY <1>1, <1>2 DEF EventsInv

(* So does an echo. *)
LEMMA EventsEcho ==
  ASSUME EventsInv, BrokerInv', NEW s \in Session, Echo(s)
  PROVE  EventsInv'
<1>1. PICK a, list : a = Event("realtime.event", "") /\ list = <<a>>
  OBVIOUS
<1>2. a \in Draft
  BY <1>1 DEF Event, Draft, Types, Names
<1>3. list \in Seq(Draft) /\ list # <<>>
  BY <1>1, <1>2, ShortLists
<1>4. s \in known /\ Publish(s, list) /\ UNCHANGED <<created, known, feeds>>
  BY <1>1 DEF Echo
<1>5. HistoryInv' /\ FeedsInv'
  BY <1>3, <1>4, EventsPublished
<1>. QED
  BY <1>5, StoryEcho DEF EventsInv

(* A step that leaves histories and feeds as they are. *)
LEMMA EventsStutter ==
  ASSUME EventsInv, BrokerInv', UNCHANGED <<broker, feeds, queue, dropped>>,
         turnStage' \in [Turn -> 0..Len(Stages)],
         \A x \in Turn : Running(x)' => /\ Running(x) /\ turnStage'[x] = turnStage[x]
                                        /\ turnSession'[x] = turnSession[x]
  PROVE  EventsInv'
<1>1. HistoryInv'
  BY DEF EventsInv, HistoryInv, RunsTo, broker
<1>2. FeedsInv'
  <2>1. UNCHANGED <<sequence, subPc, subSession, backlog, last, queue, dropped>>
    BY DEF broker, feeds
  <2>2. FeedsInv
    BY DEF EventsInv
  <2>3. ASSUME NEW x \in Subscriber
        PROVE  IF Subscribed(x)' THEN FeedTold(x)' ELSE queue'[x] = <<>> /\ ~dropped'[x]
    BY <2>1, <2>2, FeedKept
  <2>4. /\ backlog' \in [Subscriber -> Seq(Record)] /\ queue' \in [Subscriber -> Seq(Record)]
        /\ last' \in [Subscriber -> Int] /\ dropped' \in [Subscriber -> BOOLEAN]
    BY <2>1, <2>2 DEF FeedsInv
  <2>. QED
    BY <2>3, <2>4 DEF FeedsInv
<1>3. StoryInv'
  BY StoryStutter DEF EventsInv, broker
<1>. QED
  BY <1>1, <1>2, <1>3 DEF EventsInv

(* So does a request, before its admission or refused. *)
LEMMA EventsRequest ==
  ASSUME EventsInv, BrokerInv', NEW t \in Turn, Refuse(t) \/ \E s \in Session : Post(t, s)
  PROVE  EventsInv'
<1>1. UNCHANGED <<broker, feeds, queue, dropped>>
  BY DEF Refuse, Post
<1>2. 0 \in 0..Len(Stages) /\ turnStage \in [Turn -> 0..Len(Stages)]
  BY StageNames DEF EventsInv, StoryInv
<1>3. turnStage' \in [Turn -> 0..Len(Stages)]
  BY <1>2 DEF Refuse, Post, EndTurn
<1>4. \A x \in Turn : Running(x)' => /\ Running(x) /\ turnStage'[x] = turnStage[x]
                                     /\ turnSession'[x] = turnSession[x]
  BY <1>2 DEF Refuse, Post, EndTurn, Running, EventsInv, BrokerInv, AdmissionType
<1>. QED
  BY <1>1, <1>3, <1>4, EventsStutter

(* So does a subscriber. *)
LEMMA EventsFeed ==
  ASSUME EventsInv, BrokerInv', NEW u \in Subscriber,
         Feed(u) \/ Leave(u) \/ \E s \in Session : Connect(u, s)
  PROVE  EventsInv'
<1>1. UNCHANGED <<broker, turns>>
  BY DEF Feed, Subscribe, SubscribeTooLate, Send, SendFails, Leave, Connect
<1>2. HistoryInv' /\ FeedsInv'
  BY FeedsStep DEF EventsInv
<1>3. StoryInv'
  BY <1>1, StoryStutter DEF EventsInv, StoryInv, broker, turns, Running
<1>. QED
  BY <1>2, <1>3 DEF EventsInv

(* Every step keeps the invariant. *)
LEMMA EventsNext == EventsInv /\ [Next]_vars => EventsInv'
<1>. SUFFICES ASSUME EventsInv, [Next]_vars PROVE EventsInv'
  OBVIOUS
<1>1. BrokerInv'
  BY BrokerInvNext DEF EventsInv
<1>2. CASE Create
  <2>1. \E old \in SUBSET Removable : created < MaxCreated /\ Insert(old)
    BY <1>2 DEF Create
  <2>. QED
    BY <1>1, <2>1, InsertHistory, StoryInsert DEF EventsInv
<1>3. ASSUME NEW s \in Session, Echo(s) PROVE EventsInv'
  BY <1>1, <1>3, EventsEcho
<1>4. ASSUME NEW t \in Turn, Refuse(t) \/ \E s \in Session : Post(t, s) PROVE EventsInv'
  BY <1>1, <1>4, EventsRequest
<1>5. ASSUME NEW t \in Turn, TurnStep(t) PROVE EventsInv'
  BY <1>1, <1>4, <1>5, EventsTurn
<1>6. ASSUME NEW u \in Subscriber,
             Feed(u) \/ Leave(u) \/ \E s \in Session : Connect(u, s)
      PROVE  EventsInv'
  BY <1>1, <1>6, EventsFeed
<1>7. CASE UNCHANGED vars
  <2>1. /\ UNCHANGED <<broker, feeds, queue, dropped>>
        /\ UNCHANGED <<turnPc, turnSession, turnStage>>
    BY <1>7 DEF vars, turns
  <2>2. turnStage' \in [Turn -> 0..Len(Stages)]
    BY <2>1 DEF EventsInv, StoryInv
  <2>. QED
    BY <1>1, <2>1, <2>2, EventsStutter DEF Running
<1>. QED
  BY <1>2, <1>3, <1>4, <1>5, <1>6, <1>7 DEF Next

(* The invariant says of each feed what FeedsInOrder says of the events    *)
(* one after the other.                                                    *)
LEMMA FeedsFollow == EventsInv => FeedsInOrder
<1>. SUFFICES ASSUME EventsInv, NEW u \in Subscriber, Subscribed(u)
     PROVE  LET p == Pending(u)
                before(i) == IF i = 1 THEN last[u] ELSE p[i - 1].number
            IN /\ \A i \in DOMAIN p : /\ before(i) < p[i].number
                                      /\ ~dropped[u] => p[i].number = before(i) + 1
               /\ sequence[subSession[u]] = IF p = <<>> THEN last[u] ELSE p[Len(p)].number
  BY DEF FeedsInOrder
<1>1. PICK p, b, q, l, n, d :
        /\ p = b \o q /\ b = backlog[u] /\ q = queue[u] /\ l = last[u]
        /\ n = sequence[subSession[u]] /\ d = dropped[u]
  OBVIOUS
<1>2. /\ b \in Seq(Record) /\ q \in Seq(Record) /\ l \in Int /\ d \in BOOLEAN
      /\ Len(b) \in Nat /\ Len(q) \in Nat /\ n \in Nat
  <2>1. /\ b \in Seq(Record) /\ q \in Seq(Record) /\ l \in Int /\ d \in BOOLEAN
    BY <1>1 DEF EventsInv, FeedsInv
  <2>2. subSession[u] \in Session
    BY DEF EventsInv, BrokerInv, InUseKept, AdmissionType
  <2>3. n \in Nat
    BY <1>1, <2>2 DEF EventsInv, HistoryInv
  <2>. QED
    BY <2>1, <2>3, LenProperties
<1>3. /\ \A i \in 1..Len(b) : b[i].number = l + Len(b) - Len(b) + i
      /\ \A i \in 1..Len(q) : q[i].number = n - Len(q) + i
      /\ l + Len(b) <= n - Len(q)
      /\ ~d \/ q = <<>> => l + Len(b) = n - Len(q)
  BY <1>1 DEF EventsInv, FeedsInv, FeedTold, RunsTo
<1>4. /\ p \in Seq(Record) /\ Len(p) = Len(b) + Len(q) /\ DOMAIN p = 1..Len(p)
      /\ \A i \in 1..Len(p) : p[i] = IF i <= Len(b) THEN b[i] ELSE q[i - Len(b)]
  <2>1. /\ p \in Seq(Record) /\ Len(p) = Len(b) + Len(q)
        /\ \A i \in 1..(Len(b) + Len(q)) : p[i] = IF i <= Len(b) THEN b[i] ELSE q[i - Len(b)]
    BY <1>1, <1>2, ConcatProperties
  <2>2. DOMAIN p = 1..Len(p)
    BY <2>1, LenProperties
  <2>. QED
    BY <2>1, <2>2
<1>5. \A i \in 1..Len(p) : p[i].number = IF i <= Len(b) THEN l + i
                                         ELSE n - Len(q) + (i - Len(b))
  <2>. TAKE i \in 1..Len(p)
  <2>1. CASE i <= Len(b)
    BY <1>2, <1>3, <1>4, <2>1
  <2>2. CASE ~(i <= Len(b))
    <3>1. i - Len(b) \in 1..Len(q)
      BY <1>2, <1>4, <2>2
    <3>. QED
      BY <1>3, <1>4, <2>2, <3>1
  <2>. QED
    BY <2>1, <2>2
<1>. DEFINE before(i) == IF i = 1 THEN l ELSE p[i - 1].number
<1>6. ASSUME NEW i \in 1..Len(p)
      PROVE  before(i) < p[i].number /\ (~d => p[i].number = before(i) + 1)
  <2>1. before(i) = IF i <= Len(b) + 1 THEN l + (i - 1) ELSE n - Len(q) + (i - 1 - Len(b))
    <3>1. CASE i = 1
      BY <1>2, <3>1
    <3>2. CASE i # 1
      <4>1. i - 1 \in 1..Len(p)
        BY <1>2, <1>4, <3>2
      <4>2. p[i - 1].number = IF i - 1 <= Len(b) THEN l + (i - 1)
                              ELSE n - Len(q) + (i - 1 - Len(b))
        BY <1>5, <4>1
      <4>. QED
        BY <1>2, <3>2, <4>2
    <3>. QED
      BY <3>1, <3>2
  <2>2. PICK v, w : v = before(i) /\ w = p[i].number
    OBVIOUS
  <2>. HIDE DEF before
  <2>3. w = IF i <= Len(b) THEN l + i ELSE n - Len(q) + (i - Len(b))
    BY <1>5, <2>2
  <2>4. v < w
    BY <1>2, <1>3, <1>4, <2>1, <2>2, <2>3
  <2>5. ASSUME ~d PROVE w = v + 1
    <3>1. l + Len(b) = n - Len(q)
      BY <1>3, <2>5
    <3>. QED
      BY <1>2, <1>4, <2>1, <2>2, <2>3, <3>1
  <2>. QED
    BY <2>2, <2>4, <2>5
<1>7. n = IF p = <<>> THEN l ELSE p[Len(p)].number
  <2>1. CASE p = <<>>
    <3>1. Len(p) = 0
      BY <2>1, EmptySeq
    <3>2. Len(b) = 0 /\ Len(q) = 0 /\ q = <<>>
      BY <1>2, <1>4, <3>1, EmptySeq
    <3>. QED
      BY <1>2, <1>3, <2>1, <3>2
  <2>2. CASE p # <<>>
    <3>1. Len(p) \in 1..Len(p)
      BY <1>2, <1>4, <2>2, EmptySeq
    <3>2. CASE q = <<>>
      <4>1. Len(q) = 0 /\ l + Len(b) = n
        BY <1>2, <1>3, <3>2, EmptySeq
      <4>2. p[Len(p)].number = l + Len(p)
        BY <1>2, <1>4, <1>5, <3>1, <4>1
      <4>. QED
        BY <1>2, <1>4, <2>2, <4>1, <4>2
    <3>3. CASE q # <<>>
      <4>1. Len(q) > 0
        BY <1>2, <3>3, EmptySeq
      <4>2. p[Len(p)].number = n - Len(q) + (Len(p) - Len(b))
        BY <1>2, <1>4, <1>5, <3>1, <4>1
      <4>. QED
        BY <1>2, <1>4, <2>2, <4>2
    <3>. QED
      BY <3>2, <3>3
  <2>. QED
    BY <2>1, <2>2
<1>. QED
  BY <1>1, <1>4, <1>6, <1>7 DEF Pending

(* And of each history what StoryTold and StateHonest say of it. *)
LEMMA StoryFollows == EventsInv => StoryTold /\ StateHonest
<1>. SUFFICES ASSUME EventsInv PROVE StoryTold /\ StateHonest
  OBVIOUS
<1>1. StoryTold
  BY DEF EventsInv, StoryInv, StoryTold
<1>2. ASSUME NEW s \in known
      PROVE  s \in activeTurns <=> state[s] = "processing"
  BY DEF EventsInv, StoryInv, BrokerInv, AdmissionType
<1>3. ASSUME NEW s \in known, NEW i \in 1..Len(events[s]), Closes(events[s], i)
      PROVE  /\ events[s][i].type = "pipeline.completed" => state[s] = "completed"
             /\ events[s][i].type = "pipeline.failed" => state[s] = "failed"
  <2>1. PICK e : e = events[s][i]
    OBVIOUS
  <2>2. e \in Closing(events[s])
    BY <1>3, <2>1 DEF Closing
  <2>3. Standing(s, e)
    BY <2>2 DEF EventsInv, StoryInv
  <2>4. CASE s \in activeTurns
    <3>1. PICK t \in Turn : Running(t) /\ turnSession[t] = s
      BY <2>4 DEF EventsInv, BrokerInv, TurnsExclusive
    <3>2. e.type = "stage.started"
      BY <2>3, <2>4, <3>1 DEF Standing
    <3>. QED
      BY <2>1, <3>2
  <2>5. CASE s \notin activeTurns
    BY <2>1, <2>3, <2>5 DEF Standing
  <2>. QED
    BY <2>4, <2>5
<1>. QED
  BY <1>1, <1>2, <1>3 DEF StateHonest

(* What a subscriber has been sent and what waits for it are in order,      *)
(* without repetition, up to the newest event of its session; what is       *)
(* missing in between its queue has dropped, and that is on record.         *)
THEOREM FeedsAreInOrder == Spec => []FeedsInOrder
BY EventsInit, EventsNext, FeedsFollow, PTL DEF Spec

(* In the history of every session the events of its turns follow each      *)
(* other as a turn's story, whatever realtime streams, refused requests and *)
(* evictions come in between and however much of it has been forgotten.     *)
THEOREM StoriesAreTold == Spec => []StoryTold
<1>1. EventsInv => StoryTold
  BY StoryFollows
<1>. QED
  BY <1>1, EventsInit, EventsNext, PTL DEF Spec

(* A session is processing while a turn runs in it, and otherwise names the *)
(* outcome that its history ends with.                                      *)
THEOREM StatesAreHonest == Spec => []StateHonest
<1>1. EventsInv => StateHonest
  BY StoryFollows
<1>. QED
  BY <1>1, EventsInit, EventsNext, PTL DEF Spec

-----------------------------------------------------------------------------
(* Sizes *)

(* What the code bounds, and the bounds of the model.                      *)
SizeInv ==
  /\ Cardinality(known) <= MaxSessions
  /\ \A s \in Session : Len(events[s]) <= MaxEvents
  /\ \A u \in Subscriber : Len(queue[u]) <= QueueSize
  /\ gone \in [Subscriber -> BOOLEAN]
  /\ posts \in 0..MaxPosts /\ echoes \in 0..MaxEchoes

(* At the start everything is empty. *)
LEMMA SizeInit == Init => SizeInv
<1>. SUFFICES ASSUME Init PROVE SizeInv
  OBVIOUS
<1>1. Cardinality({}) = 0
  BY FS_EmptySet
<1>2. \A S : Len(<<>>) = 0
  BY EmptySeq
<1>. QED
  BY <1>1, <1>2, BrokerAssumption DEF Init, SizeInv

(* A history and a queue that take new events are cut to their size.       *)
LEMMA CutToSize ==
  ASSUME NEW s \in Session, sequence[s] \in Nat, NEW list \in Seq(Draft),
         NEW q \in Seq(Record), NEW size \in Nat \ {0}
  PROVE  Len(Latest(q \o Numbered(s, list), size)) <= size
<1>. DEFINE c == q \o Numbered(s, list)
<1>1. Numbered(s, list) \in Seq(Record)
  BY NumberedIsNext
<1>2. c \in Seq(Record)
  BY <1>1, ConcatProperties
<1>3. Len(c) \in Nat
  BY <1>2, LenProperties
<1>. HIDE DEF c
<1>4. Len(Latest(c, size)) = IF Len(c) > size THEN size ELSE Len(c)
  BY <1>2, LatestIsSuffix
<1>. QED
  BY <1>3, <1>4 DEF c

(* Publishing keeps the sizes. *)
LEMMA SizesPublished ==
  ASSUME EventsInv, SizeInv, NEW s \in known, NEW list \in Seq(Draft), Publish(s, list)
  PROVE  /\ \A x \in Session : Len(events'[x]) <= MaxEvents
         /\ \A u \in Subscriber : Len(queue'[u]) <= QueueSize
<1>1. /\ s \in Session /\ sequence[s] \in Nat
      /\ events \in [Session -> Seq(Record)] /\ queue \in [Subscriber -> Seq(Record)]
  BY DEF EventsInv, BrokerInv, AdmissionType, HistoryInv, FeedsInv
<1>2. MaxEvents \in Nat \ {0} /\ QueueSize \in Nat \ {0}
  BY BrokerAssumption
<1>3. ASSUME NEW x \in Session PROVE Len(events'[x]) <= MaxEvents
  <2>1. Len(Latest(events[s] \o Numbered(s, list), MaxEvents)) <= MaxEvents
    BY <1>1, <1>2, CutToSize
  <2>2. events'[x] = IF x = s THEN Latest(events[s] \o Numbered(s, list), MaxEvents)
                              ELSE events[x]
    BY <1>1 DEF Publish
  <2>. QED
    BY <2>1, <2>2 DEF SizeInv
<1>4. ASSUME NEW u \in Subscriber PROVE Len(queue'[u]) <= QueueSize
  <2>1. Len(Latest(queue[u] \o Numbered(s, list), QueueSize)) <= QueueSize
    BY <1>1, <1>2, CutToSize
  <2>2. \/ queue'[u] = Latest(queue[u] \o Numbered(s, list), QueueSize)
        \/ queue'[u] = queue[u]
    BY DEF Publish
  <2>. QED
    BY <2>1, <2>2 DEF SizeInv
<1>. QED
  BY <1>3, <1>4

(* A session is created in a free place, or in that of the one it evicts. *)
LEMMA SizesCreate ==
  ASSUME EventsInv, SizeInv, Create
  PROVE  SizeInv'
<1>1. created \in Nat /\ known \subseteq 1..created /\ MaxSessions \in Nat \ {0}
  BY BrokerAssumption DEF EventsInv, BrokerInv, AdmissionType, HistoryInv
<1>2. IsFiniteSet(known) /\ Cardinality(known) \in Nat /\ created + 1 \notin known
  <2>1. IsFiniteSet(1..created)
    BY <1>1, FS_Interval
  <2>2. IsFiniteSet(known)
    BY <1>1, <2>1, FS_Subset
  <2>3. Cardinality(known) \in Nat
    BY <2>2, FS_CardinalityType
  <2>4. created + 1 \notin 1..created
    BY <1>1
  <2>. QED
    BY <1>1, <2>2, <2>3, <2>4
<1>3. PICK old \in SUBSET known :
        /\ Insert(old) /\ IsFiniteSet(known \ old)
        /\ Cardinality(known \ old) + 1 <= MaxSessions
  <2>1. CASE Cardinality(known) < MaxSessions /\ Insert({})
    <3>1. known \ {} = known
      OBVIOUS
    <3>. QED
      BY <1>1, <1>2, <2>1, <3>1
  <2>2. ASSUME NEW r \in Removable, Insert({r}) PROVE Cardinality(known \ {r}) + 1 <= MaxSessions
    <3>1. r \in known
      BY DEF Removable
    <3>2. Cardinality(known \ {r}) = Cardinality(known) - 1
      BY <1>2, <3>1, FS_RemoveElement
    <3>. QED
      BY <1>1, <1>2, <3>2 DEF SizeInv
  <2>3. \A r \in Removable : IsFiniteSet(known \ {r}) /\ {r} \in SUBSET known
    BY <1>2, FS_RemoveElement DEF Removable
  <2>. QED
    BY <2>1, <2>2, <2>3 DEF Create
<1>4. Cardinality(known') <= MaxSessions
  <2>1. known' = (known \ old) \cup {created + 1} /\ created + 1 \notin known \ old
    BY <1>2, <1>3 DEF Insert
  <2>2. Cardinality(known') = Cardinality(known \ old) + 1
    BY <1>3, <2>1, FS_AddElement
  <2>. QED
    BY <1>3, <2>2
<1>5. ASSUME NEW s \in Session PROVE Len(events'[s]) <= MaxEvents
  <2>1. Len(<<>>) = 0 /\ MaxEvents \in Nat \ {0}
    BY EmptySeq, BrokerAssumption
  <2>2. Event("session.created", "") \in Draft
    BY DEF Event, Draft, Types, Names
  <2>3. Len(Numbered(s, <<Event("session.created", "")>>)) = 1
    <3>1. PICK e, list : e = Event("session.created", "") /\ list = <<e>>
      OBVIOUS
    <3>2. list \in Seq(Draft) /\ Len(list) = 1
      BY <2>2, <3>1, ShortLists
    <3>3. sequence[s] \in Nat
      BY DEF EventsInv, HistoryInv
    <3>. QED
      BY <3>1, <3>2, <3>3, NumberedIsNext
  <2>4. \/ events'[s] = <<>> \/ events'[s] = events[s]
        \/ events'[s] = Numbered(s, <<Event("session.created", "")>>)
    BY <1>3 DEF Insert
  <2>5. Len(events[s]) <= MaxEvents
    BY DEF SizeInv
  <2>6. PICK n : n = Len(events'[s])
    OBVIOUS
  <2>7. n = 0 \/ n = 1 \/ n = Len(events[s])
    BY <2>1, <2>3, <2>4, <2>6
  <2>8. n <= MaxEvents
    BY <2>1, <2>5, <2>7
  <2>. QED
    BY <2>6, <2>8
<1>. QED
  BY <1>3, <1>4, <1>5 DEF SizeInv, Insert, feeds

(* A subscriber empties its queue or takes one event off it. *)
LEMMA SizesFeed ==
  ASSUME EventsInv, SizeInv, NEW u \in Subscriber,
         Feed(u) \/ Leave(u) \/ \E s \in Session : Connect(u, s)
  PROVE  SizeInv'
<1>1. queue \in [Subscriber -> Seq(Record)] /\ QueueSize \in Nat
  BY BrokerAssumption DEF EventsInv, FeedsInv
<1>2. UNCHANGED <<broker, posts, echoes>>
  BY DEF Feed, Subscribe, SubscribeTooLate, Send, SendFails, Leave, Connect
<1>3. gone' \in [Subscriber -> BOOLEAN]
  BY DEF SizeInv, Feed, Subscribe, SubscribeTooLate, Send, SendFails, Unsubscribe, Leave, Connect
<1>4. \/ UNCHANGED queue \/ queue' = [queue EXCEPT ![u] = <<>>]
      \/ queue[u] # <<>> /\ queue' = [queue EXCEPT ![u] = Tail(@)]
  BY DEF Feed, Subscribe, SubscribeTooLate, Send, SendFails, Unsubscribe, Leave, Connect
<1>5. queue[u] # <<>> => Len(Tail(queue[u])) = Len(queue[u]) - 1 /\ Len(queue[u]) \in Nat
  BY <1>1, HeadTailProperties, LenProperties
<1>6. Len(<<>>) = 0
  BY EmptySeq
<1>7. ASSUME NEW v \in Subscriber PROVE Len(queue'[v]) <= QueueSize
  <2>1. CASE v = u
    <3>1. \/ queue'[u] = queue[u] \/ queue'[u] = <<>>
          \/ queue[u] # <<>> /\ queue'[u] = Tail(queue[u])
      BY <1>1, <1>4
    <3>2. Len(queue[u]) <= QueueSize
      BY DEF SizeInv
    <3>. QED
      BY <1>1, <1>5, <1>6, <2>1, <3>1, <3>2
  <2>2. CASE v # u
    BY <1>1, <1>4, <2>2 DEF SizeInv
  <2>. QED
    BY <2>1, <2>2
<1>. QED
  BY <1>2, <1>3, <1>7 DEF SizeInv, broker

(* Every step keeps the sizes. *)
LEMMA SizesNext == EventsInv /\ SizeInv /\ [Next]_vars => SizeInv'
<1>. SUFFICES ASSUME EventsInv, SizeInv, [Next]_vars PROVE SizeInv'
  OBVIOUS
<1>1. ASSUME NEW s \in Session, Echo(s) PROVE SizeInv'
  <2>1. PICK a, list : a = Event("realtime.event", "") /\ list = <<a>>
    OBVIOUS
  <2>2. a \in Draft
    BY <2>1 DEF Event, Draft, Types, Names
  <2>3. list \in Seq(Draft)
    BY <2>1, <2>2, ShortLists
  <2>4. s \in known /\ Publish(s, list) /\ UNCHANGED <<known, feeds, posts>>
    BY <1>1, <2>1 DEF Echo
  <2>5. echoes' \in 0..MaxEchoes
    <3>1. echoes < MaxEchoes /\ echoes' = echoes + 1
      BY <1>1 DEF Echo
    <3>. QED
      BY <3>1, BrokerAssumption DEF SizeInv
  <2>. QED
    BY <2>3, <2>4, <2>5, SizesPublished DEF SizeInv, feeds
<1>2. ASSUME NEW t \in Turn, TurnStep(t), ~Refuse(t) PROVE SizeInv'
  <2>1. PICK s \in known, list \in Seq(Draft) :
          Publish(s, list) /\ UNCHANGED <<created, known, feeds, posts, echoes>>
    BY <1>2, TurnPublishes
  <2>. QED
    BY <2>1, SizesPublished DEF SizeInv, feeds
<1>3. ASSUME NEW t \in Turn, Refuse(t) \/ \E s \in Session : Post(t, s) PROVE SizeInv'
  <2>1. UNCHANGED <<known, events, queue, gone, echoes>>
    BY <1>3 DEF Refuse, Post, broker, feeds
  <2>2. posts' \in 0..MaxPosts
    BY <1>3, BrokerAssumption DEF Refuse, Post, SizeInv
  <2>. QED
    BY <2>1, <2>2 DEF SizeInv
<1>4. ASSUME NEW u \in Subscriber,
             Feed(u) \/ Leave(u) \/ \E s \in Session : Connect(u, s)
      PROVE  SizeInv'
  BY <1>4, SizesFeed
<1>5. CASE UNCHANGED vars
  BY <1>5 DEF vars, broker, feeds, SizeInv
<1>. QED
  BY <1>1, <1>2, <1>3, <1>4, <1>5, SizesCreate DEF Next

(* Type correctness, and with it the limits: sessions.py never keeps more   *)
(* sessions than max_sessions, no history exceeds max_events, no queue      *)
(* subscriber_queue_size, and every admission is of a session that was      *)
(* created.                                                                 *)
THEOREM BrokerTypeCorrect == Spec => []TypeOK
<1>1. EventsInv /\ SizeInv => TypeOK
  <2>. SUFFICES ASSUME EventsInv, SizeInv PROVE TypeOK
    OBVIOUS
  <2>1. known \subseteq 1..created /\ activeTurns \subseteq known
    BY DEF EventsInv, BrokerInv, InUseKept, HistoryInv
  <2>. QED
    BY <2>1 DEF EventsInv, BrokerInv, AdmissionType, HistoryInv, FeedsInv, StoryInv,
           SizeInv, TypeOK
<1>2. Init => EventsInv /\ SizeInv
  BY EventsInit, SizeInit
<1>3. (EventsInv /\ SizeInv) /\ [Next]_vars => (EventsInv /\ SizeInv)'
  BY EventsNext, SizesNext
<1>. QED
  BY <1>1, <1>2, <1>3, PTL DEF Spec

-----------------------------------------------------------------------------
(* The artifact store *)

(* Types, what the workers know, and the property itself. *)
StoreInv == StoreTypeOK /\ PruneInv /\ NewestKept

(* What is newer in a part of a finite set is newer in the set. *)
LEMMA NewerMonotone ==
  ASSUME NEW S, IsFiniteSet(S), NEW R \in SUBSET S, NEW f
  PROVE  /\ IsFiniteSet(Newer(S, f)) /\ IsFiniteSet(Newer(R, f))
         /\ Cardinality(Newer(R, f)) \in Nat /\ Cardinality(Newer(S, f)) \in Nat
         /\ Cardinality(Newer(R, f)) <= Cardinality(Newer(S, f))
<1>1. Newer(R, f) \subseteq Newer(S, f) /\ Newer(S, f) \subseteq S
  BY DEF Newer
<1>2. IsFiniteSet(Newer(S, f))
  BY <1>1, FS_Subset
<1>3. IsFiniteSet(Newer(R, f)) /\ Cardinality(Newer(R, f)) <= Cardinality(Newer(S, f))
  BY <1>1, <1>2, FS_Subset
<1>. QED
  BY <1>2, <1>3, FS_CardinalityType

(* The files stored so far are finitely many. *)
LEMMA StoredFinite ==
  ASSUME StoreTypeOK
  PROVE  IsFiniteSet(stored)
<1>1. IsFiniteSet(1..written) /\ stored \subseteq 1..written
  BY FS_Interval DEF StoreTypeOK
<1>. QED
  BY <1>1, FS_Subset

(* The directory starts empty. *)
LEMMA StoreInvInit == StoreInit => StoreInv
  BY StoreAssumption DEF StoreInit, StoreInv, StoreTypeOK, PruneInv, NewestKept, File

(* A step that renames or unlinks nothing leaves the artifacts as they are. *)
LEMMA NewestKeptStutter ==
  ASSUME NewestKept, UNCHANGED <<files, stored>>
  PROVE  NewestKept'
  BY DEF NewestKept, Newer

(* Storing one more file only adds to what is newer than a pruned one. *)
LEMMA NewestKeptRename ==
  ASSUME StoreInv, NEW w \in Worker, Rename(w), StoreTypeOK'
  PROVE  NewestKept'
<1>. SUFFICES ASSUME NEW f \in stored' \ files'
              PROVE  Cardinality(Newer(stored', f)) >= MaxArtifacts
  BY DEF NewestKept, Newer
<1>1. f \in stored \ files /\ stored \subseteq stored'
  BY DEF Rename
<1>2. Cardinality(Newer(stored, f)) >= MaxArtifacts
  BY <1>1 DEF StoreInv, NewestKept
<1>3. IsFiniteSet(stored')
  <2>1. IsFiniteSet(1..written') /\ stored' \subseteq 1..written'
    BY FS_Interval DEF StoreTypeOK
  <2>. QED
    BY <2>1, FS_Subset
<1>4. /\ Cardinality(Newer(stored, f)) <= Cardinality(Newer(stored', f))
      /\ Cardinality(Newer(stored, f)) \in Nat /\ Cardinality(Newer(stored', f)) \in Nat
  BY <1>1, <1>3, NewerMonotone
<1>. QED
  BY <1>2, <1>4, StoreAssumption

(* What a worker unlinks has enough newer files in its listing, so in what  *)
(* has been stored.                                                         *)
LEMMA NewestKeptUnlink ==
  ASSUME StoreInv, NEW w \in Worker, Unlink(w)
  PROVE  NewestKept'
<1>1. PICK g \in todo[w] : files' = files \ {g}
  BY DEF Unlink
<1>2. stored' = stored /\ pc[w] = "unlink"
  BY DEF Unlink
<1>3. g \in Expired(listing[w]) /\ listing[w] \in SUBSET stored
  BY <1>2 DEF StoreInv, PruneInv
<1>4. Cardinality(Newer(listing[w], g)) >= MaxArtifacts
  BY <1>3 DEF Expired
<1>5. /\ Cardinality(Newer(listing[w], g)) <= Cardinality(Newer(stored, g))
      /\ Cardinality(Newer(listing[w], g)) \in Nat /\ Cardinality(Newer(stored, g)) \in Nat
  BY <1>3, StoredFinite, NewerMonotone DEF StoreInv
<1>6. Cardinality(Newer(stored, g)) >= MaxArtifacts
  BY <1>4, <1>5, StoreAssumption
<1>7. \A f \in stored \ files' : f = g \/ f \in stored \ files
  BY <1>1
<1>8. \A f \in stored \ files' : Cardinality(Newer(stored, f)) >= MaxArtifacts
  BY <1>6, <1>7 DEF StoreInv, NewestKept
<1>. QED
  BY <1>2, <1>8 DEF NewestKept, Newer

(* Every step keeps types and what a worker knows about its listing. *)
LEMMA PruneInvNext ==
  ASSUME StoreInv, [StoreNext]_storeVars
  PROVE  StoreTypeOK' /\ PruneInv'
<1>. USE StoreAssumption DEF StoreInv, StoreTypeOK, PruneInv, Goto, LeaveStore, thread
<1>1. ASSUME NEW w \in Worker, Write(w) PROVE StoreTypeOK' /\ PruneInv'
  BY <1>1 DEF Write
<1>2. ASSUME NEW w \in Worker, Rename(w) PROVE StoreTypeOK' /\ PruneInv'
  BY <1>2 DEF Rename
<1>3. ASSUME NEW w \in Worker, WriteFails(w) PROVE StoreTypeOK' /\ PruneInv'
  <2>1. StoreTypeOK'
    <3>1. mine' \in [Worker -> 0..written] /\ pc' = [pc EXCEPT ![w] = "off"]
      BY <1>3 DEF WriteFails
    <3>2. /\ listing' \in [Worker -> SUBSET (1..written)]
          /\ todo' \in [Worker -> SUBSET (1..written)]
      BY <1>3 DEF WriteFails
    <3>3. temporary' \subseteq 1..written
          /\ UNCHANGED <<written, files, stored, restarts>>
      BY <1>3 DEF WriteFails
    <3>. QED
      BY <3>1, <3>2, <3>3
  <2>2. PruneInv'
    BY <1>3, <2>1 DEF WriteFails
  <2>. QED
    BY <2>1, <2>2
<1>4. ASSUME NEW w \in Worker, Chmod(w) PROVE StoreTypeOK' /\ PruneInv'
  BY <1>4 DEF Chmod
<1>5. ASSUME NEW w \in Worker, Glob(w) PROVE StoreTypeOK' /\ PruneInv'
  BY <1>5 DEF Glob
<1>6. ASSUME NEW w \in Worker, Stat(w) PROVE StoreTypeOK' /\ PruneInv'
  BY <1>6 DEF Stat
<1>7. ASSUME NEW w \in Worker, Sorted(w) PROVE StoreTypeOK' /\ PruneInv'
  <2>1. Expired(listing[w]) \subseteq listing[w]
    BY DEF Expired
  <2>. QED
    BY <1>7, <2>1 DEF Sorted
<1>8. ASSUME NEW w \in Worker, Unlink(w) PROVE StoreTypeOK' /\ PruneInv'
  BY <1>8 DEF Unlink
<1>9. ASSUME NEW w \in Worker, Answer(w) PROVE StoreTypeOK' /\ PruneInv'
  BY <1>9 DEF Answer
<1>10. ASSUME Restart PROVE StoreTypeOK' /\ PruneInv'
  BY <1>10 DEF Restart
<1>11. ASSUME UNCHANGED storeVars PROVE StoreTypeOK' /\ PruneInv'
  BY <1>11 DEF storeVars
<1>. QED
  BY <1>1, <1>2, <1>3, <1>4, <1>5, <1>6, <1>7, <1>8, <1>9, <1>10, <1>11
  DEF StoreNext, Store

(* Every step keeps the invariant. *)
LEMMA StoreInvNext == StoreInv /\ [StoreNext]_storeVars => StoreInv'
<1>. SUFFICES ASSUME StoreInv, [StoreNext]_storeVars PROVE StoreInv'
  OBVIOUS
<1>1. StoreTypeOK' /\ PruneInv'
  BY PruneInvNext
<1>2. NewestKept'
  <2>1. ASSUME NEW w \in Worker, Rename(w) PROVE NewestKept'
    BY <2>1, <1>1, NewestKeptRename
  <2>2. ASSUME NEW w \in Worker, Unlink(w) PROVE NewestKept'
    BY <2>2, NewestKeptUnlink
  <2>3. CASE UNCHANGED <<files, stored>>
    BY <2>3, NewestKeptStutter DEF StoreInv
  <2>4. \/ UNCHANGED <<files, stored>>
        \/ \E w \in Worker : Rename(w) \/ Unlink(w)
    BY DEF StoreNext, Store, storeVars, thread, Write, WriteFails, Chmod, Glob, Stat, Sorted,
           Answer, Restart
  <2>. QED
    BY <2>1, <2>2, <2>3, <2>4
<1>. QED
  BY <1>1, <1>2 DEF StoreInv

(* An artifact disappears only after MaxArtifacts newer ones were stored,   *)
(* for any number of threads that store and prune at the same time.         *)
THEOREM NewestArtifactsKept == StoreSpec => []NewestKept
<1>1. StoreInv => NewestKept
  BY DEF StoreInv
<1>. QED
  BY <1>1, StoreInvInit, StoreInvNext, PTL DEF StoreSpec

(* Type correctness of the artifact store. *)
THEOREM StoreTypeCorrect == StoreSpec => []StoreTypeOK
<1>1. StoreInv => StoreTypeOK
  BY DEF StoreInv
<1>. QED
  BY <1>1, StoreInvInit, StoreInvNext, PTL DEF StoreSpec
=============================================================================
