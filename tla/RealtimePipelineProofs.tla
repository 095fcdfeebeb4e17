----------------------- MODULE RealtimePipelineProofs -----------------------
(***************************************************************************)
(* Theorems about RealtimePipeline, for any sessions, bounds and queues.   *)
(***************************************************************************)
EXTENDS RealtimePipeline, FiniteSetTheorems, SequenceTheorems, TLAPS

-----------------------------------------------------------------------------
(* Counting the jobs of a session in a queue *)

Own(s, job) == IF job.session = s THEN 1 ELSE 0

LEMMA JobsCount ==
  ASSUME NEW S, NEW q \in Seq(S), NEW s
  PROVE  /\ IsFiniteSet({i \in DOMAIN q : q[i].session = s})
         /\ JobsOf(s, q) \in Nat
<1>1. DOMAIN q = 1..Len(q) /\ Len(q) \in Nat
  BY LenProperties
<1>2. IsFiniteSet(1..Len(q))
  BY <1>1, FS_Interval
<1>3. {i \in DOMAIN q : q[i].session = s} \in SUBSET (1..Len(q))
  BY <1>1
<1>4. IsFiniteSet({i \in DOMAIN q : q[i].session = s})
  BY <1>2, <1>3, FS_Subset
<1>. QED
  BY <1>4, FS_CardinalityType DEF JobsOf

LEMMA JobsEmpty == \A s : JobsOf(s, <<>>) = 0
<1>. TAKE s
<1>1. {i \in DOMAIN <<>> : <<>>[i].session = s} = {}
  OBVIOUS
<1>. QED
  BY <1>1, FS_EmptySet DEF JobsOf

LEMMA JobsAppend ==
  ASSUME NEW S, NEW q \in Seq(S), NEW job \in S, NEW s
  PROVE  JobsOf(s, Append(q, job)) = JobsOf(s, q) + Own(s, job)
<1>. DEFINE I == {i \in DOMAIN q : q[i].session = s}
            r == Append(q, job)
            J == {i \in DOMAIN r : r[i].session = s}
            n == Len(q) + 1
<1>1. /\ DOMAIN q = 1..Len(q) /\ DOMAIN r = 1..n /\ Len(q) \in Nat
      /\ \A i \in 1..Len(q) : r[i] = q[i]
      /\ r[n] = job
  BY LenProperties, AppendProperties
<1>2. IsFiniteSet(I) /\ n \notin I
  <2>1. IsFiniteSet(I)
    BY JobsCount
  <2>. QED
    BY <1>1, <2>1
<1>5. JobsOf(s, q) = Cardinality(I) /\ JobsOf(s, r) = Cardinality(J)
  BY DEF JobsOf
<1>6. Cardinality(I) \in Nat
  BY <1>2, FS_CardinalityType
<1>3. CASE job.session = s
  <2>1. J = I \cup {n}
    BY <1>1, <1>3
  <2>2. Cardinality(I \cup {n}) = Cardinality(I) + 1
    BY <1>2, FS_AddElement
  <2>. QED
    BY <1>3, <1>5, <2>1, <2>2 DEF Own
<1>4. CASE job.session # s
  <2>1. J = I
    BY <1>1, <1>4
  <2>2. Own(s, job) = 0
    BY <1>4 DEF Own
  <2>. HIDE DEF I, J, r
  <2>3. JobsOf(s, r) = JobsOf(s, q) /\ JobsOf(s, q) \in Nat
    BY <1>5, <1>6, <2>1
  <2>4. JobsOf(s, r) = JobsOf(s, q) + Own(s, job)
    BY <2>2, <2>3
  <2>. QED
    BY <2>4 DEF r
<1>. QED
  BY <1>3, <1>4

LEMMA JobsTail ==
  ASSUME NEW S, NEW q \in Seq(S), q # <<>>, NEW s
  PROVE  JobsOf(s, q) = JobsOf(s, Tail(q)) + Own(s, Head(q))
<1>. DEFINE r == Tail(q)
            I == {i \in DOMAIN q : q[i].session = s}
            J == {i \in DOMAIN r : r[i].session = s}
            K == I \ {1}
            f == [j \in J |-> j + 1]
<1>1. /\ DOMAIN q = 1..Len(q) /\ Len(q) \in Nat \ {0}
      /\ r \in Seq(S) /\ Len(r) = Len(q) - 1 /\ DOMAIN r = 1..Len(r)
      /\ \A j \in 1..Len(r) : r[j] = q[j + 1]
      /\ Head(q) = q[1]
  BY LenProperties, HeadTailProperties, EmptySeq
<1>2. IsFiniteSet(J) /\ IsFiniteSet(I)
  BY <1>1, JobsCount
<1>3. f \in Bijection(J, K)
  <2>1. f \in [J -> K]
    BY <1>1
  <2>2. \A a, b \in J : f[a] = f[b] => a = b
    BY <1>1
  <2>3. \A k \in K : \E j \in J : f[j] = k
    <3>. TAKE k \in K
    <3>1. k - 1 \in J /\ f[k - 1] = k
      BY <1>1
    <3>. QED
      BY <3>1
  <2>. QED
    BY <2>1, <2>2, <2>3 DEF Bijection, Injection, Surjection, IsInjective
<1>4. Cardinality(K) = Cardinality(J)
  BY <1>2, <1>3, FS_Bijection DEF ExistsBijection
<1>5. Cardinality(K) = IF 1 \in I THEN Cardinality(I) - 1 ELSE Cardinality(I)
  BY <1>2, FS_RemoveElement
<1>6. 1 \in I <=> Head(q).session = s
  BY <1>1
<1>7. Cardinality(I) \in Nat /\ Cardinality(J) \in Nat
  BY <1>2, FS_CardinalityType
<1>8. JobsOf(s, q) = Cardinality(I) /\ JobsOf(s, r) = Cardinality(J)
  BY DEF JobsOf
<1>. HIDE DEF I, J, K, r
<1>9. JobsOf(s, q) = JobsOf(s, r) + Own(s, Head(q))
  <2>1. CASE Head(q).session = s
    <3>1. Own(s, Head(q)) = 1
      BY <2>1 DEF Own
    <3>2. JobsOf(s, r) = JobsOf(s, q) - 1 /\ JobsOf(s, q) \in Nat
      BY <1>4, <1>5, <1>6, <1>7, <1>8, <2>1
    <3>. QED
      BY <3>1, <3>2
  <2>2. CASE Head(q).session # s
    <3>1. Own(s, Head(q)) = 0
      BY <2>2 DEF Own
    <3>2. JobsOf(s, r) = JobsOf(s, q) /\ JobsOf(s, q) \in Nat
      BY <1>4, <1>5, <1>6, <1>7, <1>8, <2>2
    <3>. QED
      BY <3>1, <3>2
  <2>. QED
    BY <2>1, <2>2
<1>. QED
  BY <1>9 DEF r

LEMMA JobsReplaced ==
  ASSUME NEW q, NEW r, DOMAIN r = DOMAIN q,
         \A i \in DOMAIN q : r[i].session = q[i].session
  PROVE  \A s : JobsOf(s, r) = JobsOf(s, q)
<1>. TAKE s
<1>1. {i \in DOMAIN r : r[i].session = s} = {i \in DOMAIN q : q[i].session = s}
  OBVIOUS
<1>. QED
  BY <1>1 DEF JobsOf

-----------------------------------------------------------------------------
(* Types *)

Job(mode) == [session : Sessions, utt : Nat, gen : Nat, mode : {mode}]
Text == {"none", "partial", "final", "revised"}
Question(mode) ==
  [session : Sessions, utt : Nat, mode : {mode}, known : BOOLEAN, previous : Text]
Rows ==
  [utt : Nat, text : Text, final : BOOLEAN, locked : BOOLEAN, revisable : BOOLEAN]
Event ==
  [type : {"asr.partial", "asr.final", "utterance.completed", "stream.stopped"},
   utt : Nat]
Stream ==
  [open : BOOLEAN, state : {"listening", "paused", "stopped"}, stopping : BOOLEAN,
   utt : Nat, spoken : Nat, detector : {"idle", "speech", "candidate"},
   generation : Nat, latest : [Utterances -> Nat],
   pending : Nat, rows : Seq(Rows), history : Seq(Event),
   known : BOOLEAN, raised : {"nothing", "handler", "stop"}]
Worlds ==
  [st : Stream, fin : Seq(Job("final")), par : Seq(Job("partial")),
   end : Seq(Question("endpoint")), cor : Seq(Question("correction")),
   raises : BOOLEAN]

PipelineType ==
  /\ streams \in [Sessions -> Stream]
  /\ finals \in Seq(Job("final")) /\ partials \in Seq(Job("partial"))
  /\ endpoints \in Seq(Question("endpoint")) /\ corrections \in Seq(Question("correction"))
  /\ asr \in Job("final") \cup Job("partial") \cup {NoJob}
  /\ text \in Question("endpoint") \cup Question("correction") \cup {NoJob}
  /\ asrAlive \in BOOLEAN /\ textAlive \in BOOLEAN

LEMMA WorldTyped ==
  ASSUME PipelineType, NEW s \in Sessions
  PROVE  World(s) \in Worlds
  BY DEF PipelineType, World, Worlds

-----------------------------------------------------------------------------
(* The rows stay rows. *)

LEMMA AcceptTyped ==
  ASSUME NEW rows \in Seq(Rows), NEW u \in Nat, NEW t \in Text, NEW f \in BOOLEAN
  PROVE  Accept(rows, u, t, f) \in Seq(Rows)
<1>1. Row(u, t, f) \in Rows
  BY DEF Row, Rows
<1>2. Len(rows) \in Nat /\ DOMAIN rows = 1..Len(rows)
  BY LenProperties
<1>3. CASE rows = <<>>
  BY <1>1, <1>3 DEF Accept
<1>4. CASE rows # <<>> /\ Current(rows, u)
  <2>1. Len(rows) \in 1..Len(rows) /\ rows[Len(rows)] \in Rows
    BY <1>2, <1>4, EmptySeq, ElementOfSeq
  <2>2. [rows[Len(rows)] EXCEPT !.text = t, !.final = @ \/ f] \in Rows
    BY <2>1 DEF Rows
  <2>3. [rows EXCEPT ![Len(rows)] = [rows[Len(rows)] EXCEPT !.text = t, !.final = @ \/ f]]
          \in Seq(Rows)
    BY <2>1, <2>2, ExceptSeq
  <2>4. Accept(rows, u, t, f)
          = [rows EXCEPT ![Len(rows)] = [rows[Len(rows)] EXCEPT !.text = t, !.final = @ \/ f]]
    BY <1>4, <2>1 DEF Accept
  <2>. QED
    BY <2>3, <2>4
<1>5. CASE rows # <<>> /\ ~Current(rows, u)
  <2>. DEFINE n == Len(rows)
              row == [rows[n] EXCEPT !.revisable = @ \/ ~rows[n].locked]
  <2>1. n \in 1..n /\ rows[n] \in Rows
    BY <1>2, <1>5, EmptySeq, ElementOfSeq
  <2>2. row \in Rows
    BY <2>1 DEF Rows
  <2>3. [rows EXCEPT ![n] = row] \in Seq(Rows)
    BY <2>1, <2>2, ExceptSeq
  <2>4. Accept(rows, u, t, f) = Append([rows EXCEPT ![n] = row], Row(u, t, f))
    BY <1>5, <2>1 DEF Accept, OpenNext
  <2>. QED
    BY <1>1, <2>3, <2>4, AppendProperties
<1>. QED
  BY <1>3, <1>4, <1>5

LEMMA ReviseTyped ==
  ASSUME NEW rows \in Seq(Rows), NEW t \in Text, NEW u \in Text
  PROVE  Revise(rows, t, u) \in Seq(Rows) /\ Finalize(rows) \in Seq(Rows)
<1>1. Len(rows) \in Nat /\ DOMAIN rows = 1..Len(rows) /\ rows \in [1..Len(rows) -> Rows]
  BY LenProperties
<1>2. Revise(rows, t, u) \in [1..Len(rows) -> Rows]
  BY <1>1 DEF Revise, Rows
<1>3. Finalize(rows) \in [1..Len(rows) -> Rows]
  BY <1>1 DEF Finalize, Rows
<1>. QED
  BY <1>1, <1>2, <1>3, SeqDef

-----------------------------------------------------------------------------
(* What a handler's step does to the world keeps its type, and counts what *)
(* it queues.                                                              *)

Load(w, t) == JobsOf(t, w.fin) + JobsOf(t, w.par) + JobsOf(t, w.end) + JobsOf(t, w.cor)

Counts(w, v, s) ==
  /\ v \in Worlds
  /\ v.st.open = w.st.open
  /\ v.st.pending + Load(w, s) = w.st.pending + Load(v, s)
  /\ \A t \in Sessions : t # s => Load(v, t) = Load(w, t)

SameWork(w, v) ==
  /\ v \in Worlds
  /\ v.st.open = w.st.open /\ v.st.pending = w.st.pending
  /\ v.fin = w.fin /\ v.par = w.par /\ v.end = w.end /\ v.cor = w.cor

LEMMA LoadTyped == \A w \in Worlds : \A t : Load(w, t) \in Nat
<1>. TAKE w \in Worlds
<1>. TAKE t
<1>1. /\ w.fin \in Seq(Job("final")) /\ w.par \in Seq(Job("partial"))
      /\ w.end \in Seq(Question("endpoint")) /\ w.cor \in Seq(Question("correction"))
  BY DEF Worlds
<1>2. /\ JobsOf(t, w.fin) \in Nat /\ JobsOf(t, w.par) \in Nat
      /\ JobsOf(t, w.end) \in Nat /\ JobsOf(t, w.cor) \in Nat
  BY <1>1, JobsCount
<1>. QED
  BY <1>2 DEF Load

LEMMA SameCounts ==
  ASSUME NEW w \in Worlds, NEW v, NEW s \in Sessions, SameWork(w, v)
  PROVE  Counts(w, v, s)
  BY DEF SameWork, Counts, Load

LEMMA CountsTransitive ==
  ASSUME NEW u \in Worlds, NEW w, NEW v, NEW s \in Sessions, Counts(u, w, s), Counts(w, v, s)
  PROVE  Counts(u, v, s)
<1>1. w \in Worlds /\ v \in Worlds
  BY DEF Counts
<1>2. /\ u.st.pending \in Nat /\ w.st.pending \in Nat /\ v.st.pending \in Nat
      /\ Load(u, s) \in Nat /\ Load(w, s) \in Nat /\ Load(v, s) \in Nat
  BY <1>1, LoadTyped DEF Worlds, Stream
<1>3. v.st.pending + Load(u, s) = u.st.pending + Load(v, s)
  BY <1>2 DEF Counts
<1>. QED
  BY <1>1, <1>3 DEF Counts

(* What differs at most in a raised exception. *)
SameWorld(w, v) ==
  /\ v \in Worlds /\ v.st = w.st
  /\ v.fin = w.fin /\ v.par = w.par /\ v.end = w.end /\ v.cor = w.cor

LEMMA AnnounceSame ==
  ASSUME NEW w \in Worlds, NEW type
  PROVE  /\ SameWorld(w, Announce(w, type)) /\ SameWork(w, Announce(w, type))
         /\ w.raises => Announce(w, type).raises
<1>1. w.raises \in BOOLEAN /\ w.st.known \in BOOLEAN
  BY DEF Worlds, Stream
<1>. DEFINE r == w.raises \/ (~w.st.known /\ type \in Echoed)
<1>2. r \in BOOLEAN /\ Announce(w, type) = [w EXCEPT !.raises = r]
  BY <1>1 DEF Announce
<1>. HIDE DEF r
<1>3. SameWorld(w, Announce(w, type)) /\ Announce(w, type).raises = r
  BY <1>2 DEF SameWorld, Worlds
<1>. QED
  BY <1>1, <1>3 DEF SameWorld, SameWork, r

LEMMA ThenEither == \A w, v : Then(w, v) = w \/ Then(w, v) = v
  BY DEF Then

LEMMA DetectorTyped ==
  ASSUME NEW w \in Worlds, NEW d \in {"idle", "speech", "candidate"}
  PROVE  SameWork(w, [w EXCEPT !.st.detector = d])
  BY DEF SameWork, Worlds, Stream

LEMMA HandledSame ==
  ASSUME NEW w \in Worlds, NEW what \in {"nothing", "handler", "stop"}
  PROVE  SameWork(w, Handled(w, what))
  BY DEF SameWork, Handled, Worlds, Stream

LEMMA EmitSame ==
  ASSUME NEW w \in Worlds, NEW u \in Nat,
         NEW type \in {"asr.partial", "asr.final", "utterance.completed", "stream.stopped"}
  PROVE  SameWork(w, Emit(w, type, u))
<1>. DEFINE st == [w.st EXCEPT !.history = Append(@, [type |-> type, utt |-> u])]
            v == [w EXCEPT !.st = st]
<1>1. [type |-> type, utt |-> u] \in Event /\ w.st.history \in Seq(Event)
  BY DEF Worlds, Stream, Event
<1>2. Append(w.st.history, [type |-> type, utt |-> u]) \in Seq(Event)
  BY <1>1, AppendProperties
<1>3. st \in Stream /\ st.open = w.st.open /\ st.pending = w.st.pending
  BY <1>2 DEF Worlds, Stream
<1>4. v \in Worlds /\ SameWork(w, v) /\ SameWork(w, w)
  BY <1>3 DEF SameWork, Worlds
<1>5. Emit(w, type, u) = Then(w, Announce(v, type))
  BY DEF Emit, Worlds, Stream
<1>. HIDE DEF v
<1>6. SameWork(w, Announce(v, type))
  BY <1>4, AnnounceSame DEF SameWork
<1>. QED
  BY <1>4, <1>5, <1>6, ThenEither

LEMMA CompleteSame ==
  ASSUME NEW w \in Worlds, NEW u \in Nat
  PROVE  SameWork(w, Complete(w, u))
<1>. DEFINE e == Emit(w, "utterance.completed", u)
            v == [e EXCEPT !.st.state = "listening"]
<1>1. SameWork(w, e)
  BY EmitSame
<1>2. Complete(w, u) \in {e, v}
  BY DEF Complete
<1>. HIDE DEF e
<1>3. SameWork(w, v)
  BY <1>1 DEF SameWork, Worlds, Stream
<1>. QED
  BY <1>1, <1>2, <1>3

LEMMA CompleteCounts ==
  ASSUME NEW w \in Worlds, NEW s \in Sessions, NEW u \in Nat
  PROVE  Counts(w, Complete(w, u), s)
  BY CompleteSame, SameCounts

(* A queued job is counted once; nobody else's count changes. *)
LEMMA QueuedCounts ==
  ASSUME NEW w \in Worlds, NEW v \in Worlds, NEW s \in Sessions, NEW job, job.session = s,
         v.st.open = w.st.open, v.st.pending = w.st.pending + 1,
         \A t : Load(v, t) = Load(w, t) + Own(t, job)
  PROVE  Counts(w, v, s)
<1>1. Load(v, s) = Load(w, s) + 1
  BY DEF Own
<1>2. w.st.pending \in Nat /\ Load(w, s) \in Nat
  BY LoadTyped DEF Worlds, Stream
<1>3. v.st.pending + Load(w, s) = w.st.pending + Load(v, s)
  BY <1>1, <1>2
<1>4. ASSUME NEW t \in Sessions, t # s PROVE Load(v, t) = Load(w, t)
  <2>1. Own(t, job) = 0 /\ Load(w, t) \in Nat
    BY <1>4, LoadTyped DEF Own
  <2>. QED
    BY <2>1
<1>. QED
  BY <1>3, <1>4 DEF Counts

LEMMA WorkQueuedTyped ==
  ASSUME NEW w \in Worlds
  PROVE  /\ WorkQueued(w) \in Worlds
         /\ WorkQueued(w).st = [w.st EXCEPT !.pending = @ + 1]
         /\ WorkQueued(w).st.open = w.st.open
         /\ WorkQueued(w).st.pending = w.st.pending + 1
         /\ WorkQueued(w).fin = w.fin /\ WorkQueued(w).par = w.par
         /\ WorkQueued(w).end = w.end /\ WorkQueued(w).cor = w.cor
<1>1. w.st \in Stream /\ w.st.pending + 1 \in Nat
  BY DEF Worlds, Stream
<1>. DEFINE st == [w.st EXCEPT !.pending = @ + 1]
<1>2. st \in Stream /\ st.open = w.st.open /\ st.pending = w.st.pending + 1
  BY <1>1 DEF Stream
<1>3. WorkQueued(w) = [w EXCEPT !.st = st]
  BY DEF WorkQueued, Worlds, Stream
<1>. QED
  BY <1>2, <1>3 DEF Worlds

LEMMA QueuesTyped ==
  ASSUME NEW w \in Worlds
  PROVE  /\ w.fin \in Seq(Job("final")) /\ w.par \in Seq(Job("partial"))
         /\ w.end \in Seq(Question("endpoint")) /\ w.cor \in Seq(Question("correction"))
         /\ \A t : /\ JobsOf(t, w.fin) \in Nat /\ JobsOf(t, w.par) \in Nat
                   /\ JobsOf(t, w.end) \in Nat /\ JobsOf(t, w.cor) \in Nat
<1>1. /\ w.fin \in Seq(Job("final")) /\ w.par \in Seq(Job("partial"))
      /\ w.end \in Seq(Question("endpoint")) /\ w.cor \in Seq(Question("correction"))
  BY DEF Worlds
<1>. QED
  BY <1>1, JobsCount

LEMMA AddCounts ==
  ASSUME NEW w \in Worlds, NEW x \in Worlds, NEW s \in Sessions, NEW job, job.session = s,
         x.st = w.st, \A t : Load(x, t) = Load(w, t) + Own(t, job)
  PROVE  Counts(w, WorkQueued(x), s)
<1>. DEFINE v == WorkQueued(x)
<1>1. v \in Worlds /\ v.st.open = w.st.open /\ v.st.pending = w.st.pending + 1
  BY WorkQueuedTyped
<1>2. v.fin = x.fin /\ v.par = x.par /\ v.end = x.end /\ v.cor = x.cor
  BY WorkQueuedTyped
<1>. HIDE DEF v
<1>3. \A t : Load(v, t) = Load(x, t)
  BY <1>2 DEF Load
<1>4. Counts(w, v, s)
  BY <1>1, <1>3, QueuedCounts
<1>. QED
  BY <1>4 DEF v

LEMMA FinalCounts ==
  ASSUME NEW w \in Worlds, NEW s \in Sessions, NEW u \in Nat
  PROVE  Counts(w, QueueFinal(w, s, u), s)
<1>1. CASE Len(w.fin) >= MaxFinals
  <2>. DEFINE e == Announce(w, "pipeline.warning")
  <2>1. e \in Worlds /\ SameWork(w, e)
    BY AnnounceSame DEF SameWork
  <2>2. QueueFinal(w, s, u) = Then(e, [e EXCEPT !.st.state = "paused"])
    BY <1>1 DEF QueueFinal
  <2>. HIDE DEF e
  <2>3. SameWork(e, [e EXCEPT !.st.state = "paused"])
    BY <2>1 DEF SameWork, Worlds, Stream
  <2>4. SameWork(w, QueueFinal(w, s, u))
    BY <2>1, <2>2, <2>3, ThenEither DEF SameWork
  <2>. QED
    BY <2>4, SameCounts
<1>2. CASE ~(Len(w.fin) >= MaxFinals)
  <2>. DEFINE job == AsrJob(s, u, 1, "final")
              x == [w EXCEPT !.fin = Append(@, job)]
  <2>1. job \in Job("final") /\ job.session = s
    BY DEF AsrJob, Job
  <2>2. Append(w.fin, job) \in Seq(Job("final"))
    BY <2>1, QueuesTyped, AppendProperties
  <2>3. /\ x \in Worlds /\ x.st = w.st /\ x.fin = Append(w.fin, job)
        /\ x.par = w.par /\ x.end = w.end /\ x.cor = w.cor
    BY <2>2 DEF Worlds
  <2>4. WorkQueued(x) = QueueFinal(w, s, u)
    BY <1>2 DEF QueueFinal
  <2>. HIDE DEF x, job
  <2>5. \A t : Load(x, t) = Load(w, t) + Own(t, job)
    <3>. TAKE t
    <3>1. JobsOf(t, x.fin) = JobsOf(t, w.fin) + Own(t, job)
      BY <2>1, <2>3, JobsAppend, QueuesTyped
    <3>2. /\ JobsOf(t, w.fin) \in Nat /\ JobsOf(t, w.par) \in Nat
          /\ JobsOf(t, w.end) \in Nat /\ JobsOf(t, w.cor) \in Nat /\ Own(t, job) \in Nat
      BY QueuesTyped DEF Own
    <3>. QED
      BY <2>3, <3>1, <3>2 DEF Load
  <2>. QED
    BY <2>1, <2>3, <2>4, <2>5, AddCounts
<1>. QED
  BY <1>1, <1>2

LEMMA MarkTyped ==
  ASSUME NEW w \in Worlds, NEW u, NEW g \in Nat
  PROVE  SameWork(w, [w EXCEPT !.st.generation = g, !.st.latest[u] = g])
<1>. DEFINE st == [w.st EXCEPT !.generation = g, !.latest = [w.st.latest EXCEPT ![u] = g]]
<1>1. [w.st.latest EXCEPT ![u] = g] \in [Utterances -> Nat] /\ w.st \in Stream
  BY DEF Worlds, Stream
<1>2. st \in Stream /\ st.open = w.st.open /\ st.pending = w.st.pending
  BY <1>1 DEF Stream
<1>3. [w EXCEPT !.st.generation = g, !.st.latest[u] = g] = [w EXCEPT !.st = st]
  BY DEF Worlds, Stream
<1>. QED
  BY <1>2, <1>3 DEF SameWork, Worlds

LEMMA PartialCounts ==
  ASSUME NEW w \in Worlds, NEW s \in Sessions
  PROVE  Counts(w, QueuePartial(w, s), s)
<1>. DEFINE u == w.st.utt
            g == w.st.generation + 1
            job == AsrJob(s, u, g, "partial")
            at == {i \in DOMAIN w.par : w.par[i].session = s /\ w.par[i].utt = u}
            m == [w EXCEPT !.st.generation = g, !.st.latest[u] = g]
<1>1. g \in Nat /\ u \in Nat
  BY DEF Worlds, Stream
<1>2. SameWork(w, m)
  BY <1>1, MarkTyped
<1>3. Counts(w, m, s) /\ m \in Worlds /\ m.par = w.par
  BY <1>2, SameCounts DEF SameWork
<1>4. job \in Job("partial") /\ job.session = s
  BY <1>1 DEF AsrJob, Job
<1>5. CASE at # {}
  <2>. DEFINE par == [i \in DOMAIN m.par |-> IF i \in at THEN job ELSE m.par[i]]
              v == [m EXCEPT !.par = par]
  <2>1. v = QueuePartial(w, s)
    BY <1>5 DEF QueuePartial
  <2>. HIDE DEF m, job
  <2>2. /\ m.par \in [1..Len(m.par) -> Job("partial")] /\ Len(m.par) \in Nat
        /\ DOMAIN m.par = 1..Len(m.par)
    BY <1>3, QueuesTyped, LenProperties
  <2>3. par \in [1..Len(m.par) -> Job("partial")]
    BY <1>4, <2>2
  <2>4. par \in Seq(Job("partial"))
    BY <2>2, <2>3, SeqDef
  <2>5. \A t : JobsOf(t, par) = JobsOf(t, m.par)
    <3>1. \A i \in DOMAIN m.par : par[i].session = m.par[i].session
      BY <1>3, <1>4
    <3>. QED
      BY <3>1, JobsReplaced
  <2>6. /\ v \in Worlds /\ v.st = m.st /\ v.par = par
        /\ v.fin = m.fin /\ v.end = m.end /\ v.cor = m.cor
    BY <1>3, <2>4 DEF Worlds
  <2>. HIDE DEF v, par
  <2>7. Counts(m, v, s)
    BY <2>5, <2>6 DEF Counts, Load
  <2>. QED
    BY <1>3, <2>1, <2>7, CountsTransitive
<1>6. CASE at = {} /\ Len(w.par) >= MaxPartials
  <2>1. QueuePartial(w, s) = Announce(m, "pipeline.warning")
    BY <1>6 DEF QueuePartial
  <2>. HIDE DEF m
  <2>2. Counts(m, Announce(m, "pipeline.warning"), s)
    BY <1>3, AnnounceSame, SameCounts
  <2>. QED
    BY <1>3, <2>1, <2>2, CountsTransitive
<1>7. CASE at = {} /\ ~(Len(w.par) >= MaxPartials)
  <2>. DEFINE x == [m EXCEPT !.par = Append(@, job)]
              v == WorkQueued(x)
  <2>1. v = QueuePartial(w, s)
    BY <1>7 DEF QueuePartial
  <2>. HIDE DEF m, job
  <2>2. Append(m.par, job) \in Seq(Job("partial"))
    BY <1>3, <1>4, QueuesTyped, AppendProperties
  <2>3. /\ x \in Worlds /\ x.st = m.st /\ x.par = Append(m.par, job)
        /\ x.fin = m.fin /\ x.end = m.end /\ x.cor = m.cor
    BY <1>3, <2>2 DEF Worlds
  <2>. HIDE DEF x
  <2>4. \A t : Load(x, t) = Load(m, t) + Own(t, job)
    <3>. TAKE t
    <3>1. JobsOf(t, x.par) = JobsOf(t, m.par) + Own(t, job)
      BY <1>3, <1>4, <2>3, JobsAppend, QueuesTyped
    <3>2. /\ JobsOf(t, m.fin) \in Nat /\ JobsOf(t, m.par) \in Nat
          /\ JobsOf(t, m.end) \in Nat /\ JobsOf(t, m.cor) \in Nat /\ Own(t, job) \in Nat
      BY <1>3, QueuesTyped DEF Own
    <3>. QED
      BY <2>3, <3>1, <3>2 DEF Load
  <2>5. Counts(m, v, s)
    BY <1>3, <1>4, <2>3, <2>4, AddCounts
  <2>. QED
    BY <1>3, <2>1, <2>5, CountsTransitive
<1>. QED
  BY <1>5, <1>6, <1>7

LEMMA FinishCounts ==
  ASSUME NEW w \in Worlds, NEW s \in Sessions
  PROVE  Counts(w, Finish(w, s), s)
<1>. DEFINE x == [w EXCEPT !.st.detector = "idle"]
            q == QueueFinal(x, s, w.st.utt)
<1>1. x \in Worlds /\ Counts(w, x, s) /\ w.st.utt \in Nat
  BY DetectorTyped, SameCounts DEF SameWork, Worlds, Stream
<1>2. Finish(w, s) = Then(w, Then(q, ClearUtterance(q)))
  BY DEF Finish
<1>. HIDE DEF x
<1>3. Counts(x, q, s)
  BY <1>1, FinalCounts
<1>. HIDE DEF q
<1>4. q \in Worlds /\ Counts(w, q, s)
  BY <1>1, <1>3, CountsTransitive DEF Counts
<1>5. SameWork(q, ClearUtterance(q))
  BY <1>4 DEF SameWork, ClearUtterance, Worlds, Stream
<1>6. Counts(w, ClearUtterance(q), s)
  BY <1>4, <1>5, SameCounts, CountsTransitive
<1>7. Counts(w, w, s)
  BY SameCounts DEF SameWork
<1>. QED
  BY <1>2, <1>4, <1>6, <1>7, ThenEither

LEMMA FinalizeCounts ==
  ASSUME NEW w \in Worlds, NEW s \in Sessions
  PROVE  Counts(w, FinalizeCandidate(w, s), s)
<1>1. Counts(w, w, s)
  BY SameCounts DEF SameWork
<1>. QED
  BY <1>1, FinishCounts DEF FinalizeCandidate

LEMMA EndpointCounts ==
  ASSUME NEW w \in Worlds, NEW s \in Sessions
  PROVE  Counts(w, QueueEndpoint(w, s), s)
<1>1. CASE Len(w.end) >= MaxText
  <2>. DEFINE e == Announce(w, "pipeline.warning")
  <2>1. e \in Worlds /\ Counts(w, e, s)
    BY AnnounceSame, SameCounts DEF SameWork
  <2>2. QueueEndpoint(w, s) = Then(e, FinalizeCandidate(e, s))
    BY <1>1 DEF QueueEndpoint
  <2>. HIDE DEF e
  <2>3. Counts(w, FinalizeCandidate(e, s), s)
    BY <2>1, FinalizeCounts, CountsTransitive
  <2>. QED
    BY <2>1, <2>2, <2>3, ThenEither
<1>2. CASE ~(Len(w.end) >= MaxText)
  <2>. DEFINE known == w.st.rows # <<>> /\ Newest(w.st.rows).utt = w.st.utt
              job == TextJob(s, w.st.utt, "endpoint", known, "none")
              x == [w EXCEPT !.end = Append(@, job)]
  <2>1. job \in Question("endpoint") /\ job.session = s
    <3>1. known \in BOOLEAN /\ w.st.utt \in Nat
      BY DEF Worlds, Stream
    <3>. QED
      BY <3>1 DEF TextJob, Question, Text
  <2>2. Append(w.end, job) \in Seq(Question("endpoint"))
    BY <2>1, QueuesTyped, AppendProperties
  <2>3. /\ x \in Worlds /\ x.st = w.st /\ x.end = Append(w.end, job)
        /\ x.fin = w.fin /\ x.par = w.par /\ x.cor = w.cor
    BY <2>2 DEF Worlds
  <2>4. WorkQueued(x) = QueueEndpoint(w, s)
    BY <1>2 DEF QueueEndpoint
  <2>. HIDE DEF x, job
  <2>5. \A t : Load(x, t) = Load(w, t) + Own(t, job)
    <3>. TAKE t
    <3>1. JobsOf(t, x.end) = JobsOf(t, w.end) + Own(t, job)
      BY <2>1, <2>3, JobsAppend, QueuesTyped
    <3>2. /\ JobsOf(t, w.fin) \in Nat /\ JobsOf(t, w.par) \in Nat
          /\ JobsOf(t, w.end) \in Nat /\ JobsOf(t, w.cor) \in Nat /\ Own(t, job) \in Nat
      BY QueuesTyped DEF Own
    <3>. QED
      BY <2>3, <3>1, <3>2 DEF Load
  <2>. QED
    BY <2>1, <2>3, <2>4, <2>5, AddCounts
<1>. QED
  BY <1>1, <1>2

LEMMA CorrectionCounts ==
  ASSUME NEW w \in Worlds, NEW s \in Sessions, NEW u \in Nat
  PROVE  Counts(w, QueueCorrection(w, s, u), s)
<1>1. CASE Len(w.cor) >= MaxText
  <2>. DEFINE e == Announce(w, "pipeline.warning")
  <2>1. e \in Worlds /\ Counts(w, e, s) /\ Counts(w, w, s)
    BY AnnounceSame, SameCounts DEF SameWork
  <2>2. QueueCorrection(w, s, u) = Then(w, Complete(e, u))
    BY <1>1 DEF QueueCorrection
  <2>. HIDE DEF e
  <2>3. Counts(w, Complete(e, u), s)
    BY <2>1, CompleteCounts, CountsTransitive
  <2>. QED
    BY <2>1, <2>2, <2>3, ThenEither
<1>2. CASE ~(Len(w.cor) >= MaxText)
  <2>. DEFINE n == Len(w.st.rows)
              previous == IF n > 1 THEN w.st.rows[n - 1].text ELSE "none"
              job == TextJob(s, u, "correction", TRUE, previous)
              x == [w EXCEPT !.cor = Append(@, job)]
  <2>1. job \in Question("correction") /\ job.session = s
    <3>1. w.st.rows \in Seq(Rows) /\ n \in Nat
      BY LenProperties DEF Worlds, Stream
    <3>2. n > 1 => w.st.rows[n - 1] \in Rows
      BY <3>1, ElementOfSeq
    <3>3. previous \in Text
      BY <3>2 DEF Rows, Text
    <3>. QED
      BY <3>3 DEF TextJob, Question
  <2>2. Append(w.cor, job) \in Seq(Question("correction"))
    BY <2>1, QueuesTyped, AppendProperties
  <2>3. /\ x \in Worlds /\ x.st = w.st /\ x.cor = Append(w.cor, job)
        /\ x.fin = w.fin /\ x.par = w.par /\ x.end = w.end
    BY <2>2 DEF Worlds
  <2>4. QueueCorrection(w, s, u) = Then(w, WorkQueued(x)) /\ Counts(w, w, s)
    BY <1>2, SameCounts DEF QueueCorrection, SameWork
  <2>. HIDE DEF x, job
  <2>5. \A t : Load(x, t) = Load(w, t) + Own(t, job)
    <3>. TAKE t
    <3>1. JobsOf(t, x.cor) = JobsOf(t, w.cor) + Own(t, job)
      BY <2>1, <2>3, JobsAppend, QueuesTyped
    <3>2. /\ JobsOf(t, w.fin) \in Nat /\ JobsOf(t, w.par) \in Nat
          /\ JobsOf(t, w.end) \in Nat /\ JobsOf(t, w.cor) \in Nat /\ Own(t, job) \in Nat
      BY QueuesTyped DEF Own
    <3>. QED
      BY <2>3, <3>1, <3>2 DEF Load
  <2>. QED
    BY <2>1, <2>3, <2>4, <2>5, AddCounts, ThenEither
<1>. QED
  BY <1>1, <1>2

LEMMA HeardCounts ==
  ASSUME NEW w \in Worlds, NEW s \in Sessions,
         NEW outcome \in {"start", "start_final", "candidate", "candidate_final",
                          "cancel", "final", "none"}
  PROVE  Counts(w, Heard(w, s, outcome), s)
<1>1. Counts(w, Start(w), s)
  <2>. DEFINE st == [w.st EXCEPT !.spoken = @ + 1, !.utt = w.st.spoken + 1,
                              !.detector = "speech"]
  <2>1. w.st \in Stream /\ w.st.spoken + 1 \in Nat
    BY DEF Worlds, Stream
  <2>2. st \in Stream /\ st.open = w.st.open /\ st.pending = w.st.pending
    BY <2>1 DEF Stream
  <2>3. Start(w) = [w EXCEPT !.st = st]
    BY DEF Start, Worlds, Stream
  <2>4. SameWork(w, Start(w))
    BY <2>2, <2>3 DEF SameWork, Worlds
  <2>. QED
    BY <2>4, SameCounts
<1>2. Counts(w, Finish(Start(w), s), s)
  <2>1. Start(w) \in Worlds
    BY <1>1 DEF Counts
  <2>2. Counts(Start(w), Finish(Start(w), s), s)
    BY <2>1, FinishCounts
  <2>. QED
    BY <1>1, <2>2, CountsTransitive
<1>3. \A d \in {"idle", "speech", "candidate"} :
        Counts(w, QueueEndpoint([w EXCEPT !.st.detector = d], s), s)
  <2>. TAKE d \in {"idle", "speech", "candidate"}
  <2>. DEFINE x == [w EXCEPT !.st.detector = d]
  <2>1. x \in Worlds /\ Counts(w, x, s)
    BY DetectorTyped, SameCounts DEF SameWork
  <2>. HIDE DEF x
  <2>2. Counts(w, QueueEndpoint(x, s), s)
    BY <2>1, EndpointCounts, CountsTransitive
  <2>. QED
    BY <2>2 DEF x
<1>4. Counts(w, [w EXCEPT !.st.detector = "speech"], s)
  BY DetectorTyped, SameCounts
<1>5. Counts(w, Finish(QueueEndpoint([w EXCEPT !.st.detector = "idle"], s), s), s)
  <2>. DEFINE q == QueueEndpoint([w EXCEPT !.st.detector = "idle"], s)
  <2>1. Counts(w, q, s)
    BY <1>3
  <2>. HIDE DEF q
  <2>2. q \in Worlds
    BY <2>1 DEF Counts
  <2>3. Counts(w, Finish(q, s), s)
    BY <2>1, <2>2, FinishCounts, CountsTransitive
  <2>. QED
    BY <2>3 DEF q
<1>6. Counts(w, w, s)
  BY SameCounts DEF SameWork
<1>. QED
  BY <1>1, <1>2, <1>3, <1>4, <1>5, <1>6, FinishCounts DEF Heard

-----------------------------------------------------------------------------
(* The counter equals the work. *)

WorkInv == PipelineType /\ PendingCounts

Running(t) == InFlight(t, asr) + InFlight(t, text)

LEMMA OutstandingIs ==
  ASSUME PipelineType, NEW s \in Sessions, NEW t
  PROVE  /\ Outstanding(t) = Load(World(s), t) + Running(t)
         /\ Load(World(s), t) \in Nat /\ Running(t) \in Nat
<1>1. World(s) \in Worlds
  BY WorldTyped
<1>2. /\ World(s).fin = finals /\ World(s).par = partials
      /\ World(s).end = endpoints /\ World(s).cor = corrections
  BY DEF World
<1>3. /\ JobsOf(t, finals) \in Nat /\ JobsOf(t, partials) \in Nat
      /\ JobsOf(t, endpoints) \in Nat /\ JobsOf(t, corrections) \in Nat
      /\ InFlight(t, asr) \in Nat /\ InFlight(t, text) \in Nat
  BY <1>1, <1>2, QueuesTyped DEF InFlight
<1>. QED
  BY <1>2, <1>3 DEF Outstanding, Load, Running

(* A step of one stream that keeps its balance of counter and work. *)
LEMMA StepKeeps ==
  ASSUME WorkInv, NEW s \in Sessions, NEW v \in Worlds, Becomes(s, v),
         asr' \in Job("final") \cup Job("partial") \cup {NoJob},
         text' \in Question("endpoint") \cup Question("correction") \cup {NoJob},
         asrAlive' \in BOOLEAN, textAlive' \in BOOLEAN,
         v.st.open => streams[s].open,
         v.st.pending + Load(World(s), s) + Running(s)
           = streams[s].pending + Load(v, s) + Running(s)',
         \A t \in Sessions : t # s =>
            Load(v, t) + Running(t)' = Load(World(s), t) + Running(t)
  PROVE  WorkInv'
<1>1. PipelineType'
  BY DEF WorkInv, PipelineType, Becomes, Worlds
<1>2. streams' = [streams EXCEPT ![s] = v.st] /\ streams \in [Sessions -> Stream]
  BY DEF WorkInv, PipelineType, Becomes
<1>3. ASSUME NEW t \in Sessions
      PROVE  /\ streams[t]'.open => streams[t]'.pending = Outstanding(t)'
             /\ streams[t]'.pending >= Outstanding(t)'
  <2>1. Outstanding(t) = Load(World(s), t) + Running(t)
        /\ Load(World(s), t) \in Nat /\ Running(t) \in Nat
    BY OutstandingIs DEF WorkInv
  <2>2. /\ JobsOf(t, v.fin) \in Nat /\ JobsOf(t, v.par) \in Nat
        /\ JobsOf(t, v.end) \in Nat /\ JobsOf(t, v.cor) \in Nat
        /\ InFlight(t, asr') \in Nat /\ InFlight(t, text') \in Nat
    BY QueuesTyped DEF InFlight
  <2>3. /\ Outstanding(t)' = Load(v, t) + Running(t)'
        /\ Load(v, t) \in Nat /\ Running(t)' \in Nat
    BY <1>2, <2>2 DEF Outstanding, Load, Running, Becomes
  <2>4. /\ streams[t].open => streams[t].pending = Outstanding(t)
        /\ streams[t].pending >= Outstanding(t)
        /\ streams[t].pending \in Nat
    BY <1>2 DEF WorkInv, PendingCounts, Stream
  <2>5. CASE t = s
    <3>1. streams[t]' = v.st /\ v.st.pending \in Nat
      BY <1>2, <2>5 DEF Worlds, Stream
    <3>2. v.st.pending + Load(World(s), t) + Running(t)
            = streams[t].pending + Load(v, t) + Running(t)'
      BY <2>5
    <3>3. v.st.pending + Outstanding(t) = streams[t].pending + Outstanding(t)'
      BY <2>1, <2>3, <2>4, <3>1, <3>2
    <3>4. Outstanding(t) \in Nat /\ Outstanding(t)' \in Nat
      BY <2>1, <2>3
    <3>5. v.st.open => streams[t].open
      BY <2>5
    <3>. QED
      BY <2>4, <3>1, <3>3, <3>4, <3>5
  <2>6. CASE t # s
    <3>1. streams[t]' = streams[t]
      BY <1>2, <2>6
    <3>2. Outstanding(t)' = Outstanding(t)
      BY <2>1, <2>3, <2>6
    <3>. QED
      BY <2>4, <3>1, <3>2
  <2>. QED
    BY <2>5, <2>6
<1>. QED
  BY <1>1, <1>3 DEF WorkInv, PendingCounts

(* A handler that waits for no answer. *)
LEMMA HandlerKeeps ==
  ASSUME WorkInv, NEW s \in Sessions, NEW v, Counts(World(s), v, s), Becomes(s, v),
         UNCHANGED <<asr, text, asrAlive, textAlive>>
  PROVE  WorkInv'
<1>1. v \in Worlds /\ World(s).st = streams[s] /\ v.st.open = streams[s].open
  BY DEF Counts, World
<1>2. \A t : Running(t)' = Running(t)
  BY DEF Running, InFlight
<1>3. v.st.pending + Load(World(s), s) = streams[s].pending + Load(v, s)
  BY <1>1 DEF Counts
<1>4. /\ v.st.pending \in Nat /\ streams[s].pending \in Nat /\ Load(v, s) \in Nat
      /\ Load(World(s), s) \in Nat /\ Running(s) \in Nat
  BY <1>1, LoadTyped, OutstandingIs DEF WorkInv, PipelineType, Worlds, Stream
<1>5. v.st.pending + Load(World(s), s) + Running(s)
        = streams[s].pending + Load(v, s) + Running(s)'
  BY <1>2, <1>3, <1>4
<1>6. \A t \in Sessions : t # s => Load(v, t) + Running(t)' = Load(World(s), t) + Running(t)
  BY <1>2 DEF Counts
<1>7. /\ asr' \in Job("final") \cup Job("partial") \cup {NoJob}
      /\ text' \in Question("endpoint") \cup Question("correction") \cup {NoJob}
      /\ asrAlive' \in BOOLEAN /\ textAlive' \in BOOLEAN
  BY DEF WorkInv, PipelineType
<1>. QED
  BY <1>1, <1>5, <1>6, <1>7, StepKeeps

(* The running job of one loop, which the other loop's is not. *)
LEMMA WorkDoneTyped ==
  ASSUME NEW w \in Worlds
  PROVE  /\ WorkDone(w) \in Worlds
         /\ WorkDone(w).st.open = w.st.open
         /\ WorkDone(w).st.pending = IF w.st.pending = 0 THEN 0 ELSE w.st.pending - 1
         /\ WorkDone(w).fin = w.fin /\ WorkDone(w).par = w.par
         /\ WorkDone(w).end = w.end /\ WorkDone(w).cor = w.cor
<1>. DEFINE n == IF w.st.pending = 0 THEN 0 ELSE w.st.pending - 1
            st == [w.st EXCEPT !.pending = n]
<1>1. w.st \in Stream /\ w.st.pending \in Nat
  BY DEF Worlds, Stream
<1>2. n \in Nat
  BY <1>1
<1>3. WorkDone(w) = [w EXCEPT !.st = st]
  BY DEF WorkDone, Worlds, Stream
<1>. HIDE DEF n
<1>4. st \in Stream /\ st.open = w.st.open /\ st.pending = n
  BY <1>1, <1>2 DEF Stream
<1>5. [w EXCEPT !.st = st] \in Worlds
  BY <1>4 DEF Worlds
<1>. QED
  BY <1>3, <1>4, <1>5 DEF n, Worlds

(* An answer is handled: what it queued is counted, and its job no longer. *)
LEMMA AnswerKeeps ==
  ASSUME WorkInv, NEW s \in Sessions, NEW w, Counts(World(s), w, s),
         Becomes(s, WorkDone(w)), asrAlive' \in BOOLEAN, textAlive' \in BOOLEAN,
         asr' \in Job("final") \cup Job("partial") \cup {NoJob},
         text' \in Question("endpoint") \cup Question("correction") \cup {NoJob},
         \A t \in Sessions : Running(t) = Running(t)' + (IF t = s THEN 1 ELSE 0),
         \A t \in Sessions : Running(t)' \in Nat
  PROVE  WorkInv'
<1>. DEFINE v == WorkDone(w)
<1>1. w \in Worlds /\ World(s).st = streams[s] /\ w.st.open = streams[s].open
  BY DEF Counts, World
<1>2. /\ v \in Worlds /\ v.st.open = w.st.open
      /\ v.st.pending = IF w.st.pending = 0 THEN 0 ELSE w.st.pending - 1
      /\ v.fin = w.fin /\ v.par = w.par /\ v.end = w.end /\ v.cor = w.cor
  BY <1>1, WorkDoneTyped
<1>. HIDE DEF v
<1>3. \A t : Load(v, t) = Load(w, t)
  BY <1>2 DEF Load
<1>4. w.st.pending + Load(World(s), s) = streams[s].pending + Load(w, s)
  BY <1>1 DEF Counts
<1>5. streams[s].pending >= Load(World(s), s) + Running(s)
  BY OutstandingIs DEF WorkInv, PendingCounts
<1>6. /\ w.st.pending \in Nat /\ streams[s].pending \in Nat /\ Load(w, s) \in Nat
      /\ Load(World(s), s) \in Nat /\ Running(s) \in Nat
  BY <1>1, LoadTyped, OutstandingIs DEF WorkInv, PipelineType, Worlds, Stream
<1>7. Running(s) = Running(s)' + 1 /\ Running(s)' \in Nat
  OBVIOUS
<1>8. w.st.pending # 0
  BY <1>4, <1>5, <1>6, <1>7
<1>9. v.st.pending + Load(World(s), s) + Running(s)
        = streams[s].pending + Load(v, s) + Running(s)'
  <2>1. v.st.pending = w.st.pending - 1 /\ Load(v, s) = Load(w, s)
    BY <1>2, <1>3, <1>8
  <2>. QED
    BY <1>4, <1>6, <1>7, <2>1
<1>10. ASSUME NEW t \in Sessions, t # s
       PROVE  Load(v, t) + Running(t)' = Load(World(s), t) + Running(t)
  <2>1. Load(v, t) = Load(World(s), t)
    BY <1>3, <1>10 DEF Counts
  <2>2. Running(t) = Running(t)' /\ Running(t)' \in Nat
    <3>1. Running(t) = Running(t)' + 0 /\ Running(t)' \in Nat
      BY <1>10
    <3>. QED
      BY <3>1
  <2>. QED
    BY <2>1, <2>2
<1>11. Becomes(s, v) /\ (v.st.open => streams[s].open)
  BY <1>1, <1>2 DEF v
<1>. QED
  BY <1>2, <1>9, <1>10, <1>11, StepKeeps

(* A job is taken from its queue; one whose stream is closed is dropped. *)
LEMMA TakeKeeps ==
  ASSUME WorkInv, UNCHANGED <<streams, asrAlive, textAlive>>, PipelineType', NEW job, job # NoJob,
         \A t \in Sessions :
           /\ Load(World(t), t) = Load(World(t), t)' + Own(t, job)
           /\ Running(t)' = Running(t) + InFlight(t, Taken(job))
  PROVE  WorkInv'
<1>1. ASSUME NEW t \in Sessions
      PROVE  /\ streams[t]'.open => streams[t]'.pending = Outstanding(t)'
             /\ streams[t]'.pending >= Outstanding(t)'
  <2>1. Outstanding(t) = Load(World(t), t) + Running(t)
        /\ Load(World(t), t) \in Nat /\ Running(t) \in Nat
    BY OutstandingIs DEF WorkInv
  <2>2. /\ JobsOf(t, finals') \in Nat /\ JobsOf(t, partials') \in Nat
        /\ JobsOf(t, endpoints') \in Nat /\ JobsOf(t, corrections') \in Nat
        /\ InFlight(t, asr') \in Nat /\ InFlight(t, text') \in Nat
    BY JobsCount DEF PipelineType, InFlight
  <2>3. /\ Outstanding(t)' = Load(World(t), t)' + Running(t)'
        /\ Load(World(t), t)' \in Nat /\ Running(t)' \in Nat
    BY <2>2 DEF Outstanding, Load, Running, World
  <2>4. /\ streams[t].open => streams[t].pending = Outstanding(t)
        /\ streams[t].pending >= Outstanding(t)
        /\ streams[t].pending \in Nat /\ streams'[t] = streams[t]
    BY DEF WorkInv, PendingCounts, PipelineType, Stream
  <2>5. InFlight(t, Taken(job)) \in {0, 1} /\ Own(t, job) \in {0, 1}
    BY DEF InFlight, Own
  <2>6. InFlight(t, Taken(job)) <= Own(t, job)
    BY DEF InFlight, Own, Taken
  <2>7. streams[t].open => InFlight(t, Taken(job)) = Own(t, job)
    BY DEF InFlight, Own, Taken
  <2>. QED
    BY <2>1, <2>3, <2>4, <2>5, <2>6, <2>7
<1>. QED
  BY <1>1 DEF WorkInv, PendingCounts

-----------------------------------------------------------------------------
(* The steps *)

LEMMA InitKeeps == Init => WorkInv
<1>. SUFFICES ASSUME Init PROVE WorkInv
  OBVIOUS
<1>1. Opened \in Stream
  <2>1. /\ <<>> \in Seq(Rows) /\ <<>> \in Seq(Event)
        /\ [u \in Utterances |-> 0] \in [Utterances -> Nat]
    OBVIOUS
  <2>. QED
    BY <2>1 DEF Opened, Stream
<1>2. PipelineType
  BY <1>1 DEF Init, PipelineType
<1>3. ASSUME NEW s \in Sessions PROVE streams[s].pending = 0 /\ Outstanding(s) = 0
  <2>1. JobsOf(s, finals) = 0 /\ JobsOf(s, partials) = 0
        /\ JobsOf(s, endpoints) = 0 /\ JobsOf(s, corrections) = 0
    BY JobsEmpty DEF Init
  <2>2. InFlight(s, asr) = 0 /\ InFlight(s, text) = 0
    BY DEF Init, InFlight
  <2>3. streams[s].pending = 0
    BY DEF Init, Opened
  <2>. QED
    BY <2>1, <2>2, <2>3 DEF Outstanding
<1>4. PendingCounts
  <2>. SUFFICES ASSUME NEW s \in Sessions
                PROVE  streams[s].pending = Outstanding(s) /\ streams[s].pending >= Outstanding(s)
    BY DEF PendingCounts
  <2>. QED
    BY <1>3
<1>. QED
  BY <1>2, <1>4 DEF WorkInv

LEMMA HandledCounts ==
  ASSUME NEW u \in Worlds, NEW w, NEW s \in Sessions, Counts(u, w, s),
         NEW what \in {"nothing", "handler", "stop"}
  PROVE  Counts(u, Handled(w, what), s)
<1>1. w \in Worlds
  BY DEF Counts
<1>. QED
  BY <1>1, HandledSame, SameCounts, CountsTransitive

LEMMA AcceptPcmKeeps ==
  ASSUME WorkInv, NEW s \in Sessions, AcceptPcm(s)
  PROVE  WorkInv'
<1>1. World(s) \in Worlds /\ UNCHANGED <<asr, text, asrAlive, textAlive>>
  BY WorldTyped DEF WorkInv, AcceptPcm
<1>2. PICK outcome \in Outcomes(streams[s]) :
        \/ Becomes(s, Handled(Heard(World(s), s, outcome), "handler"))
        \/ Becomes(s, Handled(QueuePartial(Heard(World(s), s, outcome), s), "handler"))
  BY DEF AcceptPcm
<1>3. outcome \in {"start", "start_final", "candidate", "candidate_final",
                  "cancel", "final", "none"}
  BY <1>2 DEF Outcomes
<1>. DEFINE w == Heard(World(s), s, outcome)
<1>4. Counts(World(s), w, s)
  BY <1>1, <1>3, HeardCounts
<1>. HIDE DEF w
<1>5. CASE Becomes(s, Handled(w, "handler"))
  <2>1. Counts(World(s), Handled(w, "handler"), s)
    BY <1>1, <1>4, HandledCounts
  <2>. QED
    BY <1>1, <1>5, <2>1, HandlerKeeps
<1>6. CASE Becomes(s, Handled(QueuePartial(w, s), "handler"))
  <2>1. w \in Worlds
    BY <1>4 DEF Counts
  <2>2. Counts(World(s), QueuePartial(w, s), s)
    BY <1>1, <1>4, <2>1, PartialCounts, CountsTransitive
  <2>3. Counts(World(s), Handled(QueuePartial(w, s), "handler"), s)
    BY <1>1, <2>2, HandledCounts
  <2>. QED
    BY <1>1, <1>6, <2>3, HandlerKeeps
<1>. QED
  BY <1>2, <1>5, <1>6 DEF w

LEMMA BeginStopCounts ==
  ASSUME NEW w \in Worlds, NEW s \in Sessions
  PROVE  Counts(w, BeginStop(w, s), s)
<1>. DEFINE v == [w EXCEPT !.st.stopping = TRUE]
            x == [w EXCEPT !.st.stopping = TRUE, !.st.detector = "idle", !.st.utt = 0]
<1>1. SameWork(w, v) /\ SameWork(w, x) /\ w.st.utt \in Nat
  BY DEF SameWork, Worlds, Stream
<1>2. /\ Counts(w, v, s) /\ v \in Worlds
      /\ Counts(w, x, s) /\ x \in Worlds
  BY <1>1, SameCounts DEF SameWork
<1>3. BeginStop(w, s) \in {v, Handled(QueueFinal(x, s, w.st.utt), "stop")}
  BY DEF BeginStop
<1>. HIDE DEF v, x
<1>4. Counts(w, QueueFinal(x, s, w.st.utt), s)
  BY <1>1, <1>2, FinalCounts, CountsTransitive
<1>5. Counts(w, Handled(QueueFinal(x, s, w.st.utt), "stop"), s)
  BY <1>4, HandledCounts
<1>. QED
  BY <1>2, <1>3, <1>5

LEMMA StopKeeps ==
  ASSUME WorkInv, NEW s \in Sessions, Stop(s)
  PROVE  WorkInv'
<1>1. World(s) \in Worlds
  BY WorldTyped DEF WorkInv
<1>2. Counts(World(s), BeginStop(World(s), s), s)
  BY <1>1, BeginStopCounts
<1>. QED
  BY <1>2, HandlerKeeps DEF Stop

(* A closed stream keeps its count, and is not held to more than that. *)
LEMMA CloseKeeps ==
  ASSUME WorkInv, NEW s \in Sessions, Close(s)
  PROVE  WorkInv'
<1>. DEFINE w == [World(s) EXCEPT !.st.open = FALSE]
            v == IF streams[s].stopping THEN w ELSE BeginStop(w, s)
<1>1. World(s) \in Worlds /\ World(s).st = streams[s]
  BY WorldTyped DEF WorkInv, World
<1>2. /\ w \in Worlds /\ w.st.open = FALSE /\ w.st.pending = streams[s].pending
      /\ w.fin = World(s).fin /\ w.par = World(s).par
      /\ w.end = World(s).end /\ w.cor = World(s).cor
  BY <1>1 DEF Worlds, Stream
<1>. HIDE DEF w
<1>3. \A t : Load(w, t) = Load(World(s), t)
  BY <1>2 DEF Load
<1>4. Counts(w, v, s)
  BY <1>2, BeginStopCounts, SameCounts DEF SameWork
<1>5. Becomes(s, v) /\ UNCHANGED <<asr, text, asrAlive, textAlive>>
  BY DEF Close, w
<1>. HIDE DEF v
<1>6. v \in Worlds /\ v.st.open = FALSE
  BY <1>2, <1>4 DEF Counts
<1>7. \A t : Running(t)' = Running(t)
  BY <1>5 DEF Running, InFlight
<1>8. v.st.pending + Load(World(s), s) + Running(s)
        = streams[s].pending + Load(v, s) + Running(s)'
  <2>1. v.st.pending + Load(World(s), s) = streams[s].pending + Load(v, s)
    BY <1>2, <1>3, <1>4 DEF Counts
  <2>2. /\ v.st.pending \in Nat /\ streams[s].pending \in Nat /\ Load(v, s) \in Nat
        /\ Load(World(s), s) \in Nat /\ Running(s) \in Nat
    BY <1>1, <1>6, LoadTyped, OutstandingIs DEF WorkInv, PipelineType, Worlds, Stream
  <2>. QED
    BY <1>7, <2>1, <2>2
<1>9. \A t \in Sessions : t # s => Load(v, t) + Running(t)' = Load(World(s), t) + Running(t)
  BY <1>3, <1>4, <1>7 DEF Counts
<1>10. /\ asr' \in Job("final") \cup Job("partial") \cup {NoJob}
       /\ text' \in Question("endpoint") \cup Question("correction") \cup {NoJob}
       /\ asrAlive' \in BOOLEAN /\ textAlive' \in BOOLEAN
  BY <1>5 DEF WorkInv, PipelineType
<1>. QED
  BY <1>5, <1>6, <1>8, <1>9, <1>10, StepKeeps

LEMMA RowsSame ==
  ASSUME NEW w \in Worlds, NEW rows \in Seq(Rows)
  PROVE  SameWork(w, [w EXCEPT !.st.rows = rows])
  BY DEF SameWork, Worlds, Stream

LEMMA StopDoneKeeps ==
  ASSUME WorkInv, NEW s \in Sessions, StopDone(s)
  PROVE  WorkInv'
<1>. DEFINE w == World(s)
            st == [w.st EXCEPT !.rows = Finalize(w.st.rows), !.state = "stopped"]
            x == [w EXCEPT !.st = st]
<1>1. w \in Worlds
  BY WorldTyped DEF WorkInv
<1>. HIDE DEF w
<1>2. w.st \in Stream /\ Finalize(w.st.rows) \in Seq(Rows)
  <2>1. w.st \in Stream /\ w.st.rows \in Seq(Rows) /\ "none" \in Text
    BY <1>1 DEF Worlds, Stream, Text
  <2>. QED
    BY <2>1, ReviseTyped
<1>3. st \in Stream /\ st.open = w.st.open /\ st.pending = w.st.pending
  BY <1>2 DEF Stream
<1>4. x = [w EXCEPT !.st.rows = Finalize(@), !.st.state = "stopped"]
  BY <1>1 DEF Worlds, Stream
<1>5. SameWork(w, x) /\ x \in Worlds
  BY <1>1, <1>3 DEF SameWork, Worlds
<1>. HIDE DEF x
<1>6. SameWork(x, Emit(x, "stream.stopped", 0))
  BY <1>5, EmitSame
<1>7. Counts(w, Emit(x, "stream.stopped", 0), s)
  <2>1. Counts(w, x, s) /\ Counts(x, Emit(x, "stream.stopped", 0), s)
    BY <1>1, <1>5, <1>6, SameCounts
  <2>. QED
    BY <1>1, <2>1, CountsTransitive
<1>8. Becomes(s, Emit(x, "stream.stopped", 0)) /\ UNCHANGED <<asr, text, asrAlive, textAlive>>
  BY <1>4 DEF StopDone, w
<1>. QED
  BY <1>7, <1>8, HandlerKeeps DEF w

LEMMA EvictKeeps ==
  ASSUME WorkInv, NEW s \in Sessions, Evict(s)
  PROVE  WorkInv'
<1>. DEFINE w == World(s)
            st == [w.st EXCEPT !.known = FALSE]
            v == [w EXCEPT !.st = st]
<1>1. w \in Worlds /\ w.st = streams[s]
  BY WorldTyped DEF WorkInv, World
<1>2. st \in Stream /\ st.open = w.st.open /\ st.pending = w.st.pending
  BY <1>1 DEF Worlds, Stream
<1>3. SameWork(w, v)
  BY <1>1, <1>2 DEF SameWork, Worlds
<1>4. Becomes(s, v) /\ UNCHANGED <<asr, text, asrAlive, textAlive>>
  BY <1>1 DEF Evict, Becomes, World, queues
<1>. HIDE DEF v
<1>5. Counts(World(s), v, s)
  BY <1>1, <1>3, SameCounts
<1>. QED
  BY <1>4, <1>5, HandlerKeeps

LEMMA AsrTakeKeeps ==
  ASSUME WorkInv, AsrTake
  PROVE  WorkInv'
<1>1. /\ finals \in Seq(Job("final")) /\ partials \in Seq(Job("partial"))
      /\ endpoints \in Seq(Question("endpoint")) /\ corrections \in Seq(Question("correction"))
  BY DEF WorkInv, PipelineType
<1>2. /\ UNCHANGED <<streams, endpoints, corrections, text, asrAlive, textAlive>>
      /\ asr = NoJob
  BY DEF AsrTake
<1>3. ASSUME NEW mode, NEW q \in Seq(Job(mode)), q # <<>>
      PROVE  Head(q) \in Job(mode) /\ Tail(q) \in Seq(Job(mode))
  BY <1>3, HeadTailProperties, EmptySeq
<1>4. \A t : \A job : asr' = Taken(job) => Running(t)' = Running(t) + InFlight(t, Taken(job))
  <2>. TAKE t
  <2>. TAKE job
  <2>1. InFlight(t, asr) = 0 /\ InFlight(t, text) \in Nat /\ InFlight(t, Taken(job)) \in Nat
    BY <1>2 DEF InFlight
  <2>2. text' = text
    BY <1>2
  <2>. QED
    BY <2>1, <2>2 DEF Running
<1>5. \A t : /\ JobsOf(t, finals) \in Nat /\ JobsOf(t, partials) \in Nat
             /\ JobsOf(t, endpoints) \in Nat /\ JobsOf(t, corrections) \in Nat
             /\ Load(World(t), t) = JobsOf(t, finals) + JobsOf(t, partials)
                                      + JobsOf(t, endpoints) + JobsOf(t, corrections)
             /\ Load(World(t), t)' = JobsOf(t, finals') + JobsOf(t, partials')
                                      + JobsOf(t, endpoints) + JobsOf(t, corrections)
  BY <1>1, <1>2, JobsCount DEF Load, World
<1>6. CASE /\ finals # <<>> /\ finals' = Tail(finals) /\ UNCHANGED partials
           /\ asr' = Taken(Head(finals))
  <2>. DEFINE job == Head(finals)
  <2>1. job \in Job("final") /\ Tail(finals) \in Seq(Job("final"))
    BY <1>1, <1>3, <1>6
  <2>2. job # NoJob /\ Taken(job) \in Job("final") \cup {NoJob}
    BY <2>1 DEF Job, NoJob, Taken
  <2>3. PipelineType'
    BY <1>2, <1>6, <2>1, <2>2 DEF WorkInv, PipelineType
  <2>4. \A t : JobsOf(t, finals) = JobsOf(t, finals') + Own(t, job) /\ JobsOf(t, finals') \in Nat
    BY <1>1, <1>6, <2>1, JobsTail, JobsCount
  <2>5. \A t : Own(t, job) \in Nat
    BY DEF Own
  <2>6. \A t : Load(World(t), t) = Load(World(t), t)' + Own(t, job)
    <3>. TAKE t
    <3>1. partials' = partials
      BY <1>6
    <3>. QED
      BY <1>5, <2>4, <2>5, <3>1
  <2>. QED
    BY <1>2, <1>4, <1>6, <2>2, <2>3, <2>6, TakeKeeps
<1>7. CASE /\ partials # <<>> /\ partials' = Tail(partials) /\ UNCHANGED finals
           /\ asr' = Taken(Head(partials))
  <2>. DEFINE job == Head(partials)
  <2>1. job \in Job("partial") /\ Tail(partials) \in Seq(Job("partial"))
    BY <1>1, <1>3, <1>7
  <2>2. job # NoJob /\ Taken(job) \in Job("partial") \cup {NoJob}
    BY <2>1 DEF Job, NoJob, Taken
  <2>3. PipelineType'
    BY <1>2, <1>7, <2>1, <2>2 DEF WorkInv, PipelineType
  <2>4. \A t : JobsOf(t, partials) = JobsOf(t, partials') + Own(t, job) /\ JobsOf(t, partials') \in Nat
    BY <1>1, <1>7, <2>1, JobsTail, JobsCount
  <2>5. \A t : Own(t, job) \in Nat
    BY DEF Own
  <2>6. \A t : Load(World(t), t) = Load(World(t), t)' + Own(t, job)
    <3>. TAKE t
    <3>1. finals' = finals
      BY <1>7
    <3>. QED
      BY <1>5, <2>4, <2>5, <3>1
  <2>. QED
    BY <1>2, <1>4, <1>7, <2>2, <2>3, <2>6, TakeKeeps
<1>. QED
  BY <1>6, <1>7 DEF AsrTake

LEMMA TextTakeKeeps ==
  ASSUME WorkInv, TextTake
  PROVE  WorkInv'
<1>1. /\ finals \in Seq(Job("final")) /\ partials \in Seq(Job("partial"))
      /\ endpoints \in Seq(Question("endpoint")) /\ corrections \in Seq(Question("correction"))
  BY DEF WorkInv, PipelineType
<1>2. /\ UNCHANGED <<streams, finals, partials, asr, asrAlive, textAlive>>
      /\ text = NoJob
  BY DEF TextTake
<1>3. ASSUME NEW mode, NEW q \in Seq(Question(mode)), q # <<>>
      PROVE  Head(q) \in Question(mode) /\ Tail(q) \in Seq(Question(mode))
  BY <1>3, HeadTailProperties, EmptySeq
<1>4. \A t : \A job : text' = Taken(job) => Running(t)' = Running(t) + InFlight(t, Taken(job))
  <2>. TAKE t
  <2>. TAKE job
  <2>1. InFlight(t, text) = 0 /\ InFlight(t, asr) \in Nat /\ InFlight(t, Taken(job)) \in Nat
    BY <1>2 DEF InFlight
  <2>2. asr' = asr
    BY <1>2
  <2>. QED
    BY <2>1, <2>2 DEF Running
<1>5. \A t : /\ JobsOf(t, finals) \in Nat /\ JobsOf(t, partials) \in Nat
             /\ JobsOf(t, endpoints) \in Nat /\ JobsOf(t, corrections) \in Nat
             /\ Load(World(t), t) = JobsOf(t, finals) + JobsOf(t, partials)
                                      + JobsOf(t, endpoints) + JobsOf(t, corrections)
             /\ Load(World(t), t)' = JobsOf(t, finals) + JobsOf(t, partials)
                                      + JobsOf(t, endpoints') + JobsOf(t, corrections')
  BY <1>1, <1>2, JobsCount DEF Load, World
<1>6. CASE /\ endpoints # <<>> /\ endpoints' = Tail(endpoints) /\ UNCHANGED corrections
           /\ text' = Taken(Head(endpoints))
  <2>. DEFINE job == Head(endpoints)
  <2>1. job \in Question("endpoint") /\ Tail(endpoints) \in Seq(Question("endpoint"))
    BY <1>1, <1>3, <1>6
  <2>2. job # NoJob /\ Taken(job) \in Question("endpoint") \cup {NoJob}
    BY <2>1 DEF Question, NoJob, Taken
  <2>3. PipelineType'
    BY <1>2, <1>6, <2>1, <2>2 DEF WorkInv, PipelineType
  <2>4. \A t : /\ JobsOf(t, endpoints) = JobsOf(t, endpoints') + Own(t, job)
               /\ JobsOf(t, endpoints') \in Nat
    BY <1>1, <1>6, <2>1, JobsTail, JobsCount
  <2>5. \A t : Own(t, job) \in Nat
    BY DEF Own
  <2>6. \A t : Load(World(t), t) = Load(World(t), t)' + Own(t, job)
    <3>. TAKE t
    <3>1. corrections' = corrections
      BY <1>6
    <3>. QED
      BY <1>5, <2>4, <2>5, <3>1
  <2>. QED
    BY <1>2, <1>4, <1>6, <2>2, <2>3, <2>6, TakeKeeps
<1>7. CASE /\ corrections # <<>> /\ corrections' = Tail(corrections) /\ UNCHANGED endpoints
           /\ text' = Taken(Head(corrections))
  <2>. DEFINE job == Head(corrections)
  <2>1. job \in Question("correction") /\ Tail(corrections) \in Seq(Question("correction"))
    BY <1>1, <1>3, <1>7
  <2>2. job # NoJob /\ Taken(job) \in Question("correction") \cup {NoJob}
    BY <2>1 DEF Question, NoJob, Taken
  <2>3. PipelineType'
    BY <1>2, <1>7, <2>1, <2>2 DEF WorkInv, PipelineType
  <2>4. \A t : /\ JobsOf(t, corrections) = JobsOf(t, corrections') + Own(t, job)
               /\ JobsOf(t, corrections') \in Nat
    BY <1>1, <1>7, <2>1, JobsTail, JobsCount
  <2>5. \A t : Own(t, job) \in Nat
    BY DEF Own
  <2>6. \A t : Load(World(t), t) = Load(World(t), t)' + Own(t, job)
    <3>. TAKE t
    <3>1. endpoints' = endpoints
      BY <1>7
    <3>. QED
      BY <1>5, <2>4, <2>5, <3>1
  <2>. QED
    BY <1>2, <1>4, <1>7, <2>2, <2>3, <2>6, TakeKeeps
<1>. QED
  BY <1>6, <1>7 DEF TextTake

LEMMA AcceptPartialCounts ==
  ASSUME NEW w \in Worlds, NEW s \in Sessions, NEW job \in Job("partial")
  PROVE  Counts(w, AcceptPartial(w, job), s)
<1>1. Accept(w.st.rows, job.utt, "partial", FALSE) \in Seq(Rows)
  BY AcceptTyped DEF Worlds, Stream, Job, Text
<1>2. SameWork(w, [w EXCEPT !.st.rows = Accept(w.st.rows, job.utt, "partial", FALSE)])
  BY <1>1, RowsSame
<1>3. [w EXCEPT !.st.rows = Accept(@, job.utt, "partial", FALSE)]
        = [w EXCEPT !.st.rows = Accept(w.st.rows, job.utt, "partial", FALSE)]
  BY DEF Worlds, Stream
<1>4. SameWork(w, w)
  BY DEF SameWork
<1>5. SameWork(w, Emit([w EXCEPT !.st.rows = Accept(@, job.utt, "partial", FALSE)],
                       "asr.partial", job.utt))
  <2>. DEFINE x == [w EXCEPT !.st.rows = Accept(@, job.utt, "partial", FALSE)]
  <2>1. x \in Worlds /\ SameWork(w, x) /\ job.utt \in Nat
    BY <1>2, <1>3 DEF SameWork, Job
  <2>. HIDE DEF x
  <2>2. SameWork(x, Emit(x, "asr.partial", job.utt))
    BY <2>1, EmitSame
  <2>3. SameWork(w, Emit(x, "asr.partial", job.utt))
    BY <2>1, <2>2 DEF SameWork
  <2>. QED
    BY <2>3 DEF x
<1>. QED
  BY <1>4, <1>5, SameCounts DEF AcceptPartial

LEMMA AcceptFinalCounts ==
  ASSUME NEW w \in Worlds, NEW s \in Sessions, NEW job \in Job("final"), job.session = s
  PROVE  Counts(w, AcceptFinal(w, job), s)
<1>. DEFINE x == [w EXCEPT !.st.rows = Accept(@, job.utt, "final", TRUE)]
            e == Emit(x, "asr.final", job.utt)
<1>1. Accept(w.st.rows, job.utt, "final", TRUE) \in Seq(Rows) /\ job.utt \in Nat
  BY AcceptTyped DEF Worlds, Stream, Job, Text
<1>2. x = [w EXCEPT !.st.rows = Accept(w.st.rows, job.utt, "final", TRUE)]
  BY DEF Worlds, Stream
<1>3. SameWork(w, x)
  BY <1>1, <1>2, RowsSame
<1>. HIDE DEF x
<1>4. Counts(w, x, s) /\ x \in Worlds
  BY <1>3, SameCounts DEF SameWork
<1>5. SameWork(x, e)
  BY <1>1, <1>4, EmitSame
<1>6. Counts(x, e, s) /\ e \in Worlds
  BY <1>4, <1>5, SameCounts DEF SameWork
<1>. HIDE DEF e
<1>7. Counts(e, QueueCorrection(e, s, job.utt), s)
  BY <1>1, <1>6, CorrectionCounts
<1>8. Counts(w, e, s)
  BY <1>4, <1>6, CountsTransitive
<1>9. Counts(w, QueueCorrection(e, s, job.utt), s)
  BY <1>7, <1>8, CountsTransitive
<1>10. Counts(w, [w EXCEPT !.raises = TRUE], s)
  <2>1. SameWork(w, [w EXCEPT !.raises = TRUE])
    BY DEF SameWork, Worlds
  <2>. QED
    BY <2>1, SameCounts
<1>. QED
  BY <1>9, <1>10 DEF AcceptFinal, x, e

LEMMA CorrectedCounts ==
  ASSUME NEW w \in Worlds, NEW s \in Sessions, NEW job \in Question("correction"),
         NEW previous \in Text, NEW current \in Text
  PROVE  Counts(w, Corrected(w, job, previous, current), s)
<1>. DEFINE x == [w EXCEPT !.st.rows = Revise(@, previous, current)]
            e == Announce(x, "transcript.revised")
<1>1. Revise(w.st.rows, previous, current) \in Seq(Rows) /\ job.utt \in Nat
  BY ReviseTyped DEF Worlds, Stream, Question
<1>2. x = [w EXCEPT !.st.rows = Revise(w.st.rows, previous, current)]
  BY DEF Worlds, Stream
<1>3. SameWork(w, x)
  BY <1>1, <1>2, RowsSame
<1>4. Corrected(w, job, previous, current) \in {w, Then(e, Complete(e, job.utt))}
  BY DEF Corrected
<1>. HIDE DEF x
<1>5. SameWork(w, e) /\ e \in Worlds
  BY <1>3, AnnounceSame DEF SameWork
<1>6. Counts(w, e, s) /\ Counts(w, w, s)
  BY <1>5, SameCounts DEF SameWork
<1>. HIDE DEF e
<1>7. Counts(w, Complete(e, job.utt), s)
  BY <1>1, <1>5, <1>6, CompleteCounts, CountsTransitive
<1>. QED
  BY <1>4, <1>6, <1>7, ThenEither

LEMMA GiveUpCounts ==
  ASSUME NEW w \in Worlds, NEW s \in Sessions, NEW u \in Nat
  PROVE  Counts(w, GiveUp(w, u), s)
<1>. DEFINE e == Announce(w, "pipeline.warning")
<1>1. e \in Worlds /\ Counts(w, e, s)
  BY AnnounceSame, SameCounts DEF SameWork
<1>2. GiveUp(w, u) = Then(e, Complete(e, u))
  BY DEF GiveUp
<1>. HIDE DEF e
<1>3. Counts(w, Complete(e, u), s)
  BY <1>1, CompleteCounts, CountsTransitive
<1>. QED
  BY <1>1, <1>2, <1>3, ThenEither

LEMMA AsrAnswerKeeps ==
  ASSUME WorkInv, AsrAnswer
  PROVE  WorkInv'
<1>. DEFINE s == asr.session
<1>1. /\ asr \in Job("final") \cup Job("partial") /\ s \in Sessions /\ asr.utt \in Nat
      /\ asr' = NoJob /\ text' = text /\ textAlive' = textAlive
  BY DEF AsrAnswer, WorkInv, PipelineType, Job
<1>2. /\ asr.mode = "final" => asr \in Job("final")
      /\ asr.mode = "partial" => asr \in Job("partial")
  BY <1>1 DEF Job
<1>3. World(s) \in Worlds
  BY <1>1, WorldTyped DEF WorkInv
<1>4. PICK w : /\ Counts(World(s), w, s) /\ Becomes(s, WorkDone(w))
               /\ asrAlive' \in BOOLEAN
  <2>1. Counts(World(s), Failed(World(s), asr), s)
    BY <1>1, <1>3, GiveUpCounts, AnnounceSame, SameCounts DEF Failed
  <2>2. asr.mode = "partial" => Counts(World(s), AcceptPartial(World(s), asr), s)
    BY <1>1, <1>2, <1>3, AcceptPartialCounts
  <2>3. asr.mode # "partial" => Counts(World(s), AcceptFinal(World(s), asr), s)
    <3>1. asr.mode # "partial" => asr.mode = "final"
      BY <1>1 DEF Job
    <3>. QED
      BY <1>1, <1>2, <1>3, <3>1, AcceptFinalCounts
  <2>4. PICK w \in {Failed(World(s), asr),
                   IF asr.mode = "partial" THEN AcceptPartial(World(s), asr)
                   ELSE AcceptFinal(World(s), asr)} :
          Becomes(s, WorkDone(w)) /\ asrAlive' = (asrAlive /\ ~w.raises)
    BY DEF AsrAnswer
  <2>. QED
    BY <2>1, <2>2, <2>3, <2>4
<1>5. ASSUME NEW t \in Sessions
      PROVE  /\ Running(t) = Running(t)' + (IF t = s THEN 1 ELSE 0)
             /\ Running(t)' \in Nat
  <2>1. /\ InFlight(t, asr) = IF t = s THEN 1 ELSE 0
        /\ InFlight(t, NoJob) = 0 /\ InFlight(t, text) \in Nat
    BY DEF InFlight, AsrAnswer
  <2>. QED
    BY <1>1, <2>1 DEF Running
<1>6. /\ text' \in Question("endpoint") \cup Question("correction") \cup {NoJob}
      /\ textAlive' \in BOOLEAN
  BY <1>1 DEF WorkInv, PipelineType
<1>. HIDE DEF s
<1>. QED
  BY <1>1, <1>4, <1>5, <1>6, AnswerKeeps

LEMMA TextAnswersCount ==
  ASSUME NEW w \in Worlds, NEW job \in Question("endpoint") \cup Question("correction"),
         NEW v \in TextAnswers(w, job)
  PROVE  Counts(w, v, job.session)
<1>1. job.session \in Sessions /\ job.utt \in Nat /\ job.previous \in Text
  BY DEF Question
<1>2. Counts(w, w, job.session)
  BY <1>1, SameCounts DEF SameWork
<1>3. CASE job.mode = "endpoint"
  <2>1. v \in {w, FinalizeCandidate(w, job.session)}
    BY <1>3 DEF TextAnswers
  <2>. QED
    BY <1>1, <1>2, <2>1, FinalizeCounts
<1>4. CASE job.mode # "endpoint"
  <2>1. job \in Question("correction")
    BY <1>4 DEF Question
  <2>2. \/ v = GiveUp(w, job.utt)
        \/ \E p \in {job.previous, "revised"}, c \in {"final", "revised"} :
             v = Corrected(w, job, p, c)
    BY <1>4 DEF TextAnswers
  <2>3. {job.previous, "revised"} \subseteq Text /\ {"final", "revised"} \subseteq Text
    BY <1>1 DEF Text
  <2>. QED
    BY <1>1, <2>1, <2>2, <2>3, GiveUpCounts, CorrectedCounts
<1>. QED
  BY <1>3, <1>4

LEMMA TextAnswerKeeps ==
  ASSUME WorkInv, TextAnswer
  PROVE  WorkInv'
<1>. DEFINE s == text.session
<1>1. /\ text \in Question("endpoint") \cup Question("correction")
      /\ s \in Sessions /\ text.utt \in Nat
      /\ text' = NoJob /\ asr' = asr /\ asrAlive' = asrAlive
  BY DEF TextAnswer, WorkInv, PipelineType, Question
<1>2. text.mode = "correction" => text \in Question("correction")
  BY <1>1 DEF Question
<1>3. World(s) \in Worlds
  BY <1>1, WorldTyped DEF WorkInv
<1>4. PICK w : /\ Counts(World(s), w, s) /\ Becomes(s, WorkDone(w))
               /\ textAlive' \in BOOLEAN
  <2>1. PICK w \in TextAnswers(World(s), text) :
          Becomes(s, WorkDone(w)) /\ textAlive' = (textAlive /\ ~w.raises)
    BY DEF TextAnswer
  <2>2. Counts(World(s), w, s)
    BY <1>1, <1>3, <2>1, TextAnswersCount
  <2>. QED
    BY <2>1, <2>2
<1>5. ASSUME NEW t \in Sessions
      PROVE  /\ Running(t) = Running(t)' + (IF t = s THEN 1 ELSE 0)
             /\ Running(t)' \in Nat
  <2>1. /\ InFlight(t, text) = IF t = s THEN 1 ELSE 0
        /\ InFlight(t, NoJob) = 0 /\ InFlight(t, asr) \in Nat
    BY DEF InFlight, TextAnswer
  <2>. QED
    BY <1>1, <2>1 DEF Running
<1>6. asr' \in Job("final") \cup Job("partial") \cup {NoJob} /\ asrAlive' \in BOOLEAN
  BY <1>1 DEF WorkInv, PipelineType
<1>. HIDE DEF s
<1>. QED
  BY <1>1, <1>4, <1>5, <1>6, AnswerKeeps

LEMMA WorkInvKept == WorkInv /\ [Next]_vars => WorkInv'
<1>. SUFFICES ASSUME WorkInv, [Next]_vars PROVE WorkInv'
  OBVIOUS
<1>1. CASE UNCHANGED vars
  <2>1. /\ UNCHANGED <<streams, finals, partials, endpoints, corrections>>
        /\ UNCHANGED <<asr, text, asrAlive, textAlive>>
    BY <1>1 DEF vars, queues
  <2>2. PipelineType'
    BY <2>1 DEF WorkInv, PipelineType
  <2>3. \A t : Outstanding(t)' = Outstanding(t)
    BY <2>1 DEF Outstanding, JobsOf, InFlight
  <2>. QED
    BY <2>1, <2>2, <2>3 DEF WorkInv, PendingCounts
<1>2. ASSUME NEW s \in Sessions,
             AcceptPcm(s) \/ Stop(s) \/ Close(s) \/ StopDone(s) \/ Evict(s)
      PROVE  WorkInv'
  BY <1>2, AcceptPcmKeeps, StopKeeps, CloseKeeps, StopDoneKeeps, EvictKeeps
<1>. QED
  BY <1>1, <1>2, AsrTakeKeeps, AsrAnswerKeeps, TextTakeKeeps, TextAnswerKeeps DEF Next

(* What wait_idle waits for is exactly the work an open stream has queued or *)
(* running, whatever the order of frames, answers, full queues, replaced     *)
(* snapshots and closed sockets; a closed one is never stopped too early.    *)
THEOREM WorkIsCounted == Spec => []PendingCounts
<1>1. Init => WorkInv
  BY InitKeeps
<1>2. WorkInv /\ [Next]_vars => WorkInv'
  BY WorkInvKept
<1>3. WorkInv => PendingCounts
  BY DEF WorkInv
<1>. QED
  BY <1>1, <1>2, <1>3, PTL DEF Spec

-----------------------------------------------------------------------------
(* The limits of the queues *)

(* One queued snapshot for each utterance of each session. *)
OneEach(q) ==
  \A i, j \in 1..Len(q) : q[i].session = q[j].session /\ q[i].utt = q[j].utt => i = j

Fits(w) ==
  /\ Len(w.fin) <= MaxFinals /\ Len(w.par) <= MaxPartials
  /\ Len(w.end) <= MaxText /\ Len(w.cor) <= MaxText
  /\ OneEach(w.par)

(* The types of the helpers' results are known from counting their work.   *)
LEMMA FitsSame ==
  ASSUME NEW w \in Worlds, Fits(w), NEW v, SameWork(w, v)
  PROVE  Fits(v)
  BY DEF Fits, SameWork

(* What is appended to a queue that is not full still fits. *)
LEMMA FitsAppended ==
  ASSUME NEW S, NEW q \in Seq(S), NEW job \in S, NEW n \in Nat, ~(Len(q) >= n)
  PROVE  Len(Append(q, job)) <= n
<1>1. Len(Append(q, job)) = Len(q) + 1 /\ Len(q) \in Nat
  BY AppendProperties, LenProperties
<1>. QED
  BY <1>1

LEMMA Limits == /\ MaxFinals \in Nat /\ MaxPartials \in Nat /\ MaxText \in Nat
  BY PipelineAssumption

LEMMA FitsFinal ==
  ASSUME NEW w \in Worlds, Fits(w), NEW s \in Sessions, NEW u \in Nat
  PROVE  Fits(QueueFinal(w, s, u)) /\ QueueFinal(w, s, u) \in Worlds
<1>. DEFINE v == QueueFinal(w, s, u)
<1>1. CASE Len(w.fin) >= MaxFinals
  <2>. DEFINE e == Announce(w, "pipeline.warning")
  <2>1. e \in Worlds /\ Fits(e)
    BY AnnounceSame, FitsSame DEF SameWork
  <2>2. v = Then(e, [e EXCEPT !.st.state = "paused"])
    BY <1>1 DEF QueueFinal
  <2>. HIDE DEF e
  <2>3. Fits([e EXCEPT !.st.state = "paused"])
    BY <2>1 DEF Fits, Worlds
  <2>. QED
    BY <2>1, <2>2, <2>3, ThenEither, FinalCounts DEF Counts
<1>2. CASE ~(Len(w.fin) >= MaxFinals)
  <2>. DEFINE job == AsrJob(s, u, 1, "final")
  <2>1. job \in Job("final")
    BY DEF AsrJob, Job
  <2>2. Len(Append(w.fin, job)) <= MaxFinals
    BY <1>2, <2>1, FitsAppended, QueuesTyped, Limits
  <2>3. /\ v.fin = Append(w.fin, job)
        /\ v.par = w.par /\ v.end = w.end /\ v.cor = w.cor
    BY <1>2 DEF QueueFinal, WorkQueued, Worlds
  <2>. QED
    BY <2>2, <2>3, FinalCounts DEF Fits, Counts
<1>. QED
  BY <1>1, <1>2

LEMMA FitsFinish ==
  ASSUME NEW w \in Worlds, Fits(w), NEW s \in Sessions
  PROVE  Fits(Finish(w, s)) /\ Fits(FinalizeCandidate(w, s))
<1>. DEFINE x == [w EXCEPT !.st.detector = "idle"]
            v == QueueFinal(x, s, w.st.utt)
<1>1. x \in Worlds /\ Fits(x) /\ w.st.utt \in Nat
  BY DetectorTyped, FitsSame DEF SameWork, Worlds, Stream
<1>2. Finish(w, s) = Then(w, Then(v, ClearUtterance(v)))
  BY DEF Finish
<1>. HIDE DEF x
<1>3. v \in Worlds /\ Fits(v)
  BY <1>1, FitsFinal
<1>. HIDE DEF v
<1>4. Fits(ClearUtterance(v))
  BY <1>3 DEF ClearUtterance, Fits, Worlds
<1>. QED
  BY <1>2, <1>3, <1>4, ThenEither DEF FinalizeCandidate

LEMMA FitsEndpoint ==
  ASSUME NEW w \in Worlds, Fits(w), NEW s \in Sessions
  PROVE  Fits(QueueEndpoint(w, s))
<1>1. CASE Len(w.end) >= MaxText
  <2>. DEFINE e == Announce(w, "pipeline.warning")
  <2>1. e \in Worlds /\ Fits(e)
    BY AnnounceSame, FitsSame DEF SameWork
  <2>2. QueueEndpoint(w, s) = Then(e, FinalizeCandidate(e, s))
    BY <1>1 DEF QueueEndpoint
  <2>. HIDE DEF e
  <2>. QED
    BY <2>1, <2>2, FitsFinish, ThenEither
<1>2. CASE ~(Len(w.end) >= MaxText)
  <2>. DEFINE known == w.st.rows # <<>> /\ Newest(w.st.rows).utt = w.st.utt
              job == TextJob(s, w.st.utt, "endpoint", known, "none")
              v == QueueEndpoint(w, s)
  <2>1. job \in Question("endpoint")
    <3>1. known \in BOOLEAN /\ w.st.utt \in Nat
      BY DEF Worlds, Stream
    <3>. QED
      BY <3>1 DEF TextJob, Question, Text
  <2>2. Len(Append(w.end, job)) <= MaxText
    BY <1>2, <2>1, FitsAppended, QueuesTyped, Limits
  <2>3. /\ v.end = Append(w.end, job)
        /\ v.fin = w.fin /\ v.par = w.par /\ v.cor = w.cor
    BY <1>2 DEF QueueEndpoint, WorkQueued, Worlds
  <2>. QED
    BY <2>2, <2>3 DEF Fits
<1>. QED
  BY <1>1, <1>2

LEMMA FitsCorrection ==
  ASSUME NEW w \in Worlds, Fits(w), NEW s \in Sessions, NEW u \in Nat
  PROVE  Fits(QueueCorrection(w, s, u))
<1>1. CASE Len(w.cor) >= MaxText
  <2>. DEFINE e == Announce(w, "pipeline.warning")
  <2>1. e \in Worlds /\ Fits(e)
    BY AnnounceSame, FitsSame DEF SameWork
  <2>2. QueueCorrection(w, s, u) = Then(w, Complete(e, u))
    BY <1>1 DEF QueueCorrection
  <2>. HIDE DEF e
  <2>. QED
    BY <2>1, <2>2, CompleteSame, FitsSame, ThenEither
<1>2. CASE ~(Len(w.cor) >= MaxText)
  <2>. DEFINE n == Len(w.st.rows)
              previous == IF n > 1 THEN w.st.rows[n - 1].text ELSE "none"
              job == TextJob(s, u, "correction", TRUE, previous)
              v == WorkQueued([w EXCEPT !.cor = Append(@, job)])
  <2>1. /\ v.cor = Append(w.cor, job)
        /\ v.fin = w.fin /\ v.par = w.par /\ v.end = w.end
        /\ QueueCorrection(w, s, u) = Then(w, v)
    BY <1>2 DEF QueueCorrection, WorkQueued, Worlds
  <2>2. job \in Question("correction")
    <3>1. w.st.rows \in Seq(Rows) /\ n \in Nat
      BY LenProperties DEF Worlds, Stream
    <3>2. n > 1 => w.st.rows[n - 1] \in Rows
      BY <3>1, ElementOfSeq
    <3>3. previous \in Text
      BY <3>2 DEF Rows, Text
    <3>. QED
      BY <3>3 DEF TextJob, Question
  <2>3. Len(Append(w.cor, job)) <= MaxText
    BY <1>2, <2>2, FitsAppended, QueuesTyped, Limits
  <2>4. Fits(v)
    BY <2>1, <2>3 DEF Fits
  <2>. QED
    BY <2>1, <2>4, ThenEither
<1>. QED
  BY <1>1, <1>2

(* A new snapshot takes the place of the queued one of its utterance, if    *)
(* there is one.                                                           *)
LEMMA FitsPartial ==
  ASSUME NEW w \in Worlds, Fits(w), NEW s \in Sessions
  PROVE  Fits(QueuePartial(w, s))
<1>. DEFINE u == w.st.utt
            g == w.st.generation + 1
            job == AsrJob(s, u, g, "partial")
            at == {i \in DOMAIN w.par : w.par[i].session = s /\ w.par[i].utt = u}
            m == [w EXCEPT !.st.generation = g, !.st.latest[u] = g]
            v == QueuePartial(w, s)
<1>1. g \in Nat /\ u \in Nat
  BY DEF Worlds, Stream
<1>2. /\ job \in Job("partial") /\ job.session = s /\ job.utt = u
  BY <1>1 DEF AsrJob, Job
<1>3. /\ w.par \in Seq(Job("partial")) /\ Len(w.par) \in Nat
      /\ DOMAIN w.par = 1..Len(w.par) /\ w.par \in [1..Len(w.par) -> Job("partial")]
  BY QueuesTyped, LenProperties
<1>4. m.par = w.par /\ m.fin = w.fin /\ m.end = w.end /\ m.cor = w.cor
  BY DEF Worlds
<1>5. CASE at # {}
  <2>. DEFINE par == [i \in DOMAIN w.par |-> IF i \in at THEN job ELSE w.par[i]]
  <2>1. v.par = par /\ v.fin = w.fin /\ v.end = w.end /\ v.cor = w.cor
    BY <1>5 DEF QueuePartial, Worlds
  <2>2. par \in Seq(Job("partial")) /\ Len(par) = Len(w.par)
    <3>1. par \in [1..Len(w.par) -> Job("partial")]
      BY <1>2, <1>3
    <3>. HIDE DEF par
    <3>2. par \in Seq(Job("partial"))
      BY <1>3, <3>1, SeqDef
    <3>. QED
      BY <1>3, <3>1, <3>2, LenProperties
  <2>3. \A i \in 1..Len(w.par) : par[i].session = w.par[i].session /\ par[i].utt = w.par[i].utt
    BY <1>2, <1>3
  <2>4. OneEach(par)
    <3>. HIDE DEF par
    <3>. QED
      BY <2>2, <2>3 DEF Fits, OneEach
  <2>. QED
    BY <2>1, <2>2, <2>4 DEF Fits
<1>6. CASE at = {} /\ Len(w.par) >= MaxPartials
  <2>1. v = Announce(m, "pipeline.warning") /\ m \in Worlds
    BY <1>1, <1>6, MarkTyped DEF QueuePartial, SameWork
  <2>2. Fits(m)
    BY <1>4 DEF Fits
  <2>. HIDE DEF m
  <2>. QED
    BY <2>1, <2>2, AnnounceSame, FitsSame
<1>7. CASE at = {} /\ ~(Len(w.par) >= MaxPartials)
  <2>. DEFINE par == Append(w.par, job)
  <2>1. v.par = par /\ v.fin = w.fin /\ v.end = w.end /\ v.cor = w.cor
    BY <1>7 DEF QueuePartial, WorkQueued, Worlds
  <2>2. Len(par) <= MaxPartials
    BY <1>2, <1>3, <1>7, FitsAppended, Limits
  <2>3. /\ Len(par) = Len(w.par) + 1 /\ par[Len(w.par) + 1] = job
        /\ \A i \in 1..Len(w.par) : par[i] = w.par[i]
    BY <1>2, <1>3, AppendProperties
  <2>4. \A i \in 1..Len(w.par) : ~(w.par[i].session = job.session /\ w.par[i].utt = job.utt)
    BY <1>2, <1>3, <1>7
  <2>. HIDE DEF par
  <2>5. OneEach(par)
    <3>. SUFFICES ASSUME NEW i \in 1..Len(par), NEW j \in 1..Len(par),
                         par[i].session = par[j].session, par[i].utt = par[j].utt
                  PROVE  i = j
      BY DEF OneEach
    <3>1. CASE i \in 1..Len(w.par) /\ j \in 1..Len(w.par)
      BY <2>3, <3>1 DEF Fits, OneEach
    <3>2. CASE i = Len(w.par) + 1 \/ j = Len(w.par) + 1
      <4>1. \A k \in 1..Len(par) : k \in 1..Len(w.par) \/ k = Len(w.par) + 1
        BY <1>3, <2>3
      <4>. QED
        BY <2>3, <2>4, <3>2, <4>1
    <3>. QED
      BY <1>3, <2>3, <3>1, <3>2
  <2>. QED
    BY <2>1, <2>2, <2>5 DEF Fits
<1>. QED
  BY <1>5, <1>6, <1>7

LEMMA FitsHeard ==
  ASSUME NEW w \in Worlds, Fits(w), NEW s \in Sessions,
         NEW outcome \in {"start", "start_final", "candidate", "candidate_final",
                          "cancel", "final", "none"}
  PROVE  Fits(Heard(w, s, outcome)) /\ Heard(w, s, outcome) \in Worlds
<1>1. \A o \in {"start", "start_final", "candidate", "candidate_final",
                 "cancel", "final", "none"} : Heard(w, s, o) \in Worlds
  BY HeardCounts DEF Counts
<1>2. Start(w) \in Worlds /\ Fits(Start(w))
  <2>1. Start(w) = Heard(w, s, "start")
    BY DEF Heard
  <2>. QED
    BY <1>1, <2>1 DEF Start, Fits, Worlds
<1>3. \A d \in {"idle", "speech", "candidate"} :
        /\ Fits([w EXCEPT !.st.detector = d])
        /\ Fits(QueueEndpoint([w EXCEPT !.st.detector = d], s))
        /\ QueueEndpoint([w EXCEPT !.st.detector = d], s) \in Worlds
  <2>. TAKE d \in {"idle", "speech", "candidate"}
  <2>. DEFINE x == [w EXCEPT !.st.detector = d]
  <2>1. x \in Worlds /\ Fits(x)
    BY DetectorTyped, FitsSame DEF SameWork
  <2>. HIDE DEF x
  <2>2. Fits(QueueEndpoint(x, s)) /\ QueueEndpoint(x, s) \in Worlds
    BY <2>1, FitsEndpoint, EndpointCounts DEF Counts
  <2>. QED
    BY <2>1, <2>2 DEF x
<1>4. Fits(Finish(QueueEndpoint([w EXCEPT !.st.detector = "idle"], s), s))
  <2>. DEFINE q == QueueEndpoint([w EXCEPT !.st.detector = "idle"], s)
  <2>1. q \in Worlds /\ Fits(q)
    BY <1>3
  <2>. HIDE DEF q
  <2>2. Fits(Finish(q, s))
    BY <2>1, FitsFinish
  <2>. QED
    BY <2>2 DEF q
<1>5. Fits(Finish(Start(w), s)) /\ Fits(Finish(w, s))
  BY <1>2, FitsFinish
<1>. QED
  BY <1>1, <1>2, <1>3, <1>4, <1>5 DEF Heard

LEMMA FitsHandled ==
  ASSUME NEW w \in Worlds, Fits(w), NEW what \in {"nothing", "handler", "stop"}
  PROVE  Fits(Handled(w, what)) /\ Handled(w, what) \in Worlds
  BY HandledSame, FitsSame DEF SameWork

LEMMA FitsBeginStop ==
  ASSUME NEW w \in Worlds, Fits(w), NEW s \in Sessions
  PROVE  Fits(BeginStop(w, s))
<1>. DEFINE v == [w EXCEPT !.st.stopping = TRUE]
            x == [w EXCEPT !.st.stopping = TRUE, !.st.detector = "idle", !.st.utt = 0]
<1>1. v \in Worlds /\ Fits(v) /\ x \in Worlds /\ Fits(x) /\ w.st.utt \in Nat
  BY DEF Fits, Worlds, Stream
<1>2. BeginStop(w, s) \in {v, Handled(QueueFinal(x, s, w.st.utt), "stop")}
  BY DEF BeginStop
<1>. HIDE DEF v, x
<1>. DEFINE q == QueueFinal(x, s, w.st.utt)
<1>3. q \in Worlds /\ Fits(q)
  BY <1>1, FitsFinal
<1>. HIDE DEF q
<1>4. Fits(Handled(q, "stop"))
  BY <1>3, FitsHandled
<1>. QED
  BY <1>1, <1>2, <1>4 DEF q

(* The answers of the two workers. *)
LEMMA FitsAnswered ==
  ASSUME NEW w \in Worlds, Fits(w), NEW s \in Sessions
  PROVE  /\ Fits(WorkDone(w))
         /\ \A job \in Job("partial") : Fits(AcceptPartial(w, job))
         /\ \A job \in Job("final") : job.session = s => Fits(AcceptFinal(w, job))
         /\ \A u \in Nat : Fits(GiveUp(w, u))
         /\ \A job \in Question("correction"), p, c \in Text :
              Fits(Corrected(w, job, p, c))
<1>1. Fits(WorkDone(w))
  BY WorkDoneTyped DEF Fits
<1>2. ASSUME NEW rows \in Seq(Rows)
      PROVE  [w EXCEPT !.st.rows = rows] \in Worlds /\ Fits([w EXCEPT !.st.rows = rows])
  BY RowsSame, FitsSame DEF SameWork
<1>3. ASSUME NEW job \in Job("partial") PROVE Fits(AcceptPartial(w, job))
  <2>. DEFINE x == [w EXCEPT !.st.rows = Accept(@, job.utt, "partial", FALSE)]
              e == Emit(x, "asr.partial", job.utt)
  <2>1. Accept(w.st.rows, job.utt, "partial", FALSE) \in Seq(Rows) /\ job.utt \in Nat
    BY AcceptTyped DEF Worlds, Stream, Job, Text
  <2>2. x = [w EXCEPT !.st.rows = Accept(w.st.rows, job.utt, "partial", FALSE)]
    BY DEF Worlds, Stream
  <2>3. x \in Worlds /\ Fits(x)
    BY <1>2, <2>1, <2>2
  <2>4. AcceptPartial(w, job) \in {w, e}
    BY DEF AcceptPartial
  <2>. HIDE DEF x
  <2>5. Fits(e)
    BY <2>1, <2>3, EmitSame, FitsSame
  <2>. QED
    BY <2>4, <2>5
<1>4. ASSUME NEW job \in Job("final"), job.session = s PROVE Fits(AcceptFinal(w, job))
  <2>. DEFINE x == [w EXCEPT !.st.rows = Accept(@, job.utt, "final", TRUE)]
              e == Emit(x, "asr.final", job.utt)
  <2>1. Accept(w.st.rows, job.utt, "final", TRUE) \in Seq(Rows) /\ job.utt \in Nat
    BY AcceptTyped DEF Worlds, Stream, Job, Text
  <2>2. x = [w EXCEPT !.st.rows = Accept(w.st.rows, job.utt, "final", TRUE)]
    BY DEF Worlds, Stream
  <2>3. x \in Worlds /\ Fits(x)
    BY <1>2, <2>1, <2>2
  <2>4. Fits([w EXCEPT !.raises = TRUE])
    BY DEF Fits, Worlds
  <2>. HIDE DEF x
  <2>5. e \in Worlds /\ Fits(e)
    BY <2>1, <2>3, EmitSame, FitsSame DEF SameWork
  <2>. HIDE DEF e
  <2>6. Fits(QueueCorrection(e, s, job.utt))
    BY <2>1, <2>5, FitsCorrection
  <2>. QED
    BY <1>4, <2>4, <2>6 DEF AcceptFinal, e, x
<1>5. ASSUME NEW u \in Nat PROVE Fits(GiveUp(w, u))
  <2>. DEFINE e == Announce(w, "pipeline.warning")
  <2>1. e \in Worlds /\ Fits(e)
    BY AnnounceSame, FitsSame DEF SameWork
  <2>2. GiveUp(w, u) = Then(e, Complete(e, u))
    BY DEF GiveUp
  <2>. HIDE DEF e
  <2>. QED
    BY <2>1, <2>2, CompleteSame, FitsSame, ThenEither
<1>6. ASSUME NEW job \in Question("correction"), NEW p \in Text, NEW c \in Text
      PROVE  Fits(Corrected(w, job, p, c))
  <2>. DEFINE x == [w EXCEPT !.st.rows = Revise(@, p, c)]
              e == Announce(x, "transcript.revised")
  <2>1. Revise(w.st.rows, p, c) \in Seq(Rows) /\ job.utt \in Nat
    BY ReviseTyped DEF Worlds, Stream, Question
  <2>2. x = [w EXCEPT !.st.rows = Revise(w.st.rows, p, c)]
    BY DEF Worlds, Stream
  <2>3. x \in Worlds /\ Fits(x)
    BY <1>2, <2>1, <2>2
  <2>4. Corrected(w, job, p, c) \in {w, Then(e, Complete(e, job.utt))}
    BY DEF Corrected
  <2>. HIDE DEF x
  <2>5. e \in Worlds /\ Fits(e)
    BY <2>3, AnnounceSame, FitsSame DEF SameWork
  <2>. HIDE DEF e
  <2>6. Fits(Complete(e, job.utt))
    BY <2>1, <2>5, CompleteSame, FitsSame
  <2>. QED
    BY <2>4, <2>5, <2>6, ThenEither
<1>. QED
  BY <1>1, <1>3, <1>4, <1>5, <1>6

LEMMA TextAnswersFit ==
  ASSUME NEW w \in Worlds, Fits(w),
         NEW job \in Question("endpoint") \cup Question("correction"),
         NEW v \in TextAnswers(w, job)
  PROVE  Fits(v) /\ v \in Worlds
<1>1. job.session \in Sessions /\ job.utt \in Nat /\ job.previous \in Text
  BY DEF Question
<1>2. v \in Worlds
  BY TextAnswersCount DEF Counts
<1>3. CASE job.mode = "endpoint"
  <2>1. v \in {w, FinalizeCandidate(w, job.session)}
    BY <1>3 DEF TextAnswers
  <2>. QED
    BY <1>1, <1>2, <2>1, FitsFinish
<1>4. CASE job.mode # "endpoint"
  <2>1. job \in Question("correction")
    BY <1>4 DEF Question
  <2>2. \/ v = GiveUp(w, job.utt)
        \/ \E p \in {job.previous, "revised"}, c \in {"final", "revised"} :
             v = Corrected(w, job, p, c)
    BY <1>4 DEF TextAnswers
  <2>3. {job.previous, "revised"} \subseteq Text /\ {"final", "revised"} \subseteq Text
    BY <1>1 DEF Text
  <2>. QED
    BY <1>1, <1>2, <2>1, <2>2, <2>3, FitsAnswered
<1>. QED
  BY <1>3, <1>4

(* From worlds to states. *)
LEMMA FitsWorld ==
  ASSUME PipelineType, NEW s \in Sessions
  PROVE  /\ QueuesBounded => Fits(World(s)) /\ World(s) \in Worlds
         /\ \A v \in Worlds : Fits(v) /\ Becomes(s, v) => QueuesBounded'
<1>1. World(s) \in Worlds /\ DOMAIN partials = 1..Len(partials)
  BY WorldTyped, LenProperties DEF PipelineType
<1>2. QueuesBounded => Fits(World(s))
  BY <1>1 DEF QueuesBounded, Fits, OneEach, World
<1>3. ASSUME NEW v \in Worlds, Fits(v), Becomes(s, v) PROVE QueuesBounded'
  <2>1. /\ finals' = v.fin /\ partials' = v.par /\ endpoints' = v.end /\ corrections' = v.cor
        /\ v.par \in Seq(Job("partial"))
    BY <1>3, QueuesTyped DEF Becomes
  <2>2. DOMAIN v.par = 1..Len(v.par)
    BY <2>1, LenProperties
  <2>. QED
    BY <1>3, <2>1, <2>2 DEF Fits, OneEach, QueuesBounded
<1>. QED
  BY <1>1, <1>2, <1>3

(* What is taken off a queue only makes room. *)
LEMMA TailFits ==
  ASSUME NEW S, NEW q \in Seq(S), q # <<>>, NEW n \in Nat, Len(q) <= n
  PROVE  /\ Len(Tail(q)) <= n /\ Len(Tail(q)) = Len(q) - 1 /\ Len(q) \in Nat
         /\ DOMAIN Tail(q) = 1..(Len(q) - 1)
         /\ \A i \in 1..(Len(q) - 1) : Tail(q)[i] = q[i + 1]
<1>1. /\ Tail(q) \in Seq(S) /\ Len(Tail(q)) = Len(q) - 1 /\ Len(q) \in Nat
      /\ \A i \in 1..Len(Tail(q)) : Tail(q)[i] = q[i + 1]
  BY HeadTailProperties, LenProperties
<1>2. DOMAIN Tail(q) = 1..Len(Tail(q))
  BY <1>1, LenProperties
<1>. QED
  BY <1>1, <1>2

LEMMA TakeFits ==
  ASSUME PipelineType, QueuesBounded, AsrTake \/ TextTake
  PROVE  QueuesBounded'
<1>1. CASE finals # <<>> /\ finals' = Tail(finals) /\ UNCHANGED <<partials, endpoints, corrections>>
  <2>1. Len(finals') <= MaxFinals
    BY <1>1, TailFits, Limits DEF QueuesBounded, PipelineType
  <2>. QED
    BY <1>1, <2>1 DEF QueuesBounded
<1>2. CASE partials # <<>> /\ partials' = Tail(partials) /\ UNCHANGED <<finals, endpoints, corrections>>
  <2>1. /\ Len(partials') <= MaxPartials /\ Len(partials) \in Nat
        /\ DOMAIN partials' = 1..(Len(partials) - 1)
        /\ \A i \in 1..(Len(partials) - 1) : partials'[i] = partials[i + 1]
    BY <1>2, TailFits, Limits DEF QueuesBounded, PipelineType
  <2>2. DOMAIN partials = 1..Len(partials)
    BY LenProperties DEF PipelineType
  <2>3. ASSUME NEW i \in DOMAIN partials', NEW j \in DOMAIN partials',
               partials'[i].session = partials'[j].session, partials'[i].utt = partials'[j].utt
        PROVE  i = j
    <3>1. i + 1 \in DOMAIN partials /\ j + 1 \in DOMAIN partials /\ i \in Int /\ j \in Int
      BY <2>1, <2>2
    <3>2. i + 1 = j + 1
      BY <2>1, <2>3, <3>1 DEF QueuesBounded
    <3>. QED
      BY <3>1, <3>2
  <2>. QED
    BY <1>2, <2>1, <2>3 DEF QueuesBounded
<1>3. CASE endpoints # <<>> /\ endpoints' = Tail(endpoints) /\ UNCHANGED <<finals, partials, corrections>>
  <2>1. Len(endpoints') <= MaxText
    BY <1>3, TailFits, Limits DEF QueuesBounded, PipelineType
  <2>. QED
    BY <1>3, <2>1 DEF QueuesBounded
<1>4. CASE corrections # <<>> /\ corrections' = Tail(corrections) /\ UNCHANGED <<finals, partials, endpoints>>
  <2>1. Len(corrections') <= MaxText
    BY <1>4, TailFits, Limits DEF QueuesBounded, PipelineType
  <2>. QED
    BY <1>4, <2>1 DEF QueuesBounded
<1>. QED
  BY <1>1, <1>2, <1>3, <1>4 DEF AsrTake, TextTake

(* Frames, stops and closings. *)
LEMMA StreamFits ==
  ASSUME PipelineType, QueuesBounded, NEW s \in Sessions,
         AcceptPcm(s) \/ Stop(s) \/ Close(s) \/ StopDone(s) \/ Evict(s)
  PROVE  QueuesBounded'
<1>1. World(s) \in Worlds /\ Fits(World(s))
  BY FitsWorld
<1>2. CASE AcceptPcm(s)
  <2>1. PICK outcome \in Outcomes(streams[s]) :
          \/ Becomes(s, Handled(Heard(World(s), s, outcome), "handler"))
          \/ Becomes(s, Handled(QueuePartial(Heard(World(s), s, outcome), s), "handler"))
    BY <1>2 DEF AcceptPcm
  <2>2. outcome \in {"start", "start_final", "candidate", "candidate_final",
                     "cancel", "final", "none"}
    BY <2>1 DEF Outcomes
  <2>. DEFINE w == Heard(World(s), s, outcome)
  <2>3. w \in Worlds /\ Fits(w)
    BY <1>1, <2>2, FitsHeard
  <2>. HIDE DEF w
  <2>4. QueuePartial(w, s) \in Worlds /\ Fits(QueuePartial(w, s))
    BY <2>3, FitsPartial, PartialCounts DEF Counts
  <2>. QED
    BY <2>1, <2>3, <2>4, FitsHandled, FitsWorld DEF w
<1>3. CASE Stop(s)
  <2>1. BeginStop(World(s), s) \in Worlds /\ Fits(BeginStop(World(s), s))
    BY <1>1, FitsBeginStop, BeginStopCounts DEF Counts
  <2>. QED
    BY <1>3, <2>1, FitsWorld DEF Stop
<1>4. CASE Close(s)
  <2>. DEFINE w == [World(s) EXCEPT !.st.open = FALSE]
              v == IF streams[s].stopping THEN w ELSE BeginStop(w, s)
  <2>1. w \in Worlds /\ Fits(w)
    BY <1>1 DEF Fits, Worlds, Stream
  <2>2. Becomes(s, v)
    BY <1>4 DEF Close
  <2>. HIDE DEF w
  <2>3. v \in Worlds /\ Fits(v)
    BY <2>1, FitsBeginStop, BeginStopCounts DEF Counts
  <2>. QED
    BY <2>2, <2>3, FitsWorld
<1>5. CASE StopDone(s)
  <2>. DEFINE x == [World(s) EXCEPT !.st.rows = Finalize(@), !.st.state = "stopped"]
  <2>1. Fits(x) /\ x.st.history \in Seq(Event) /\ x \in Worlds
    <3>1. World(s).st.rows \in Seq(Rows) /\ "none" \in Text
      BY <1>1 DEF Worlds, Stream, Text
    <3>2. Finalize(World(s).st.rows) \in Seq(Rows)
      BY <3>1, ReviseTyped
    <3>. QED
      BY <1>1, <3>2 DEF Fits, Worlds, Stream
  <2>2. Becomes(s, Emit(x, "stream.stopped", 0))
    BY <1>5 DEF StopDone
  <2>. HIDE DEF x
  <2>3. Emit(x, "stream.stopped", 0) \in Worlds /\ Fits(Emit(x, "stream.stopped", 0))
    <3>1. 0 \in Nat
      OBVIOUS
    <3>2. SameWork(x, Emit(x, "stream.stopped", 0))
      BY <2>1, <3>1, EmitSame
    <3>. QED
      BY <2>1, <3>2, FitsSame DEF SameWork
  <2>. QED
    BY <2>2, <2>3, FitsWorld
<1>6. CASE Evict(s)
  BY <1>6 DEF Evict, queues, QueuesBounded
<1>. QED
  BY <1>2, <1>3, <1>4, <1>5, <1>6

LEMMA AnswerFits ==
  ASSUME PipelineType, QueuesBounded, AsrAnswer \/ TextAnswer
  PROVE  QueuesBounded'
<1>1. \A s \in Sessions : World(s) \in Worlds /\ Fits(World(s))
  BY FitsWorld
<1>2. ASSUME NEW s \in Sessions, NEW w \in Worlds, Fits(w), Becomes(s, WorkDone(w))
      PROVE  QueuesBounded'
  BY <1>2, WorkDoneTyped, FitsAnswered, FitsWorld
<1>3. CASE AsrAnswer
  <2>. DEFINE s == asr.session
  <2>1. /\ s \in Sessions /\ asr.utt \in Nat
        /\ asr.mode = "partial" \/ asr.mode = "final"
        /\ asr.mode = "final" => asr \in Job("final")
        /\ asr.mode = "partial" => asr \in Job("partial")
    BY <1>3 DEF AsrAnswer, PipelineType, Job
  <2>2. /\ Failed(World(s), asr) \in Worlds
        /\ Fits(Failed(World(s), asr))
    <3>1. \A v : SameWork(World(s), v) => v \in Worlds /\ Fits(v)
      BY <1>1, <2>1, FitsSame DEF SameWork
    <3>2. GiveUp(World(s), asr.utt) \in Worlds /\ Fits(GiveUp(World(s), asr.utt))
      BY <1>1, <2>1, FitsAnswered, GiveUpCounts DEF Counts
    <3>3. SameWork(World(s), Announce(World(s), "pipeline.warning"))
      BY <1>1, <2>1, AnnounceSame
    <3>. QED
      BY <3>1, <3>2, <3>3 DEF Failed
  <2>3. asr.mode = "partial" => /\ AcceptPartial(World(s), asr) \in Worlds
                                /\ Fits(AcceptPartial(World(s), asr))
    BY <1>1, <2>1, FitsAnswered, AcceptPartialCounts DEF Counts
  <2>4. asr.mode = "final" => /\ AcceptFinal(World(s), asr) \in Worlds
                              /\ Fits(AcceptFinal(World(s), asr))
    BY <1>1, <2>1, FitsAnswered, AcceptFinalCounts DEF Counts
  <2>5. \/ Becomes(s, WorkDone(Failed(World(s), asr)))
        \/ asr.mode = "partial" /\ Becomes(s, WorkDone(AcceptPartial(World(s), asr)))
        \/ asr.mode = "final" /\ Becomes(s, WorkDone(AcceptFinal(World(s), asr)))
    <3>1. PICK w \in {Failed(World(s), asr),
                      IF asr.mode = "partial" THEN AcceptPartial(World(s), asr)
                      ELSE AcceptFinal(World(s), asr)} : Becomes(s, WorkDone(w))
      BY <1>3 DEF AsrAnswer
    <3>. QED
      BY <2>1, <3>1
  <2>. HIDE DEF s
  <2>. QED
    BY <1>2, <2>1, <2>2, <2>3, <2>4, <2>5
<1>4. CASE TextAnswer
  <2>. DEFINE s == text.session
  <2>1. /\ s \in Sessions
        /\ text \in Question("endpoint") \cup Question("correction")
    BY <1>4 DEF TextAnswer, PipelineType, Question
  <2>2. PICK w \in TextAnswers(World(s), text) : Becomes(s, WorkDone(w))
    BY <1>4 DEF TextAnswer
  <2>3. World(s) \in Worlds /\ Fits(World(s))
    BY <1>1, <2>1
  <2>4. w \in Worlds /\ Fits(w)
    BY <2>1, <2>2, <2>3, TextAnswersFit
  <2>. HIDE DEF s
  <2>. QED
    BY <1>2, <2>1, <2>2, <2>4
<1>. QED
  BY <1>3, <1>4

(* However many sessions speak and whatever the workers answer, no queue of *)
(* the two schedulers exceeds its limit, and an utterance has at most one   *)
(* queued snapshot.                                                         *)
THEOREM QueuesStayBounded == Spec => []QueuesBounded
<1>1. Init => QueuesBounded
  BY Limits, EmptySeq DEF Init, QueuesBounded
<1>2. WorkInv /\ QueuesBounded /\ [Next]_vars => (WorkInv /\ QueuesBounded)'
  <2>. SUFFICES ASSUME WorkInv, QueuesBounded, [Next]_vars PROVE QueuesBounded'
    BY WorkInvKept
  <2>1. PipelineType
    BY DEF WorkInv
  <2>2. CASE UNCHANGED vars
    BY <2>2 DEF vars, queues, QueuesBounded
  <2>. QED
    BY <2>1, <2>2, StreamFits, TakeFits, AnswerFits DEF Next
<1>. QED
  BY <1>1, <1>2, InitKeeps, PTL DEF Spec

-----------------------------------------------------------------------------
(* What a step may do to the rows *)

SameRows(w, v) == v \in Worlds /\ v.st.rows = w.st.rows

LEMMA RowsTransitive ==
  ASSUME NEW w, NEW v, NEW u, SameRows(w, v), SameRows(v, u)
  PROVE  SameRows(w, u)
  BY DEF SameRows

LEMMA AnnounceRows ==
  ASSUME NEW w \in Worlds, NEW type
  PROVE  SameRows(w, Announce(w, type))
  BY AnnounceSame DEF SameWorld, SameRows

LEMMA EmitRows ==
  ASSUME NEW w \in Worlds, NEW u \in Nat,
         NEW type \in {"asr.partial", "asr.final", "utterance.completed", "stream.stopped"}
  PROVE  SameRows(w, Emit(w, type, u))
<1>. DEFINE v == [w EXCEPT !.st.history = Append(@, [type |-> type, utt |-> u])]
<1>1. v \in Worlds /\ v.st.rows = w.st.rows
  <2>1. [type |-> type, utt |-> u] \in Event /\ w.st.history \in Seq(Event)
    BY DEF Worlds, Stream, Event
  <2>2. Append(w.st.history, [type |-> type, utt |-> u]) \in Seq(Event)
    BY <2>1, AppendProperties
  <2>. QED
    BY <2>2 DEF Worlds, Stream
<1>2. Emit(w, type, u) = Then(w, Announce(v, type))
  BY DEF Emit
<1>. HIDE DEF v
<1>3. SameRows(w, Announce(v, type))
  BY <1>1, AnnounceRows DEF SameRows
<1>. QED
  BY <1>2, <1>3, ThenEither DEF SameRows

LEMMA CompleteRows ==
  ASSUME NEW w \in Worlds, NEW u \in Nat
  PROVE  SameRows(w, Complete(w, u))
<1>. DEFINE e == Emit(w, "utterance.completed", u)
<1>1. SameRows(w, e)
  BY EmitRows
<1>2. Complete(w, u) \in {e, [e EXCEPT !.st.state = "listening"]}
  BY DEF Complete
<1>. HIDE DEF e
<1>3. SameRows(e, [e EXCEPT !.st.state = "listening"])
  BY <1>1 DEF SameRows, Worlds, Stream
<1>. QED
  BY <1>1, <1>2, <1>3 DEF SameRows

LEMMA GiveUpRows ==
  ASSUME NEW w \in Worlds, NEW u \in Nat
  PROVE  SameRows(w, GiveUp(w, u))
<1>. DEFINE e == Announce(w, "pipeline.warning")
<1>1. SameRows(w, e)
  BY AnnounceRows
<1>2. GiveUp(w, u) = Then(e, Complete(e, u))
  BY DEF GiveUp
<1>. HIDE DEF e
<1>3. SameRows(w, Complete(e, u))
  BY <1>1, CompleteRows DEF SameRows
<1>. QED
  BY <1>1, <1>2, <1>3, ThenEither

LEMMA FinalRows ==
  ASSUME NEW w \in Worlds, NEW s \in Sessions, NEW u \in Nat
  PROVE  SameRows(w, QueueFinal(w, s, u))
<1>1. QueueFinal(w, s, u) \in Worlds
  BY FinalCounts DEF Counts
<1>2. CASE Len(w.fin) >= MaxFinals
  <2>. DEFINE e == Announce(w, "pipeline.warning")
  <2>1. SameRows(w, e)
    BY AnnounceRows
  <2>2. QueueFinal(w, s, u) = Then(e, [e EXCEPT !.st.state = "paused"])
    BY <1>2 DEF QueueFinal
  <2>. HIDE DEF e
  <2>3. [e EXCEPT !.st.state = "paused"].st.rows = e.st.rows
    BY <2>1 DEF SameRows, Worlds, Stream
  <2>. QED
    BY <1>1, <2>1, <2>2, <2>3, ThenEither DEF SameRows
<1>3. CASE ~(Len(w.fin) >= MaxFinals)
  BY <1>1, <1>3 DEF QueueFinal, WorkQueued, SameRows, Worlds, Stream
<1>. QED
  BY <1>2, <1>3

LEMMA FinishRows ==
  ASSUME NEW w \in Worlds, NEW s \in Sessions
  PROVE  /\ SameRows(w, Finish(w, s))
         /\ SameRows(w, FinalizeCandidate(w, s))
         /\ SameRows(w, BeginStop(w, s))
<1>1. SameRows(w, Finish(w, s))
  <2>. DEFINE x == [w EXCEPT !.st.detector = "idle"]
              q == QueueFinal(x, s, w.st.utt)
  <2>1. SameRows(w, x) /\ x \in Worlds /\ w.st.utt \in Nat
    BY DEF SameRows, Worlds, Stream
  <2>2. Finish(w, s) = Then(w, Then(q, ClearUtterance(q)))
    BY DEF Finish
  <2>. HIDE DEF x
  <2>3. SameRows(w, q)
    BY <2>1, FinalRows, RowsTransitive
  <2>. HIDE DEF q
  <2>4. SameRows(q, ClearUtterance(q))
    BY <2>3 DEF ClearUtterance, SameRows, Worlds, Stream
  <2>. QED
    BY <2>2, <2>3, <2>4, ThenEither DEF SameRows
<1>2. SameRows(w, FinalizeCandidate(w, s))
  BY <1>1 DEF FinalizeCandidate, SameRows
<1>3. SameRows(w, BeginStop(w, s))
  <2>. DEFINE v == [w EXCEPT !.st.stopping = TRUE]
              x == [w EXCEPT !.st.stopping = TRUE, !.st.detector = "idle", !.st.utt = 0]
              q == QueueFinal(x, s, w.st.utt)
  <2>1. SameRows(w, v) /\ SameRows(w, x) /\ x \in Worlds /\ w.st.utt \in Nat
    BY DEF SameRows, Worlds, Stream
  <2>2. BeginStop(w, s) \in {v, Handled(q, "stop")}
    BY DEF BeginStop
  <2>. HIDE DEF v, x
  <2>3. SameRows(w, q)
    BY <2>1, FinalRows, RowsTransitive
  <2>. HIDE DEF q
  <2>4. SameRows(q, Handled(q, "stop"))
    BY <2>3 DEF Handled, SameRows, Worlds, Stream
  <2>. QED
    BY <2>1, <2>2, <2>3, <2>4 DEF SameRows
<1>. QED
  BY <1>1, <1>2, <1>3

LEMMA QueueRows ==
  ASSUME NEW w \in Worlds, NEW s \in Sessions
  PROVE  /\ SameRows(w, QueuePartial(w, s))
         /\ SameRows(w, QueueEndpoint(w, s))
         /\ \A u \in Nat : SameRows(w, QueueCorrection(w, s, u))
<1>1. SameRows(w, QueuePartial(w, s))
  <2>. DEFINE u == w.st.utt
              g == w.st.generation + 1
              m == [w EXCEPT !.st.generation = g, !.st.latest[u] = g]
              job == AsrJob(s, u, g, "partial")
              at == {i \in DOMAIN w.par : w.par[i].session = s /\ w.par[i].utt = u}
              x == [m EXCEPT !.par = [i \in DOMAIN @ |-> IF i \in at THEN job ELSE @[i]]]
              y == WorkQueued([m EXCEPT !.par = Append(@, job)])
              v == QueuePartial(w, s)
  <2>1. v \in Worlds
    BY PartialCounts DEF Counts
  <2>2. v = x \/ v = y \/ v = Announce(m, "pipeline.warning")
    <3>1. CASE at # {}
      BY <3>1 DEF QueuePartial
    <3>2. CASE at = {} /\ Len(w.par) >= MaxPartials
      BY <3>2 DEF QueuePartial
    <3>3. CASE at = {} /\ ~(Len(w.par) >= MaxPartials)
      BY <3>3 DEF QueuePartial
    <3>. QED
      BY <3>1, <3>2, <3>3
  <2>3. m \in Worlds
    <3>1. g \in Nat
      BY DEF Worlds, Stream
    <3>. HIDE DEF g
    <3>. QED
      BY <3>1, MarkTyped DEF SameWork
  <2>4. m.st.rows = w.st.rows
    BY DEF Worlds, Stream
  <2>. HIDE DEF m, job, at, v
  <2>5. x.st.rows = w.st.rows
    BY <2>3, <2>4 DEF Worlds
  <2>6. y.st.rows = w.st.rows
    BY <2>3, <2>4 DEF WorkQueued, Worlds, Stream
  <2>7. Announce(m, "pipeline.warning").st.rows = w.st.rows
    BY <2>3, <2>4, AnnounceRows DEF SameRows
  <2>. QED
    BY <2>1, <2>2, <2>5, <2>6, <2>7 DEF SameRows, v
<1>2. SameRows(w, QueueEndpoint(w, s))
  <2>1. CASE Len(w.end) >= MaxText
    <3>. DEFINE e == Announce(w, "pipeline.warning")
    <3>1. SameRows(w, e)
      BY AnnounceRows
    <3>2. QueueEndpoint(w, s) = Then(e, FinalizeCandidate(e, s))
      BY <2>1 DEF QueueEndpoint
    <3>. HIDE DEF e
    <3>3. SameRows(w, FinalizeCandidate(e, s))
      BY <3>1, FinishRows DEF SameRows
    <3>. QED
      BY <3>1, <3>2, <3>3, ThenEither
  <2>2. CASE ~(Len(w.end) >= MaxText)
    <3>1. QueueEndpoint(w, s) \in Worlds
      BY EndpointCounts DEF Counts
    <3>2. QueueEndpoint(w, s).st.rows = w.st.rows
      BY <2>2 DEF QueueEndpoint, WorkQueued, Worlds, Stream
    <3>. QED
      BY <3>1, <3>2 DEF SameRows
  <2>. QED
    BY <2>1, <2>2
<1>3. ASSUME NEW u \in Nat PROVE SameRows(w, QueueCorrection(w, s, u))
  <2>1. QueueCorrection(w, s, u) \in Worlds
    BY CorrectionCounts DEF Counts
  <2>2. CASE Len(w.cor) >= MaxText
    <3>. DEFINE e == Announce(w, "pipeline.warning")
    <3>1. SameRows(w, e)
      BY AnnounceRows
    <3>2. QueueCorrection(w, s, u) = Then(w, Complete(e, u))
      BY <2>2 DEF QueueCorrection
    <3>. HIDE DEF e
    <3>3. SameRows(w, Complete(e, u))
      BY <3>1, CompleteRows DEF SameRows
    <3>. QED
      BY <2>1, <3>2, <3>3, ThenEither DEF SameRows
  <2>3. CASE ~(Len(w.cor) >= MaxText)
    <3>. DEFINE n == Len(w.st.rows)
                previous == IF n > 1 THEN w.st.rows[n - 1].text ELSE "none"
                job == TextJob(s, u, "correction", TRUE, previous)
                v == WorkQueued([w EXCEPT !.cor = Append(@, job)])
    <3>1. QueueCorrection(w, s, u) = Then(w, v)
      BY <2>3 DEF QueueCorrection
    <3>. HIDE DEF job
    <3>2. v.st.rows = w.st.rows
      BY DEF WorkQueued, Worlds, Stream
    <3>. QED
      BY <2>1, <3>1, <3>2, ThenEither DEF SameRows
  <2>. QED
    BY <2>2, <2>3
<1>. QED
  BY <1>1, <1>2, <1>3

LEMMA HeardRows ==
  ASSUME NEW w \in Worlds, NEW s \in Sessions,
         NEW outcome \in {"start", "start_final", "candidate", "candidate_final",
                          "cancel", "final", "none"}
  PROVE  SameRows(w, Heard(w, s, outcome))
<1>1. Heard(w, s, "start") \in Worlds
  BY HeardCounts DEF Counts
<1>2. SameRows(w, Start(w))
  BY <1>1 DEF Heard, Start, SameRows, Worlds, Stream
<1>3. SameRows(w, Finish(Start(w), s))
  BY <1>2, FinishRows DEF SameRows
<1>4. \A d \in {"idle", "speech", "candidate"} :
        /\ SameRows(w, [w EXCEPT !.st.detector = d])
        /\ SameRows(w, QueueEndpoint([w EXCEPT !.st.detector = d], s))
  <2>. TAKE d \in {"idle", "speech", "candidate"}
  <2>. DEFINE x == [w EXCEPT !.st.detector = d]
  <2>1. SameRows(w, x)
    BY DEF SameRows, Worlds, Stream
  <2>. HIDE DEF x
  <2>2. SameRows(w, QueueEndpoint(x, s))
    BY <2>1, QueueRows DEF SameRows
  <2>. QED
    BY <2>1, <2>2 DEF x
<1>5. SameRows(w, Finish(QueueEndpoint([w EXCEPT !.st.detector = "idle"], s), s))
  <2>. DEFINE q == QueueEndpoint([w EXCEPT !.st.detector = "idle"], s)
  <2>1. SameRows(w, q)
    BY <1>4
  <2>. HIDE DEF q
  <2>2. SameRows(w, Finish(q, s))
    BY <2>1, FinishRows DEF SameRows
  <2>. QED
    BY <2>2 DEF q
<1>6. SameRows(w, Finish(w, s)) /\ SameRows(w, w)
  BY FinishRows DEF SameRows
<1>. QED
  BY <1>2, <1>3, <1>4, <1>5, <1>6 DEF Heard

LEMMA HandledRows ==
  ASSUME NEW w, NEW v, NEW what \in {"nothing", "handler", "stop"}, SameRows(w, v)
  PROVE  SameRows(w, Handled(v, what))
  BY DEF Handled, SameRows, Worlds, Stream

(* Texts kept: rows are only added; locked ones keep their text. *)
Grown(rows, next, from) ==
  \A i \in DOMAIN rows :
    next[i].text # rows[i].text => ~rows[i].locked /\ i >= from

LEMMA AcceptGrows ==
  ASSUME NEW rows \in Seq(Rows), NEW u \in Nat, NEW t \in Text, NEW f \in BOOLEAN
  PROVE  Grown(rows, Accept(rows, u, t, f), Len(rows))
<1>. DEFINE n == Len(rows)
<1>1. n \in Nat /\ DOMAIN rows = 1..n /\ \A i \in 1..n : rows[i] \in Rows
  BY LenProperties, ElementOfSeq
<1>2. CASE rows = <<>>
  BY <1>2 DEF Grown
<1>3. CASE rows # <<>> /\ Current(rows, u)
  <2>1. n \in 1..n /\ rows[n] \in Rows /\ ~rows[n].locked
    BY <1>1, <1>3, EmptySeq DEF Current, Newest
  <2>2. Accept(rows, u, t, f)
          = [rows EXCEPT ![n] = [rows[n] EXCEPT !.text = t, !.final = @ \/ f]]
    BY <1>3, <2>1 DEF Accept
  <2>. QED
    BY <1>1, <2>1, <2>2 DEF Grown
<1>4. CASE rows # <<>> /\ ~Current(rows, u)
  <2>. DEFINE row == [rows[n] EXCEPT !.revisable = @ \/ ~rows[n].locked]
              opened == [rows EXCEPT ![n] = row]
  <2>1. n \in 1..n /\ rows[n] \in Rows
    BY <1>1, <1>4, EmptySeq
  <2>2. row \in Rows /\ row.text = rows[n].text
    BY <2>1 DEF Rows
  <2>3. opened \in Seq(Rows) /\ Len(opened) = n
    BY <1>1, <2>1, <2>2, ExceptSeq
  <2>4. Accept(rows, u, t, f) = Append(opened, Row(u, t, f))
    BY <1>4, <2>1 DEF Accept, OpenNext
  <2>5. Row(u, t, f) \in Rows
    BY DEF Row, Rows
  <2>6. \A i \in 1..n : opened[i].text = rows[i].text
    BY <1>1, <2>2
  <2>. HIDE DEF opened
  <2>7. \A i \in 1..n : Append(opened, Row(u, t, f))[i] = opened[i]
    BY <2>3, <2>5, AppendProperties
  <2>. QED
    BY <1>1, <2>4, <2>6, <2>7 DEF Grown
<1>. QED
  BY <1>2, <1>3, <1>4

LEMMA ReviseGrows ==
  ASSUME NEW rows \in Seq(Rows), NEW u \in Nat, NEW p \in Text, NEW t \in Text,
         Revises(rows, u)
  PROVE  Grown(rows, Revise(rows, p, t), Len(rows) - 1) /\ Newest(rows).utt = u
<1>. DEFINE n == Len(rows)
<1>1. n \in Nat /\ DOMAIN rows = 1..n /\ \A i \in 1..n : rows[i] \in Rows
  BY LenProperties, ElementOfSeq
<1>2. ~rows[n].locked /\ (n > 1 => ~rows[n - 1].locked) /\ Newest(rows).utt = u
  BY DEF Revises, Current, Newest
<1>3. \A i \in 1..n : Revise(rows, p, t)[i].text # rows[i].text => i = n \/ i = n - 1
  BY <1>1 DEF Revise
<1>. HIDE DEF n
<1>4. ASSUME NEW i \in 1..n, Revise(rows, p, t)[i].text # rows[i].text
      PROVE  ~rows[i].locked /\ i >= n - 1
  <2>1. CASE i = n
    BY <1>1, <1>2, <2>1
  <2>2. CASE i = n - 1
    <3>1. n > 1
      BY <1>1, <2>2
    <3>. QED
      BY <1>1, <1>2, <2>2, <3>1
  <2>. QED
    BY <1>3, <1>4, <2>1, <2>2
<1>. QED
  BY <1>1, <1>2, <1>4 DEF Grown, n

LEMMA FinalizeGrows ==
  ASSUME NEW rows \in Seq(Rows)
  PROVE  \A i \in DOMAIN rows : Finalize(rows)[i].text = rows[i].text
<1>1. DOMAIN rows = 1..Len(rows) /\ \A i \in 1..Len(rows) : rows[i] \in Rows
  BY LenProperties, ElementOfSeq
<1>. QED
  BY <1>1 DEF Finalize, Rows

(* The step of RevisionWindow. *)
Window ==
  \A s \in Sessions : \A i \in DOMAIN streams[s].rows :
    LET rows == streams[s].rows
        changed == streams'[s].rows[i].text # rows[i].text IN
    /\ rows[i].locked => ~changed
    /\ changed /\ text # NoJob /\ text' = NoJob =>
         /\ Newest(rows).utt = text.utt
         /\ i >= Len(rows) - 1

LEMMA RowsStep ==
  ASSUME PipelineType, NEW s \in Sessions, NEW v, Becomes(s, v), NEW from,
         Grown(streams[s].rows, v.st.rows, from),
         \/ text = NoJob \/ text' # NoJob
         \/ v.st.rows = streams[s].rows
         \/ from = Len(streams[s].rows) - 1 /\ Newest(streams[s].rows).utt = text.utt
  PROVE  Window
<1>1. /\ streams'[s].rows = v.st.rows
      /\ \A t \in Sessions : t # s => streams'[t] = streams[t]
  BY DEF Becomes, PipelineType
<1>. QED
  BY <1>1 DEF Window, Grown

LEMMA RowsKept ==
  ASSUME PipelineType, NEW s \in Sessions, NEW v, Becomes(s, v),
         v.st.rows = streams[s].rows
  PROVE  Window
<1>1. Grown(streams[s].rows, v.st.rows, 0)
  BY DEF Grown
<1>. QED
  BY <1>1, RowsStep

LEMMA DoneRows ==
  ASSUME NEW w \in Worlds
  PROVE  WorkDone(w).st.rows = w.st.rows
  BY DEF WorkDone, Worlds, Stream

LEMMA AnswerRows ==
  ASSUME PipelineType, NEW s \in Sessions, NEW w, SameRows(World(s), w),
         Becomes(s, WorkDone(w))
  PROVE  Window
<1>1. World(s).st = streams[s]
  BY DEF World
<1>2. WorkDone(w).st.rows = streams[s].rows
  BY <1>1, DoneRows DEF SameRows
<1>. QED
  BY <1>2, RowsKept

LEMMA StreamSteps ==
  ASSUME PipelineType, NEW s \in Sessions,
         AcceptPcm(s) \/ Stop(s) \/ Close(s) \/ StopDone(s) \/ Evict(s)
  PROVE  Window
<1>1. World(s) \in Worlds /\ World(s).st = streams[s]
  BY WorldTyped DEF World
<1>2. CASE AcceptPcm(s)
  <2>1. PICK outcome \in Outcomes(streams[s]) :
          \/ Becomes(s, Handled(Heard(World(s), s, outcome), "handler"))
          \/ Becomes(s, Handled(QueuePartial(Heard(World(s), s, outcome), s), "handler"))
    BY <1>2 DEF AcceptPcm
  <2>2. outcome \in {"start", "start_final", "candidate", "candidate_final",
                    "cancel", "final", "none"}
    BY <2>1 DEF Outcomes
  <2>. DEFINE w == Heard(World(s), s, outcome)
  <2>3. SameRows(World(s), w)
    BY <1>1, <2>2, HeardRows
  <2>. HIDE DEF w
  <2>4. SameRows(World(s), QueuePartial(w, s))
    BY <2>3, QueueRows DEF SameRows
  <2>5. /\ SameRows(World(s), Handled(w, "handler"))
        /\ SameRows(World(s), Handled(QueuePartial(w, s), "handler"))
    BY <2>3, <2>4, HandledRows
  <2>6. Becomes(s, Handled(w, "handler")) \/ Becomes(s, Handled(QueuePartial(w, s), "handler"))
    BY <2>1 DEF w
  <2>. QED
    BY <1>1, <2>5, <2>6, RowsKept DEF SameRows
<1>3. CASE Stop(s)
  <2>1. BeginStop(World(s), s).st.rows = streams[s].rows
    BY <1>1, FinishRows DEF SameRows
  <2>. QED
    BY <1>3, <2>1, RowsKept DEF Stop
<1>4. CASE Close(s)
  <2>. DEFINE w == [World(s) EXCEPT !.st.open = FALSE]
  <2>1. w \in Worlds /\ w.st.rows = streams[s].rows
    BY <1>1 DEF Worlds, Stream
  <2>. HIDE DEF w
  <2>2. BeginStop(w, s).st.rows = streams[s].rows
    BY <2>1, FinishRows DEF SameRows
  <2>3. Becomes(s, w) \/ Becomes(s, BeginStop(w, s))
    BY <1>4 DEF Close, w
  <2>. QED
    BY <2>1, <2>2, <2>3, RowsKept
<1>5. CASE StopDone(s)
  <2>. DEFINE w == World(s)
              v == Emit([w EXCEPT !.st.rows = Finalize(@), !.st.state = "stopped"],
                        "stream.stopped", 0)
  <2>1. Becomes(s, v) /\ text' = text
    BY <1>5 DEF StopDone
  <2>2. v.st.rows = Finalize(streams[s].rows)
    <3>. DEFINE x == [w EXCEPT !.st.rows = Finalize(@), !.st.state = "stopped"]
    <3>1. w.st.rows \in Seq(Rows) /\ "none" \in Text
      BY <1>1 DEF Worlds, Stream, Text
    <3>2. Finalize(w.st.rows) \in Seq(Rows)
      BY <3>1, ReviseTyped
    <3>. HIDE DEF w
    <3>3. x \in Worlds /\ x.st.rows = Finalize(w.st.rows)
      BY <1>1, <3>2 DEF Worlds, Stream, w
    <3>. HIDE DEF x
    <3>4. SameRows(x, Emit(x, "stream.stopped", 0))
      BY <3>3, EmitRows
    <3>. QED
      BY <1>1, <3>3, <3>4 DEF SameRows, x, w
  <2>3. streams[s].rows \in Seq(Rows)
    BY DEF PipelineType, Stream
  <2>4. Grown(streams[s].rows, v.st.rows, 0)
    BY <2>2, <2>3, FinalizeGrows DEF Grown
  <2>. HIDE DEF v
  <2>5. text = NoJob \/ text' # NoJob
    BY <2>1
  <2>. QED
    BY <2>1, <2>4, <2>5, RowsStep
<1>6. CASE Evict(s)
  <2>1. /\ streams'[s].rows = streams[s].rows
        /\ \A t \in Sessions : t # s => streams'[t] = streams[t]
    BY <1>6 DEF Evict, PipelineType, Stream
  <2>. QED
    BY <2>1 DEF Window
<1>. QED
  BY <1>2, <1>3, <1>4, <1>5, <1>6

LEMMA AsrAnswerRows ==
  ASSUME PipelineType, AsrAnswer
  PROVE  Window
<1>. DEFINE s == asr.session
            w == World(s)
<1>1. /\ asr \in Job("final") \cup Job("partial") /\ s \in Sessions /\ asr.utt \in Nat
      /\ asr.mode = "partial" \/ asr.mode = "final"
      /\ asr.mode = "final" => asr \in Job("final")
      /\ asr.mode = "partial" => asr \in Job("partial")
      /\ text = NoJob \/ text' # NoJob
  BY DEF AsrAnswer, PipelineType, Job
<1>2. w \in Worlds /\ w.st = streams[s] /\ w.st.rows \in Seq(Rows)
  BY <1>1, WorldTyped DEF World, Worlds, Stream
<1>3. \/ Becomes(s, WorkDone(Failed(w, asr)))
      \/ asr.mode = "partial" /\ Becomes(s, WorkDone(AcceptPartial(w, asr)))
      \/ asr.mode = "final" /\ Becomes(s, WorkDone(AcceptFinal(w, asr)))
  <2>1. PICK v \in {Failed(w, asr), IF asr.mode = "partial" THEN AcceptPartial(w, asr)
                                    ELSE AcceptFinal(w, asr)} : Becomes(s, WorkDone(v))
    BY DEF AsrAnswer
  <2>. QED
    BY <1>1, <2>1
<1>. HIDE DEF w, s
<1>5. SameRows(w, Failed(w, asr))
  BY <1>1, <1>2, GiveUpRows, AnnounceRows DEF Failed
<1>6. ASSUME asr.mode = "partial", Becomes(s, WorkDone(AcceptPartial(w, asr)))
      PROVE  Window
  <2>. DEFINE v == AcceptPartial(w, asr)
              rows == Accept(w.st.rows, asr.utt, "partial", FALSE)
  <2>1. v \in Worlds
    BY <1>1, <1>2, <1>6, AcceptPartialCounts DEF Counts
  <2>2. v.st.rows = rows \/ v.st.rows = w.st.rows
    <3>. DEFINE x == [w EXCEPT !.st.rows = Accept(@, asr.utt, "partial", FALSE)]
    <3>1. rows \in Seq(Rows)
      BY <1>1, <1>2, AcceptTyped DEF Text
    <3>. HIDE DEF rows
    <3>2. x = [w EXCEPT !.st.rows = rows]
      BY <1>2 DEF Worlds, Stream, rows
    <3>3. v \in {w, Emit(x, "asr.partial", asr.utt)}
      BY DEF AcceptPartial
    <3>. HIDE DEF x
    <3>4. x \in Worlds /\ x.st.rows = rows
      BY <1>2, <3>1, <3>2, RowsSame DEF SameWork, Worlds, Stream
    <3>5. SameRows(x, Emit(x, "asr.partial", asr.utt))
      BY <1>1, <3>4, EmitRows
    <3>. QED
      BY <3>3, <3>4, <3>5 DEF SameRows
  <2>3. Grown(w.st.rows, rows, Len(w.st.rows))
    BY <1>1, <1>2, AcceptGrows DEF Text
  <2>. HIDE DEF v, rows
  <2>4. Grown(w.st.rows, v.st.rows, Len(w.st.rows))
    BY <2>2, <2>3 DEF Grown
  <2>5. Grown(streams[s].rows, WorkDone(v).st.rows, Len(w.st.rows))
    BY <1>2, <2>1, <2>4, DoneRows
  <2>. QED
    BY <1>1, <1>6, <2>5, RowsStep DEF v
<1>7. ASSUME asr.mode = "final", Becomes(s, WorkDone(AcceptFinal(w, asr)))
      PROVE  Window
  <2>. DEFINE v == AcceptFinal(w, asr)
              rows == Accept(w.st.rows, asr.utt, "final", TRUE)
              x == [w EXCEPT !.st.rows = Accept(@, asr.utt, "final", TRUE)]
              e == Emit(x, "asr.final", asr.utt)
  <2>1. rows \in Seq(Rows)
    BY <1>1, <1>2, AcceptTyped DEF Text
  <2>2. x = [w EXCEPT !.st.rows = rows]
    BY <1>2 DEF Worlds, Stream
  <2>. HIDE DEF rows
  <2>3. x \in Worlds /\ x.st.rows = rows
    <3>1. x \in Worlds
      BY <1>2, <2>1, <2>2, RowsSame DEF SameWork
    <3>. QED
      BY <1>2, <2>2, <3>1 DEF Worlds, Stream
  <2>. HIDE DEF x
  <2>4. e \in Worlds /\ e.st.rows = rows
    BY <1>1, <2>3, EmitRows DEF SameRows
  <2>5. v \in {QueueCorrection(e, asr.session, asr.utt), [w EXCEPT !.raises = TRUE]}
    BY DEF AcceptFinal, x
  <2>. HIDE DEF e, v
  <2>6. v \in Worlds /\ (v.st.rows = rows \/ v.st.rows = w.st.rows)
    <3>1. SameRows(e, QueueCorrection(e, asr.session, asr.utt))
      BY <1>1, <2>4, QueueRows DEF s
    <3>2. SameRows(w, [w EXCEPT !.raises = TRUE])
      BY <1>2 DEF SameRows, Worlds
    <3>. QED
      BY <2>4, <2>5, <3>1, <3>2 DEF SameRows
  <2>7. Grown(w.st.rows, rows, Len(w.st.rows))
    BY <1>1, <1>2, AcceptGrows DEF Text, rows
  <2>8. Grown(streams[s].rows, WorkDone(v).st.rows, Len(w.st.rows))
    BY <1>2, <2>6, <2>7, DoneRows DEF Grown
  <2>. QED
    BY <1>1, <1>7, <2>8, RowsStep DEF v
<1>. QED
  BY <1>1, <1>3, <1>5, <1>6, <1>7, AnswerRows DEF w

LEMMA TextAnswerRows ==
  ASSUME PipelineType, TextAnswer
  PROVE  Window
<1>. DEFINE s == text.session
            w == World(s)
<1>1. /\ text \in Question("endpoint") \cup Question("correction")
      /\ s \in Sessions /\ text.utt \in Nat
      /\ text.mode # "endpoint" => text \in Question("correction")
  BY DEF TextAnswer, PipelineType, Question
<1>2. w \in Worlds /\ w.st = streams[s] /\ w.st.rows \in Seq(Rows)
  BY <1>1, WorldTyped DEF World, Worlds, Stream
<1>3. PICK v \in TextAnswers(w, text) : Becomes(s, WorkDone(v))
  BY DEF TextAnswer
<1>. HIDE DEF w, s
<1>4. CASE SameRows(w, v)
  BY <1>1, <1>3, <1>4, AnswerRows DEF w
<1>5. ASSUME NEW p \in Text, NEW c \in Text, text.mode # "endpoint",
             v = Corrected(w, text, p, c), Revises(w.st.rows, text.utt)
      PROVE  Window
  <2>. DEFINE x == [w EXCEPT !.st.rows = Revise(@, p, c)]
              rows == Revise(w.st.rows, p, c)
              e == Announce(x, "transcript.revised")
  <2>1. rows \in Seq(Rows)
    BY <1>2, ReviseTyped
  <2>2. x = [w EXCEPT !.st.rows = rows]
    BY <1>2 DEF Worlds, Stream
  <2>3. v = Then(e, Complete(e, text.utt))
    BY <1>5 DEF Corrected
  <2>4. Grown(w.st.rows, rows, Len(w.st.rows) - 1) /\ Newest(w.st.rows).utt = text.utt
    BY <1>1, <1>2, <1>5, ReviseGrows
  <2>. HIDE DEF rows
  <2>5. x \in Worlds /\ x.st.rows = rows
    <3>1. x \in Worlds
      BY <1>2, <2>1, <2>2, RowsSame DEF SameWork
    <3>. QED
      BY <1>2, <2>2, <3>1 DEF Worlds, Stream
  <2>. HIDE DEF x
  <2>6. e \in Worlds /\ e.st.rows = rows
    BY <2>5, AnnounceRows DEF SameRows
  <2>. HIDE DEF e
  <2>7. v \in Worlds /\ v.st.rows = rows
    BY <1>1, <2>3, <2>6, CompleteRows, ThenEither DEF SameRows
  <2>8. Grown(streams[s].rows, WorkDone(v).st.rows, Len(streams[s].rows) - 1)
    BY <1>2, <2>4, <2>7, DoneRows
  <2>9. Newest(streams[s].rows).utt = text.utt
    BY <1>2, <2>4
  <2>. QED
    BY <1>1, <1>3, <2>8, <2>9, RowsStep
<1>6. CASE text.mode = "endpoint"
  <2>1. v \in {w, FinalizeCandidate(w, text.session)}
    BY <1>6 DEF TextAnswers
  <2>2. SameRows(w, w) /\ SameRows(w, FinalizeCandidate(w, text.session))
    BY <1>1, <1>2, FinishRows DEF SameRows, s
  <2>. QED
    BY <1>4, <2>1, <2>2
<1>7. CASE text.mode # "endpoint"
  <2>1. \/ v = GiveUp(w, text.utt)
        \/ \E p \in {text.previous, "revised"}, c \in {"final", "revised"} :
             v = Corrected(w, text, p, c)
    BY <1>7 DEF TextAnswers
  <2>2. {text.previous, "revised"} \subseteq Text /\ {"final", "revised"} \subseteq Text
    BY <1>1, <1>7 DEF Question, Text
  <2>3. SameRows(w, GiveUp(w, text.utt)) /\ SameRows(w, w)
    BY <1>1, <1>2, GiveUpRows DEF SameRows
  <2>4. \A p, c : ~Revises(w.st.rows, text.utt) => Corrected(w, text, p, c) = w
    BY DEF Corrected
  <2>. QED
    BY <1>4, <1>5, <1>7, <2>1, <2>2, <2>3, <2>4
<1>. QED
  BY <1>6, <1>7

LEMMA WindowStep == PipelineType /\ Next => Window
<1>. SUFFICES ASSUME PipelineType, Next PROVE Window
  OBVIOUS
<1>1. CASE AsrTake \/ TextTake
  <2>1. streams' = streams /\ (text = NoJob \/ text' = text)
    BY <1>1 DEF AsrTake, TextTake
  <2>. QED
    BY <2>1 DEF Window
<1>. QED
  BY <1>1, StreamSteps, AsrAnswerRows, TextAnswerRows DEF Next

(* An answer of the text worker changes the rows of its own utterance and of *)
(* the one before, and a locked row keeps its text, whatever is queued.      *)
THEOREM RevisionReachesOneBack == Spec => RevisionWindow
<1>1. Init => WorkInv
  BY InitKeeps
<1>2. WorkInv /\ [Next]_vars => WorkInv'
  BY WorkInvKept
<1>3. WorkInv /\ [Next]_vars => [Window]_vars
  BY WindowStep DEF WorkInv
<1>4. RevisionWindow <=> [][Window]_vars
  BY DEF RevisionWindow, Window
<1>. QED
  BY <1>1, <1>2, <1>3, <1>4, PTL DEF Spec

-----------------------------------------------------------------------------
(* The order of the events *)

Mine(q, s) == {q[i].utt : i \in {j \in DOMAIN q : q[j].session = s}}

InOrder(q, s) ==
  \A i, j \in DOMAIN q :
    i < j /\ q[i].session = s /\ q[j].session = s => q[i].utt < q[j].utt

(* The final and the correction of s that a loop has in hand. *)
FinalInHand(s) ==
  IF asr.mode = "final" /\ asr.session = s THEN {asr.utt} ELSE {}
CorrectionInHand(s) ==
  IF text.mode = "correction" /\ text.session = s THEN {text.utt} ELSE {}

HistoryInOrder(h) ==
  \A i, j \in DOMAIN h : i < j =>
    /\ h[i].type = "asr.final" /\ h[j].type = "asr.final" => h[i].utt < h[j].utt
    /\ h[i].type = "utterance.completed" /\ h[j].type # "asr.partial"
         => h[i].utt # h[j].utt
    /\ h[i].type # "stream.stopped"

(* A partial transcript may come late; the other events keep their order. *)
Told(h) == {i \in DOMAIN h : h[i].type # "asr.partial"}

(* Utterances whose final is still to come (F) follow those whose events are *)
(* out or whose correction is to come (C), and the one being heard is last.  *)
Ordered(st, F, C) ==
  /\ F \cup C \subseteq 1..st.spoken
  /\ \A f \in F, c \in C : c < f
  /\ \A i \in Told(st.history) : st.history[i].utt <= st.spoken
  /\ \A f \in F : \A i \in Told(st.history) : st.history[i].utt < f
  /\ st.utt # 0 => /\ st.utt = st.spoken
                   /\ \A x \in F \cup C : x < st.utt
                   /\ \A i \in Told(st.history) : st.history[i].utt < st.utt
  /\ st.detector # "idle" => st.utt # 0
  /\ \A i \in Told(st.history) :
       st.history[i].type = "utterance.completed" => st.history[i].utt \notin C \cup {0}
  /\ HistoryInOrder(st.history)

(* The queue q of s in its order, after what is in hand. *)
Lined(q, s, hand) ==
  /\ InOrder(q, s)
  /\ \A x \in hand, y \in Mine(q, s) : x < y

Tidy(w, s, A, T) ==
  /\ Lined(w.fin, s, A) /\ Lined(w.cor, s, T)
  /\ Ordered(w.st, A \cup Mine(w.fin, s), T \cup Mine(w.cor, s))

Ends(st) ==
  /\ \A i \in DOMAIN st.history :
       st.history[i].type = "stream.stopped" => st.state = "stopped"
  /\ st.state = "stopped" => st.pending = 0 /\ st.stopping

OrderInv ==
  \A s \in Sessions :
    /\ Tidy(World(s), s, FinalInHand(s), CorrectionInHand(s))
    /\ Ends(streams[s])

LEMMA MineAppend ==
  ASSUME NEW S, NEW q \in Seq(S), NEW job \in S, NEW t
  PROVE  Mine(Append(q, job), t)
           = Mine(q, t) \cup (IF job.session = t THEN {job.utt} ELSE {})
<1>. DEFINE r == Append(q, job)
            n == Len(q) + 1
<1>1. /\ DOMAIN q = 1..Len(q) /\ DOMAIN r = 1..n /\ Len(q) \in Nat
      /\ \A i \in 1..Len(q) : r[i] = q[i]
      /\ r[n] = job
  BY LenProperties, AppendProperties
<1>. HIDE DEF r
<1>2. DOMAIN r = DOMAIN q \cup {n}
  BY <1>1
<1>3. Mine(r, t) = Mine(q, t) \cup (IF r[n].session = t THEN {r[n].utt} ELSE {})
  BY <1>1, <1>2 DEF Mine
<1>. QED
  BY <1>1, <1>3 DEF r

(* A job appended after what its session has in hand and in the queue. *)
LEMMA LinedAppend ==
  ASSUME NEW S, NEW q \in Seq(S), NEW job \in S, NEW t, NEW hand, Lined(q, t, hand),
         job.session = t => \A x \in hand \cup Mine(q, t) : x < job.utt
  PROVE  Lined(Append(q, job), t, hand)
<1>. DEFINE r == Append(q, job)
            n == Len(q) + 1
<1>1. /\ DOMAIN q = 1..Len(q) /\ DOMAIN r = 1..n /\ Len(q) \in Nat
      /\ \A i \in 1..Len(q) : r[i] = q[i]
      /\ r[n] = job
  BY LenProperties, AppendProperties
<1>2. Mine(r, t) = Mine(q, t) \cup (IF job.session = t THEN {job.utt} ELSE {})
  BY MineAppend
<1>. HIDE DEF r
<1>3. ASSUME NEW i \in DOMAIN r, NEW j \in DOMAIN r, i < j, r[i].session = t, r[j].session = t
      PROVE  r[i].utt < r[j].utt
  <2>1. i \in 1..Len(q) /\ i \in DOMAIN q
    BY <1>1, <1>3
  <2>2. CASE j \in 1..Len(q)
    BY <1>1, <1>3, <2>1, <2>2 DEF Lined, InOrder
  <2>3. CASE j = n
    <3>1. q[i].utt \in Mine(q, t)
      BY <1>1, <1>3, <2>1 DEF Mine
    <3>. QED
      BY <1>1, <1>3, <2>1, <2>3, <3>1
  <2>. QED
    BY <1>1, <1>3, <2>2, <2>3
<1>4. \A x \in hand, y \in Mine(r, t) : x < y
  BY <1>2 DEF Lined
<1>5. Lined(r, t, hand)
  BY <1>3, <1>4 DEF Lined, InOrder
<1>. QED
  BY <1>5 DEF r

(* The head of a queue is taken in hand. *)
LEMMA LinedTail ==
  ASSUME NEW S, NEW q \in Seq(S), q # <<>>, NEW t, Lined(q, t, {}),
         NEW hand, hand = IF Head(q).session = t THEN {Head(q).utt} ELSE {}
  PROVE  /\ Lined(Tail(q), t, hand) /\ Lined(Tail(q), t, {})
         /\ Mine(q, t) = hand \cup Mine(Tail(q), t)
<1>. DEFINE r == Tail(q)
<1>1. /\ DOMAIN q = 1..Len(q) /\ Len(q) \in Nat \ {0}
      /\ Len(r) = Len(q) - 1 /\ DOMAIN r = 1..Len(r)
      /\ \A j \in 1..Len(r) : r[j] = q[j + 1]
      /\ Head(q) = q[1]
  BY LenProperties, HeadTailProperties, EmptySeq
<1>. HIDE DEF r
<1>2. \A j \in DOMAIN r : j + 1 \in DOMAIN q /\ 1 < j + 1 /\ r[j] = q[j + 1]
  BY <1>1
<1>3. 1 \in DOMAIN q /\ \A i \in DOMAIN q : i = 1 \/ (i - 1 \in DOMAIN r /\ r[i - 1] = q[i])
  BY <1>1
<1>4. Mine(q, t) = hand \cup Mine(r, t)
  <2>1. ASSUME NEW i \in DOMAIN q, q[i].session = t
        PROVE  q[i].utt \in hand \cup Mine(r, t)
    <3>1. CASE i = 1
      BY <1>1, <2>1, <3>1
    <3>2. CASE i - 1 \in DOMAIN r /\ r[i - 1] = q[i]
      BY <2>1, <3>2 DEF Mine
    <3>. QED
      BY <1>3, <3>1, <3>2
  <2>2. ASSUME NEW j \in DOMAIN r, r[j].session = t
        PROVE  r[j].utt \in Mine(q, t)
    <3>1. j + 1 \in DOMAIN q /\ r[j] = q[j + 1]
      BY <1>2
    <3>. QED
      BY <2>2, <3>1 DEF Mine
  <2>3. hand \subseteq Mine(q, t)
    BY <1>1, <1>3 DEF Mine
  <2>. QED
    BY <2>1, <2>2, <2>3 DEF Mine
<1>5. InOrder(r, t)
  <2>. SUFFICES ASSUME NEW i \in DOMAIN r, NEW j \in DOMAIN r, i < j,
                       r[i].session = t, r[j].session = t
                PROVE  r[i].utt < r[j].utt
    BY DEF InOrder
  <2>1. i + 1 \in DOMAIN q /\ j + 1 \in DOMAIN q /\ i + 1 < j + 1
        /\ r[i] = q[i + 1] /\ r[j] = q[j + 1]
    BY <1>1
  <2>. QED
    BY <2>1 DEF Lined, InOrder
<1>6. ASSUME NEW x \in hand, NEW y \in Mine(r, t) PROVE x < y
  <2>1. Head(q).session = t /\ x = q[1].utt /\ 1 \in DOMAIN q
    BY <1>1, <1>3, <1>6
  <2>2. PICK j \in DOMAIN r : r[j].session = t /\ y = r[j].utt
    BY <1>6 DEF Mine
  <2>3. j + 1 \in DOMAIN q /\ 1 < j + 1 /\ r[j] = q[j + 1]
    BY <1>2
  <2>. QED
    BY <1>1, <2>1, <2>2, <2>3 DEF Lined, InOrder
<1>. QED
  BY <1>4, <1>5, <1>6 DEF Lined, r

-----------------------------------------------------------------------------
(* The steps of a handler keep the order of the stream they are about, and   *)
(* leave that of every other stream alone.                                   *)

Unfinished(st) ==
  /\ st.state # "stopped"
  /\ \A i \in DOMAIN st.history : st.history[i].type # "stream.stopped"

Good(w, s, A, T) == w \in Worlds /\ Tidy(w, s, A, T) /\ Unfinished(w.st)

OthersKept(w, v, s) ==
  \A t \in Sessions : t # s =>
    /\ Mine(v.fin, t) = Mine(w.fin, t) /\ Mine(v.cor, t) = Mine(w.cor, t)
    /\ InOrder(w.fin, t) => InOrder(v.fin, t)
    /\ InOrder(w.cor, t) => InOrder(v.cor, t)

Alike(w, v) ==
  /\ v \in Worlds /\ v.fin = w.fin /\ v.cor = w.cor
  /\ v.st.utt \in {w.st.utt, 0} /\ v.st.spoken = w.st.spoken
  /\ v.st.history = w.st.history
  /\ \/ v.st.detector = w.st.detector /\ v.st.utt = w.st.utt
     \/ v.st.detector # "idle" => v.st.utt # 0

LEMMA OthersTransitive ==
  ASSUME NEW u, NEW w, NEW v, NEW s, OthersKept(u, w, s), OthersKept(w, v, s)
  PROVE  OthersKept(u, v, s)
  BY DEF OthersKept

LEMMA AlikeGood ==
  ASSUME NEW w \in Worlds, NEW v, NEW s \in Sessions, NEW A, NEW T, Alike(w, v)
  PROVE  /\ Tidy(w, s, A, T) => Tidy(v, s, A, T)
         /\ Good(w, s, A, T) /\ v.st.state # "stopped" => Good(v, s, A, T)
         /\ OthersKept(w, v, s)
  BY DEF Alike, Good, Tidy, Ordered, Unfinished, OthersKept

LEMMA OrderedFewer ==
  ASSUME NEW st, NEW F, NEW C, NEW F2 \in SUBSET F, NEW C2 \in SUBSET C, Ordered(st, F, C)
  PROVE  Ordered(st, F2, C2)
  BY DEF Ordered

LEMMA AnnounceGood ==
  ASSUME NEW w, NEW s \in Sessions, NEW A, NEW T, Good(w, s, A, T), NEW type
  PROVE  /\ Good(Announce(w, type), s, A, T)
         /\ OthersKept(w, Announce(w, type), s)
<1>1. w \in Worlds /\ w.st.state # "stopped"
  BY DEF Good, Unfinished
<1>2. SameWorld(w, Announce(w, type))
  BY <1>1, AnnounceSame
<1>3. Alike(w, Announce(w, type)) /\ Announce(w, type).st.state # "stopped"
  BY <1>1, <1>2 DEF SameWorld, Alike
<1>. QED
  BY <1>1, <1>3, AlikeGood

LEMMA NothingDone ==
  ASSUME NEW w, NEW s
  PROVE  OthersKept(w, w, s)
  BY DEF OthersKept

(* An utterance that is over and follows all others is queued. *)
LEMMA FinalGood ==
  ASSUME NEW w, NEW s \in Sessions, NEW A, NEW T, Good(w, s, A, T),
         w.st.utt = 0, NEW u \in 1..w.st.spoken,
         \A x \in A \cup Mine(w.fin, s) : x < u,
         \A x \in T \cup Mine(w.cor, s) : x < u,
         \A i \in Told(w.st.history) : w.st.history[i].utt < u
  PROVE  Good(QueueFinal(w, s, u), s, A, T) /\ OthersKept(w, QueueFinal(w, s, u), s)
<1>. DEFINE v == QueueFinal(w, s, u)
            F == A \cup Mine(w.fin, s)
            C == T \cup Mine(w.cor, s)
<1>1. w \in Worlds /\ w.st.state # "stopped" /\ u \in Nat /\ w.st.spoken \in Nat
  BY DEF Good, Unfinished, Worlds, Stream
<1>2. /\ Ordered(w.st, F, C) /\ Lined(w.fin, s, A) /\ Lined(w.cor, s, T)
      /\ Unfinished(w.st)
  BY DEF Good, Tidy
<1>3. CASE Len(w.fin) >= MaxFinals
  <2>. DEFINE e == Announce(w, "pipeline.warning")
              z == [e EXCEPT !.st.state = "paused"]
  <2>1. Good(e, s, A, T) /\ OthersKept(w, e, s)
    BY AnnounceGood
  <2>2. v \in {e, z}
    BY <1>3 DEF QueueFinal, Then
  <2>. HIDE DEF e
  <2>3. e \in Worlds
    BY <2>1 DEF Good
  <2>4. Alike(e, z) /\ z.st.state # "stopped"
    BY <2>3 DEF Alike, Worlds, Stream
  <2>. HIDE DEF z
  <2>5. Good(z, s, A, T) /\ OthersKept(e, z, s)
    BY <2>1, <2>3, <2>4, AlikeGood
  <2>6. OthersKept(w, z, s)
    BY <2>1, <2>5, OthersTransitive
  <2>. QED
    BY <2>1, <2>2, <2>5, <2>6
<1>4. CASE ~(Len(w.fin) >= MaxFinals)
  <2>. DEFINE job == AsrJob(s, u, 1, "final")
  <2>1. job \in Job("final") /\ job.session = s /\ job.utt = u
    BY <1>1 DEF AsrJob, Job
  <2>2. w.fin \in Seq(Job("final")) /\ v \in Worlds
    BY <1>1, FinalCounts DEF Worlds, Counts
  <2>3. /\ v.fin = Append(w.fin, job) /\ v.cor = w.cor
        /\ v.st.utt = w.st.utt /\ v.st.spoken = w.st.spoken
        /\ v.st.detector = w.st.detector /\ v.st.history = w.st.history
        /\ v.st.state = w.st.state
    BY <1>1, <1>4 DEF QueueFinal, WorkQueued, Worlds, Stream
  <2>. HIDE DEF job, v, F, C
  <2>4. Lined(v.fin, s, A) /\ Mine(v.fin, s) = Mine(w.fin, s) \cup {u}
    BY <1>2, <2>1, <2>2, <2>3, LinedAppend, MineAppend
  <2>5. Ordered(v.st, F \cup {u}, C)
    <3>1. \A c \in C : c < u
      BY DEF C
    <3>. QED
      BY <1>2, <2>3, <3>1 DEF Ordered
  <2>6. Tidy(v, s, A, T)
    <3>1. A \cup Mine(v.fin, s) = F \cup {u}
      BY <2>4 DEF F
    <3>. QED
      BY <1>2, <2>3, <2>4, <2>5, <3>1 DEF Tidy, C
  <2>7. ASSUME NEW t \in Sessions, t # s
        PROVE  Mine(v.fin, t) = Mine(w.fin, t) /\ (InOrder(w.fin, t) => InOrder(v.fin, t))
    <3>1. Mine(v.fin, t) = Mine(w.fin, t)
      <4>1. Mine(Append(w.fin, job), t)
              = Mine(w.fin, t) \cup (IF job.session = t THEN {job.utt} ELSE {})
        BY <2>1, <2>2, MineAppend
      <4>. QED
        BY <2>1, <2>3, <2>7, <4>1
    <3>2. InOrder(w.fin, t) => Lined(w.fin, t, {})
      BY DEF Lined
    <3>3. Lined(w.fin, t, {}) => Lined(v.fin, t, {})
      BY <2>1, <2>2, <2>3, <2>7, LinedAppend
    <3>. QED
      BY <3>1, <3>2, <3>3 DEF Lined
  <2>8. OthersKept(w, v, s)
    BY <2>3, <2>7 DEF OthersKept
  <2>9. Unfinished(v.st)
    BY <1>2, <2>3 DEF Unfinished
  <2>. QED
    BY <2>2, <2>6, <2>8, <2>9 DEF Good, v
<1>. QED
  BY <1>3, <1>4

(* The utterance being heard follows all others. *)
LEMMA HeardLast ==
  ASSUME NEW w, NEW s \in Sessions, NEW A, NEW T, Good(w, s, A, T), w.st.utt # 0
  PROVE  /\ w.st.utt \in 1..w.st.spoken
         /\ \A x \in A \cup Mine(w.fin, s) : x < w.st.utt
         /\ \A x \in T \cup Mine(w.cor, s) : x < w.st.utt
         /\ \A i \in Told(w.st.history) : w.st.history[i].utt < w.st.utt
<1>. DEFINE F == A \cup Mine(w.fin, s)
            C == T \cup Mine(w.cor, s)
<1>1. Ordered(w.st, F, C) /\ w.st.utt \in Nat
  BY DEF Good, Tidy, Worlds, Stream
<1>. HIDE DEF F, C
<1>2. /\ w.st.utt = w.st.spoken /\ w.st.utt \in 1..w.st.spoken
      /\ \A x \in F \cup C : x < w.st.utt
      /\ \A i \in Told(w.st.history) : w.st.history[i].utt < w.st.utt
  BY <1>1 DEF Ordered
<1>. QED
  BY <1>2 DEF F, C

LEMMA FinishGood ==
  ASSUME NEW w, NEW s \in Sessions, NEW A, NEW T, Good(w, s, A, T), w.st.utt # 0
  PROVE  Good(Finish(w, s), s, A, T) /\ OthersKept(w, Finish(w, s), s)
<1>. DEFINE u == w.st.utt
            x == [w EXCEPT !.st.detector = "idle"]
            z == [w EXCEPT !.st.detector = "idle", !.st.utt = 0]
            q == QueueFinal(x, s, u)
            f == QueueFinal(z, s, u)
            v == Finish(w, s)
<1>1. w \in Worlds /\ u \in Nat /\ w.st.state # "stopped" /\ v \in Worlds
  <2>1. w \in Worlds /\ w.st.state # "stopped"
    BY DEF Good, Unfinished
  <2>. QED
    BY <2>1, FinishCounts DEF Counts, Worlds, Stream
<1>2. Alike(w, z) /\ z.st.state = w.st.state /\ z.st.utt = 0
  BY <1>1 DEF Alike, Worlds, Stream
<1>3. Good(z, s, A, T) /\ OthersKept(w, z, s)
  BY <1>1, <1>2, AlikeGood
<1>4. Good(f, s, A, T) /\ OthersKept(z, f, s)
  <2>1. z.fin = w.fin /\ z.cor = w.cor /\ z.st.spoken = w.st.spoken
        /\ z.st.history = w.st.history
    BY <1>2 DEF Alike
  <2>. HIDE DEF z
  <2>. QED
    BY <1>2, <1>3, <2>1, HeardLast, FinalGood
<1>5. v = w \/ v = q \/ v = ClearUtterance(q)
  BY DEF Finish, Then
<1>6. CASE v = w
  BY <1>6, NothingDone
<1>7. CASE Len(w.fin) >= MaxFinals /\ v # w
  <2>1. x \in Worlds /\ x.fin = w.fin
    BY <1>1 DEF Worlds, Stream
  <2>. DEFINE e == Announce(x, "pipeline.warning")
  <2>2. q \in {e, [e EXCEPT !.st.state = "paused"]}
    BY <1>7, <2>1 DEF QueueFinal, Then
  <2>3. /\ x.st.utt = u /\ x.st.spoken = w.st.spoken /\ x.st.history = w.st.history
        /\ x.st.detector = "idle" /\ x.st.state = w.st.state /\ x.cor = w.cor
    BY <1>1 DEF Worlds, Stream
  <2>. HIDE DEF x
  <2>4. e \in Worlds /\ e.st = x.st /\ e.fin = w.fin /\ e.cor = w.cor
    BY <2>1, <2>3, AnnounceSame DEF SameWorld
  <2>. HIDE DEF e, q
  <2>5. /\ q \in Worlds /\ q.fin = w.fin /\ q.cor = w.cor
        /\ q.st.utt = u /\ q.st.spoken = w.st.spoken /\ q.st.history = w.st.history
        /\ q.st.detector = "idle" /\ q.st.state # "stopped"
    <3>1. /\ e.st.utt = u /\ e.st.spoken = w.st.spoken /\ e.st.history = w.st.history
          /\ e.st.detector = "idle" /\ e.st.state # "stopped"
      BY <1>1, <2>3, <2>4
    <3>2. CASE q = e
      BY <2>4, <3>1, <3>2
    <3>3. CASE q = [e EXCEPT !.st.state = "paused"]
      <4>. HIDE DEF u
      <4>. QED
        BY <2>4, <3>1, <3>3 DEF Worlds, Stream
    <3>. QED
      BY <2>2, <3>2, <3>3
  <2>6. Alike(w, v) /\ v.st.state # "stopped"
    <3>1. CASE v = q
      BY <1>1, <2>5, <3>1 DEF Alike
    <3>2. CASE v = ClearUtterance(q)
      <4>. DEFINE y == ClearUtterance(q)
      <4>1. /\ y.fin = w.fin /\ y.cor = w.cor
            /\ y.st.utt = 0 /\ y.st.spoken = w.st.spoken /\ y.st.history = w.st.history
            /\ y.st.detector = "idle" /\ y.st.state # "stopped"
        BY <2>5 DEF ClearUtterance, Worlds, Stream
      <4>. QED
        BY <1>1, <3>2, <4>1 DEF Alike
    <3>. QED
      BY <1>5, <1>7, <3>1, <3>2 DEF q
  <2>. QED
    BY <1>1, <2>6, AlikeGood
<1>8. CASE ~(Len(w.fin) >= MaxFinals) /\ v # w
  <2>. DEFINE job == AsrJob(s, u, 1, "final")
  <2>1. x \in Worlds /\ x.fin = w.fin /\ z \in Worlds /\ z.fin = w.fin
    BY <1>1 DEF Worlds, Stream
  <2>2. /\ q = WorkQueued([x EXCEPT !.fin = Append(@, job)])
        /\ f = WorkQueued([z EXCEPT !.fin = Append(@, job)])
    BY <1>8, <2>1 DEF QueueFinal
  <2>3. /\ q.raises = w.raises /\ v = ClearUtterance(q)
    <3>1. q.raises = w.raises
      BY <1>1, <2>2 DEF WorkQueued, Worlds
    <3>. QED
      BY <1>8, <3>1 DEF Finish, Then
  <2>4. /\ v.fin = f.fin /\ v.cor = f.cor /\ v.st.utt = 0 /\ f.st.utt = 0
        /\ v.st.spoken = f.st.spoken /\ v.st.history = f.st.history
        /\ v.st.detector = "idle" /\ v.st.state = w.st.state
    <3>. DEFINE last == Append(w.fin, job)
    <3>1. x.st = [w.st EXCEPT !.detector = "idle"] /\ x.cor = w.cor
          /\ z.st = [w.st EXCEPT !.detector = "idle", !.utt = 0] /\ z.cor = w.cor
      BY <1>1 DEF Worlds
    <3>. HIDE DEF job, x, z
    <3>2. q.fin = last /\ q.cor = w.cor /\ q.st = [x.st EXCEPT !.pending = @ + 1]
      BY <2>1, <2>2, <3>1 DEF WorkQueued, Worlds
    <3>3. f.fin = last /\ f.cor = w.cor /\ f.st = [z.st EXCEPT !.pending = @ + 1]
      BY <2>1, <2>2, <3>1 DEF WorkQueued, Worlds
    <3>4. q \in Worlds
      BY <2>1, <1>1, FinalCounts DEF Counts
    <3>. HIDE DEF q, f, last
    <3>5. v.fin = last /\ v.cor = w.cor /\ v.st = [q.st EXCEPT !.utt = 0]
      BY <2>3, <3>2, <3>4 DEF ClearUtterance, Worlds
    <3>6. w.st \in Stream
      BY <1>1 DEF Worlds
    <3>. QED
      BY <3>1, <3>2, <3>3, <3>5, <3>6 DEF Stream
  <2>5. Alike(f, v) /\ f \in Worlds
    BY <1>1, <1>4, <2>4 DEF Alike, Good
  <2>. HIDE DEF f, v
  <2>6. Good(v, s, A, T) /\ OthersKept(f, v, s)
    BY <1>1, <1>4, <2>4, <2>5, AlikeGood
  <2>7. OthersKept(w, v, s)
    BY <1>3, <1>4, <2>6, OthersTransitive
  <2>. QED
    BY <2>6, <2>7 DEF v
<1>. QED
  BY <1>6, <1>7, <1>8

LEMMA FinalizeGood ==
  ASSUME NEW w, NEW s \in Sessions, NEW A, NEW T, Good(w, s, A, T)
  PROVE  /\ Good(FinalizeCandidate(w, s), s, A, T)
         /\ OthersKept(w, FinalizeCandidate(w, s), s)
<1>1. w.st.detector = "candidate" => w.st.utt # 0
  BY DEF Good, Tidy, Ordered
<1>. QED
  BY <1>1, FinishGood, NothingDone DEF FinalizeCandidate

LEMMA PartialGood ==
  ASSUME NEW w, NEW s \in Sessions, NEW A, NEW T, Good(w, s, A, T)
  PROVE  /\ Good(QueuePartial(w, s), s, A, T)
         /\ OthersKept(w, QueuePartial(w, s), s)
<1>. DEFINE u == w.st.utt
            g == w.st.generation + 1
            m == [w EXCEPT !.st.generation = g, !.st.latest[u] = g]
            job == AsrJob(s, u, g, "partial")
            at == {i \in DOMAIN w.par : w.par[i].session = s /\ w.par[i].utt = u}
            x == [m EXCEPT !.par = [i \in DOMAIN @ |-> IF i \in at THEN job ELSE @[i]]]
            y == WorkQueued([m EXCEPT !.par = Append(@, job)])
            v == QueuePartial(w, s)
<1>1. w \in Worlds /\ w.st.state # "stopped"
  BY DEF Good, Unfinished
<1>2. v \in Worlds
  BY <1>1, PartialCounts DEF Counts
<1>3. v = x \/ v = y \/ v = Announce(m, "pipeline.warning")
  <2>1. CASE at # {}
    BY <2>1 DEF QueuePartial
  <2>2. CASE at = {} /\ Len(w.par) >= MaxPartials
    BY <2>2 DEF QueuePartial
  <2>3. CASE at = {} /\ ~(Len(w.par) >= MaxPartials)
    BY <2>3 DEF QueuePartial
  <2>. QED
    BY <2>1, <2>2, <2>3
<1>4. m \in Worlds
  <2>1. g \in Nat
    BY <1>1 DEF Worlds, Stream
  <2>. HIDE DEF g
  <2>. QED
    BY <1>1, <2>1, MarkTyped DEF SameWork
<1>5. /\ m.fin = w.fin /\ m.cor = w.cor
      /\ m.st.utt = w.st.utt /\ m.st.spoken = w.st.spoken
      /\ m.st.detector = w.st.detector /\ m.st.history = w.st.history
      /\ m.st.state = w.st.state
  BY <1>1 DEF Worlds, Stream
<1>. HIDE DEF m, job, at, v
<1>6. /\ v.fin = w.fin /\ v.cor = w.cor
      /\ v.st.utt = w.st.utt /\ v.st.spoken = w.st.spoken
      /\ v.st.detector = w.st.detector /\ v.st.history = w.st.history
      /\ v.st.state = w.st.state
  <2>1. CASE v = x
    BY <1>4, <1>5, <2>1 DEF Worlds
  <2>2. CASE v = y
    BY <1>4, <1>5, <2>2 DEF WorkQueued, Worlds, Stream
  <2>3. CASE v = Announce(m, "pipeline.warning")
    BY <1>4, <1>5, <2>3, AnnounceSame DEF SameWorld
  <2>. QED
    BY <1>3, <2>1, <2>2, <2>3
<1>7. Good(v, s, A, T) /\ OthersKept(w, v, s)
  BY <1>1, <1>2, <1>6, AlikeGood DEF Alike
<1>. QED
  BY <1>7 DEF v

LEMMA EndpointGood ==
  ASSUME NEW w, NEW s \in Sessions, NEW A, NEW T, Good(w, s, A, T)
  PROVE  /\ Good(QueueEndpoint(w, s), s, A, T)
         /\ OthersKept(w, QueueEndpoint(w, s), s)
         /\ w.st.detector # "candidate" => QueueEndpoint(w, s).st.utt = w.st.utt
<1>1. w \in Worlds /\ w.st.state # "stopped"
  BY DEF Good, Unfinished
<1>2. CASE Len(w.end) >= MaxText
  <2>. DEFINE e == Announce(w, "pipeline.warning")
  <2>1. QueueEndpoint(w, s) \in {e, FinalizeCandidate(e, s)}
    BY <1>2 DEF QueueEndpoint, Then
  <2>2. Good(e, s, A, T) /\ OthersKept(w, e, s) /\ e.st = w.st
    BY <1>1, AnnounceGood, AnnounceSame DEF SameWorld
  <2>. HIDE DEF e
  <2>3. w.st.detector # "candidate" => FinalizeCandidate(e, s) = e
    BY <2>2 DEF FinalizeCandidate
  <2>4. Good(FinalizeCandidate(e, s), s, A, T) /\ OthersKept(e, FinalizeCandidate(e, s), s)
    BY <2>2, FinalizeGood
  <2>5. OthersKept(w, FinalizeCandidate(e, s), s)
    BY <2>2, <2>4, OthersTransitive
  <2>. QED
    BY <2>1, <2>2, <2>3, <2>4, <2>5
<1>3. CASE ~(Len(w.end) >= MaxText)
  <2>. DEFINE v == QueueEndpoint(w, s)
  <2>1. v \in Worlds
    BY <1>1, EndpointCounts DEF Counts
  <2>2. /\ v.fin = w.fin /\ v.cor = w.cor
        /\ v.st.utt = w.st.utt /\ v.st.spoken = w.st.spoken
        /\ v.st.detector = w.st.detector /\ v.st.history = w.st.history
        /\ v.st.state = w.st.state
    BY <1>1, <1>3 DEF QueueEndpoint, WorkQueued, Worlds, Stream
  <2>. QED
    BY <1>1, <2>1, <2>2, AlikeGood DEF Alike
<1>. QED
  BY <1>2, <1>3

LEMMA StartGood ==
  ASSUME NEW w, NEW s \in Sessions, NEW A, NEW T, Good(w, s, A, T)
  PROVE  /\ Good(Start(w), s, A, T) /\ OthersKept(w, Start(w), s)
         /\ Start(w).st.utt # 0
<1>. DEFINE v == Start(w)
            F == A \cup Mine(w.fin, s)
            C == T \cup Mine(w.cor, s)
<1>1. w \in Worlds /\ w.st.spoken \in Nat
  BY DEF Good, Worlds, Stream
<1>2. v \in Worlds
  <2>1. Counts(w, Heard(w, s, "start"), s)
    BY <1>1, HeardCounts
  <2>. QED
    BY <2>1 DEF Heard, Counts
<1>3. /\ v.fin = w.fin /\ v.cor = w.cor
      /\ v.st.utt = w.st.spoken + 1 /\ v.st.spoken = w.st.spoken + 1
      /\ v.st.detector = "speech" /\ v.st.history = w.st.history
      /\ v.st.state = w.st.state
  BY <1>1 DEF Start, Worlds, Stream
<1>4. Ordered(w.st, F, C) /\ Unfinished(w.st) /\ Lined(w.fin, s, A) /\ Lined(w.cor, s, T)
  BY DEF Good, Tidy
<1>. HIDE DEF v, F, C
<1>5. Ordered(v.st, F, C)
  <2>1. \A i \in Told(w.st.history) : w.st.history[i].utt \in Nat
    <3>1. w.st.history \in Seq(Event)
      BY <1>1 DEF Worlds, Stream
    <3>2. \A i \in DOMAIN w.st.history : w.st.history[i] \in Event
      BY <3>1, ElementOfSeq, LenProperties
    <3>. QED
      BY <3>2 DEF Event, Told
  <2>2. /\ \A i \in Told(w.st.history) : w.st.history[i].utt < w.st.spoken + 1
        /\ \A i \in Told(w.st.history) : w.st.history[i].utt <= w.st.spoken + 1
        /\ \A x \in F \cup C : x \in 1..(w.st.spoken + 1) /\ x < w.st.spoken + 1
    BY <1>1, <1>4, <2>1 DEF Ordered
  <2>. QED
    BY <1>1, <1>3, <1>4, <2>2 DEF Ordered
<1>6. Tidy(v, s, A, T) /\ Unfinished(v.st)
  BY <1>3, <1>4, <1>5 DEF Tidy, Unfinished, F, C
<1>7. Good(v, s, A, T) /\ OthersKept(w, v, s) /\ v.st.utt # 0
  BY <1>1, <1>2, <1>3, <1>6 DEF Good, OthersKept
<1>. QED
  BY <1>7 DEF v

LEMMA DetectorGood ==
  ASSUME NEW w, NEW s \in Sessions, NEW A, NEW T, Good(w, s, A, T), w.st.utt # 0,
         NEW d \in {"idle", "speech", "candidate"}
  PROVE  /\ Good([w EXCEPT !.st.detector = d], s, A, T)
         /\ OthersKept(w, [w EXCEPT !.st.detector = d], s)
         /\ [w EXCEPT !.st.detector = d].st.utt = w.st.utt
         /\ [w EXCEPT !.st.detector = d].st.detector = d
<1>. DEFINE v == [w EXCEPT !.st.detector = d]
<1>1. w \in Worlds /\ w.st.state # "stopped"
  BY DEF Good, Unfinished
<1>2. /\ v \in Worlds /\ v.fin = w.fin /\ v.cor = w.cor
      /\ v.st.utt = w.st.utt /\ v.st.spoken = w.st.spoken
      /\ v.st.detector = d /\ v.st.history = w.st.history
      /\ v.st.state = w.st.state
  BY <1>1 DEF Worlds, Stream
<1>. HIDE DEF v
<1>3. Alike(w, v)
  BY <1>2 DEF Alike
<1>4. Good(v, s, A, T) /\ OthersKept(w, v, s)
  BY <1>1, <1>2, <1>3, AlikeGood
<1>. QED
  BY <1>2, <1>4 DEF v

LEMMA HeardGood ==
  ASSUME NEW w, NEW s \in Sessions, NEW A, NEW T, Good(w, s, A, T),
         NEW outcome \in Outcomes(w.st)
  PROVE  Good(Heard(w, s, outcome), s, A, T) /\ OthersKept(w, Heard(w, s, outcome), s)
<1>1. CASE w.st.detector = "idle"
  <2>1. outcome \in {"start", "start_final"}
    BY <1>1 DEF Outcomes
  <2>2. Good(Start(w), s, A, T) /\ OthersKept(w, Start(w), s) /\ Start(w).st.utt # 0
    BY StartGood
  <2>3. /\ Good(Finish(Start(w), s), s, A, T)
        /\ OthersKept(Start(w), Finish(Start(w), s), s)
    BY <2>2, FinishGood
  <2>4. OthersKept(w, Finish(Start(w), s), s)
    BY <2>2, <2>3, OthersTransitive
  <2>. QED
    BY <2>1, <2>2, <2>3, <2>4 DEF Heard
<1>2. CASE w.st.detector # "idle"
  <2>1. outcome \in {"none", "final", "cancel", "candidate", "candidate_final"}
    BY <1>2 DEF Outcomes
  <2>2. w.st.utt # 0
    BY <1>2 DEF Good, Tidy, Ordered
  <2>3. CASE outcome = "none"
    BY <2>3, NothingDone DEF Heard
  <2>4. CASE outcome = "final"
    BY <2>2, <2>4, FinishGood DEF Heard
  <2>5. CASE outcome = "cancel"
    BY <2>2, <2>5, DetectorGood DEF Heard
  <2>6. CASE outcome = "candidate"
    <3>. DEFINE x == [w EXCEPT !.st.detector = "candidate"]
    <3>1. Good(x, s, A, T) /\ OthersKept(w, x, s)
      BY <2>2, DetectorGood
    <3>. HIDE DEF x
    <3>2. Good(QueueEndpoint(x, s), s, A, T) /\ OthersKept(x, QueueEndpoint(x, s), s)
      BY <3>1, EndpointGood
    <3>3. OthersKept(w, QueueEndpoint(x, s), s)
      BY <3>1, <3>2, OthersTransitive
    <3>4. Heard(w, s, outcome) = QueueEndpoint(x, s)
      BY <2>6 DEF Heard, x
    <3>. QED
      BY <3>2, <3>3, <3>4
  <2>7. CASE outcome = "candidate_final"
    <3>. DEFINE x == [w EXCEPT !.st.detector = "idle"]
                q == QueueEndpoint(x, s)
    <3>1. /\ Good(x, s, A, T) /\ OthersKept(w, x, s)
          /\ x.st.utt # 0 /\ x.st.detector = "idle"
      BY <2>2, DetectorGood
    <3>. HIDE DEF x
    <3>2. Good(q, s, A, T) /\ OthersKept(x, q, s) /\ q.st.utt # 0
      BY <3>1, EndpointGood
    <3>. HIDE DEF q
    <3>3. Good(Finish(q, s), s, A, T) /\ OthersKept(q, Finish(q, s), s)
      BY <3>2, FinishGood
    <3>4. OthersKept(w, Finish(q, s), s)
      BY <3>1, <3>2, <3>3, OthersTransitive
    <3>5. Heard(w, s, outcome) = Finish(q, s)
      BY <2>7 DEF Heard, q, x
    <3>. QED
      BY <3>3, <3>4, <3>5
  <2>. QED
    BY <2>1, <2>3, <2>4, <2>5, <2>6, <2>7
<1>. QED
  BY <1>1, <1>2

LEMMA HandledGood ==
  ASSUME NEW w, NEW s \in Sessions, NEW A, NEW T, Good(w, s, A, T),
         NEW what \in {"nothing", "handler", "stop"}
  PROVE  Good(Handled(w, what), s, A, T) /\ OthersKept(w, Handled(w, what), s)
<1>1. w \in Worlds /\ w.st.state # "stopped"
  BY DEF Good, Unfinished
<1>2. CASE Handled(w, what) = w
  BY <1>2, NothingDone
<1>3. CASE Handled(w, what) = [w EXCEPT !.st.raised = what]
  <2>1. Alike(w, [w EXCEPT !.st.raised = what])
        /\ [w EXCEPT !.st.raised = what].st.state = w.st.state
    BY <1>1 DEF Alike, Worlds, Stream
  <2>. QED
    BY <1>1, <1>3, <2>1, AlikeGood
<1>. QED
  BY <1>2, <1>3 DEF Handled

LEMMA BeginStopGood ==
  ASSUME NEW w, NEW s \in Sessions, NEW A, NEW T, Good(w, s, A, T)
  PROVE  Good(BeginStop(w, s), s, A, T) /\ OthersKept(w, BeginStop(w, s), s)
<1>. DEFINE v == [w EXCEPT !.st.stopping = TRUE]
            x == [w EXCEPT !.st.stopping = TRUE, !.st.detector = "idle", !.st.utt = 0]
            u == w.st.utt
            q == QueueFinal(x, s, u)
<1>1. w \in Worlds /\ w.st.state # "stopped"
  BY DEF Good, Unfinished
<1>2. CASE u = 0
  <2>1. BeginStop(w, s) = v
    BY <1>2 DEF BeginStop
  <2>2. Alike(w, v) /\ v.st.state = w.st.state
    BY <1>1 DEF Alike, Worlds, Stream
  <2>. HIDE DEF v
  <2>. QED
    BY <1>1, <2>1, <2>2, AlikeGood
<1>3. CASE u # 0
  <2>1. BeginStop(w, s) = Handled(q, "stop")
    BY <1>3 DEF BeginStop
  <2>2. /\ Alike(w, x) /\ x.st.state = w.st.state /\ x.st.utt = 0
        /\ x.fin = w.fin /\ x.cor = w.cor /\ x.st.spoken = w.st.spoken
        /\ x.st.history = w.st.history
    BY <1>1 DEF Alike, Worlds, Stream
  <2>. HIDE DEF x
  <2>3. Good(x, s, A, T) /\ OthersKept(w, x, s)
    BY <1>1, <2>2, AlikeGood
  <2>4. Good(q, s, A, T) /\ OthersKept(x, q, s)
    <3>1. /\ u \in 1..x.st.spoken
          /\ \A y \in A \cup Mine(x.fin, s) : y < u
          /\ \A y \in T \cup Mine(x.cor, s) : y < u
          /\ \A i \in Told(x.st.history) : x.st.history[i].utt < u
      BY <1>3, <2>2, HeardLast
    <3>. HIDE DEF u
    <3>. QED
      BY <2>2, <2>3, <3>1, FinalGood
  <2>. HIDE DEF q
  <2>5. Good(Handled(q, "stop"), s, A, T) /\ OthersKept(q, Handled(q, "stop"), s)
    BY <2>4, HandledGood
  <2>6. OthersKept(w, Handled(q, "stop"), s)
    BY <2>3, <2>4, <2>5, OthersTransitive
  <2>. QED
    BY <2>1, <2>5, <2>6
<1>. QED
  BY <1>2, <1>3

-----------------------------------------------------------------------------
(* Events *)

(* A late partial, or an event about an utterance that is over and was not   *)
(* completed before.                                                         *)
Timely(w, s, A, T, type, u) ==
  /\ type # "asr.partial" =>
       /\ u \in 1..w.st.spoken
       /\ \A f \in A \cup Mine(w.fin, s) : u < f
       /\ w.st.utt # 0 => u < w.st.utt
       /\ \A i \in Told(w.st.history) :
            /\ w.st.history[i].type = "utterance.completed" => w.st.history[i].utt # u
            /\ type = "asr.final" => w.st.history[i].utt < u
  /\ type = "utterance.completed" => u \notin T \cup Mine(w.cor, s)

Appended(w, type, u) ==
  [w EXCEPT !.st.history = Append(@, [type |-> type, utt |-> u])]

LEMMA AppendedGood ==
  ASSUME NEW w, NEW s \in Sessions, NEW A, NEW T, Good(w, s, A, T), NEW u \in Nat,
         NEW type \in {"asr.partial", "asr.final", "utterance.completed"},
         Timely(w, s, A, T, type, u)
  PROVE  /\ Good(Appended(w, type, u), s, A, T)
         /\ OthersKept(w, Appended(w, type, u), s)
<1>. DEFINE v == Appended(w, type, u)
            e == [type |-> type, utt |-> u]
            h == w.st.history
            n == Len(h) + 1
            F == A \cup Mine(w.fin, s)
            C == T \cup Mine(w.cor, s)
<1>1. w \in Worlds /\ w.st.spoken \in Nat /\ h \in Seq(Event) /\ e \in Event
  BY DEF Good, Worlds, Stream, Event
<1>. DEFINE hist == Append(h, e)
<1>2. hist \in Seq(Event) /\ v = [w EXCEPT !.st.history = hist]
  BY <1>1, AppendProperties DEF Appended
<1>7. e.type = type /\ e.utt = u
  OBVIOUS
<1>. HIDE DEF hist, v
<1>3. /\ v \in Worlds /\ v.fin = w.fin /\ v.cor = w.cor
      /\ v.st.utt = w.st.utt /\ v.st.spoken = w.st.spoken
      /\ v.st.detector = w.st.detector /\ v.st.state = w.st.state
      /\ v.st.history = hist
  BY <1>1, <1>2 DEF Worlds, Stream
<1>4. /\ Ordered(w.st, F, C) /\ Unfinished(w.st)
      /\ Lined(w.fin, s, A) /\ Lined(w.cor, s, T)
  BY DEF Good, Tidy
<1>5. /\ DOMAIN h = 1..Len(h) /\ Len(h) \in Nat /\ DOMAIN v.st.history = 1..n
      /\ \A i \in 1..Len(h) : v.st.history[i] = h[i]
      /\ v.st.history[n] = e
  BY <1>1, <1>3, LenProperties, AppendProperties DEF hist
<1>. HIDE DEF F, C, e
<1>6. \A i \in 1..n : \/ i \in DOMAIN h /\ v.st.history[i] = h[i]
                      \/ i = n /\ v.st.history[i] = e
  <2>. TAKE i \in 1..n
  <2>1. i \in 1..Len(h) \/ i = n
    BY <1>5
  <2>. QED
    BY <1>5, <2>1
<1>8. HistoryInOrder(v.st.history)
  <2>. SUFFICES ASSUME NEW i \in 1..n, NEW j \in 1..n, i < j
                PROVE  /\ v.st.history[i].type = "asr.final" /\ v.st.history[j].type = "asr.final"
                            => v.st.history[i].utt < v.st.history[j].utt
                       /\ v.st.history[i].type = "utterance.completed"
                              /\ v.st.history[j].type # "asr.partial"
                            => v.st.history[i].utt # v.st.history[j].utt
                       /\ v.st.history[i].type # "stream.stopped"
    BY <1>5 DEF HistoryInOrder
  <2>1. i \in DOMAIN h /\ v.st.history[i] = h[i]
    BY <1>5
  <2>2. CASE j \in DOMAIN h
    BY <1>4, <1>5, <2>1, <2>2 DEF Ordered, HistoryInOrder
  <2>3. CASE j = n
    <3>1. v.st.history[j].type = type /\ v.st.history[j].utt = u
      BY <1>5, <1>7, <2>3
    <3>2. v.st.history[i].type # "stream.stopped"
      BY <1>4, <2>1 DEF Unfinished
    <3>3. h[i].type # "asr.partial" => i \in Told(h)
      BY <2>1 DEF Told
    <3>. QED
      BY <2>1, <3>1, <3>2, <3>3 DEF Timely
  <2>. QED
    BY <1>5, <2>2, <2>3
<1>9. Ordered(v.st, F, C)
  <2>1. \A i \in Told(v.st.history) :
          /\ v.st.history[i].utt <= v.st.spoken
          /\ \A f \in F : v.st.history[i].utt < f
          /\ v.st.utt # 0 => v.st.history[i].utt < v.st.utt
          /\ v.st.history[i].type = "utterance.completed" => v.st.history[i].utt \notin C \cup {0}
    <3>. TAKE i \in Told(v.st.history)
    <3>1. i \in 1..n /\ v.st.history[i].type # "asr.partial"
      BY <1>5 DEF Told
    <3>2. CASE i \in DOMAIN h /\ v.st.history[i] = h[i]
      <4>1. i \in Told(h)
        BY <3>1, <3>2 DEF Told
      <4>. QED
        BY <1>3, <1>4, <3>2, <4>1 DEF Ordered
    <3>3. CASE i = n /\ v.st.history[i] = e
      <4>1. /\ v.st.history[i].type = type /\ v.st.history[i].utt = u
            /\ type # "asr.partial"
        BY <1>7, <3>1, <3>3
      <4>2. u <= v.st.spoken
        BY <1>1, <1>3, <4>1 DEF Timely
      <4>. QED
        BY <1>3, <4>1, <4>2 DEF F, C, Timely
    <3>. QED
      BY <1>6, <3>1, <3>2, <3>3
  <2>. QED
    BY <1>3, <1>4, <1>8, <2>1 DEF Ordered
<1>10. Unfinished(v.st)
  <2>1. \A i \in DOMAIN v.st.history : v.st.history[i].type # "stream.stopped"
    BY <1>4, <1>5, <1>6, <1>7 DEF Unfinished
  <2>. QED
    BY <1>3, <1>4, <2>1 DEF Unfinished
<1>11. Tidy(v, s, A, T)
  BY <1>3, <1>4, <1>9 DEF Tidy, F, C
<1>. QED
  BY <1>3, <1>10, <1>11 DEF Good, OthersKept, v

LEMMA EmitGood ==
  ASSUME NEW w, NEW s \in Sessions, NEW A, NEW T, Good(w, s, A, T), NEW u \in Nat,
         NEW type \in {"asr.partial", "asr.final", "utterance.completed"},
         Timely(w, s, A, T, type, u)
  PROVE  /\ Good(Emit(w, type, u), s, A, T)
         /\ OthersKept(w, Emit(w, type, u), s)
<1>. DEFINE v == Appended(w, type, u)
<1>1. Good(v, s, A, T) /\ OthersKept(w, v, s)
  BY AppendedGood
<1>2. Emit(w, type, u) \in {w, Announce(v, type)}
  BY DEF Emit, Then, Appended
<1>. HIDE DEF v
<1>3. Good(Announce(v, type), s, A, T) /\ OthersKept(w, Announce(v, type), s)
  BY <1>1, AnnounceGood, OthersTransitive
<1>. QED
  BY <1>2, <1>3, NothingDone

LEMMA GoodFewer ==
  ASSUME NEW w, NEW s, NEW A, NEW T, Good(w, s, A, T),
         NEW A2 \in SUBSET A, NEW T2 \in SUBSET T
  PROVE  Good(w, s, A2, T2)
<1>1. Lined(w.fin, s, A2) /\ Lined(w.cor, s, T2)
  BY DEF Good, Tidy, Lined
<1>2. Ordered(w.st, A2 \cup Mine(w.fin, s), T2 \cup Mine(w.cor, s))
  <2>1. /\ A2 \cup Mine(w.fin, s) \in SUBSET (A \cup Mine(w.fin, s))
        /\ T2 \cup Mine(w.cor, s) \in SUBSET (T \cup Mine(w.cor, s))
    OBVIOUS
  <2>. QED
    BY <2>1, OrderedFewer DEF Good, Tidy
<1>. QED
  BY <1>1, <1>2 DEF Good, Tidy

LEMMA CompleteGood ==
  ASSUME NEW w, NEW s \in Sessions, NEW A, NEW T, Good(w, s, A, T),
         NEW u \in 1..w.st.spoken,
         \A f \in A \cup Mine(w.fin, s) : u < f,
         w.st.utt # 0 => u < w.st.utt,
         \A i \in Told(w.st.history) :
           w.st.history[i].type = "utterance.completed" => w.st.history[i].utt # u,
         u \notin T \cup Mine(w.cor, s)
  PROVE  Good(Complete(w, u), s, A, T) /\ OthersKept(w, Complete(w, u), s)
<1>. DEFINE e == Emit(w, "utterance.completed", u)
            x == [e EXCEPT !.st.state = "listening"]
<1>1. u \in Nat /\ w.st.spoken \in Nat
  BY DEF Good, Worlds, Stream
<1>2. Good(e, s, A, T) /\ OthersKept(w, e, s)
  BY <1>1, EmitGood DEF Timely
<1>3. Complete(w, u) = e \/ Complete(w, u) = x
  BY DEF Complete
<1>. HIDE DEF e
<1>4. e \in Worlds /\ e.st.state # "stopped"
  BY <1>2 DEF Good, Unfinished
<1>5. Alike(e, x) /\ x.st.state # "stopped"
  BY <1>4 DEF Alike, Worlds, Stream
<1>. HIDE DEF x
<1>6. Good(x, s, A, T) /\ OthersKept(e, x, s)
  BY <1>2, <1>4, <1>5, AlikeGood
<1>7. OthersKept(w, x, s)
  BY <1>2, <1>6, OthersTransitive
<1>. QED
  BY <1>2, <1>3, <1>6, <1>7

LEMMA GiveUpGood ==
  ASSUME NEW w, NEW s \in Sessions, NEW A, NEW T, Good(w, s, A, T),
         NEW u \in 1..w.st.spoken,
         \A f \in A \cup Mine(w.fin, s) : u < f,
         w.st.utt # 0 => u < w.st.utt,
         \A i \in Told(w.st.history) :
           w.st.history[i].type = "utterance.completed" => w.st.history[i].utt # u,
         u \notin T \cup Mine(w.cor, s)
  PROVE  Good(GiveUp(w, u), s, A, T) /\ OthersKept(w, GiveUp(w, u), s)
<1>. DEFINE e == Announce(w, "pipeline.warning")
<1>1. Good(e, s, A, T) /\ OthersKept(w, e, s)
  BY AnnounceGood
<1>2. e.st = w.st /\ e.fin = w.fin /\ e.cor = w.cor
  BY AnnounceSame DEF SameWorld, Good
<1>3. GiveUp(w, u) \in {e, Complete(e, u)}
  BY DEF GiveUp, Then
<1>. HIDE DEF e
<1>4. Good(Complete(e, u), s, A, T) /\ OthersKept(e, Complete(e, u), s)
  BY <1>1, <1>2, CompleteGood
<1>5. OthersKept(w, Complete(e, u), s)
  BY <1>1, <1>4, OthersTransitive
<1>. QED
  BY <1>1, <1>3, <1>4, <1>5

LEMMA CorrectionGood ==
  ASSUME NEW w, NEW s \in Sessions, NEW A, NEW T, Good(w, s, A, T),
         NEW u \in 1..w.st.spoken,
         \A f \in A \cup Mine(w.fin, s) : u < f,
         w.st.utt # 0 => u < w.st.utt,
         \A i \in Told(w.st.history) :
           w.st.history[i].type = "utterance.completed" => w.st.history[i].utt # u,
         \A c \in T \cup Mine(w.cor, s) : c < u
  PROVE  Good(QueueCorrection(w, s, u), s, A, T) /\ OthersKept(w, QueueCorrection(w, s, u), s)
<1>1. w \in Worlds /\ u \in Nat /\ w.st.spoken \in Nat
  BY DEF Good, Worlds, Stream
<1>. DEFINE F == A \cup Mine(w.fin, s)
            C == T \cup Mine(w.cor, s)
<1>2. /\ Ordered(w.st, F, C) /\ Unfinished(w.st)
      /\ Lined(w.fin, s, A) /\ Lined(w.cor, s, T)
  BY DEF Good, Tidy
<1>3. u \notin C
  BY <1>1
<1>4. CASE Len(w.cor) >= MaxText
  <2>. DEFINE e == Announce(w, "pipeline.warning")
  <2>1. QueueCorrection(w, s, u) \in {w, Complete(e, u)}
    BY <1>4 DEF QueueCorrection, Then
  <2>2. Good(e, s, A, T) /\ OthersKept(w, e, s)
    BY AnnounceGood
  <2>3. e.st = w.st /\ e.fin = w.fin /\ e.cor = w.cor
    BY <1>1, AnnounceSame DEF SameWorld
  <2>. HIDE DEF e
  <2>4. Good(Complete(e, u), s, A, T) /\ OthersKept(e, Complete(e, u), s)
    BY <1>3, <2>2, <2>3, CompleteGood
  <2>5. OthersKept(w, Complete(e, u), s)
    BY <2>2, <2>4, OthersTransitive
  <2>. QED
    BY <2>1, <2>4, <2>5, NothingDone
<1>5. CASE ~(Len(w.cor) >= MaxText) /\ w.raises
  <2>1. QueueCorrection(w, s, u) = w
    BY <1>5 DEF QueueCorrection, Then
  <2>. QED
    BY <2>1, NothingDone
<1>6. CASE ~(Len(w.cor) >= MaxText) /\ ~w.raises
  <2>. DEFINE v == QueueCorrection(w, s, u)
              n == Len(w.st.rows)
              previous == IF n > 1 THEN w.st.rows[n - 1].text ELSE "none"
              job == TextJob(s, u, "correction", TRUE, previous)
              J == Question("correction") \cup {job}
  <2>1. v \in Worlds
    BY <1>1, CorrectionCounts DEF Counts
  <2>2. /\ v.fin = w.fin /\ v.cor = Append(w.cor, job)
        /\ v.st.utt = w.st.utt /\ v.st.spoken = w.st.spoken
        /\ v.st.detector = w.st.detector /\ v.st.history = w.st.history
        /\ v.st.state = w.st.state
    BY <1>1, <1>6 DEF QueueCorrection, Then, WorkQueued, Worlds, Stream
  <2>3. job.session = s /\ job.utt = u
    BY DEF TextJob
  <2>. HIDE DEF v, job, F, C
  <2>4. w.cor \in Seq(J) /\ job \in J
    <3>1. w.cor \in Seq(Question("correction"))
      BY <1>1, QueuesTyped
    <3>. QED
      BY <3>1, SeqMonotonic
  <2>5. Lined(v.cor, s, T)
    BY <1>2, <2>2, <2>3, <2>4, LinedAppend
  <2>6. Mine(v.cor, s) = Mine(w.cor, s) \cup {u}
    BY <2>2, <2>3, <2>4, MineAppend
  <2>7. Ordered(v.st, F, C \cup {u})
    <3>1. \A f \in F : u < f
      BY DEF F
    <3>. QED
      BY <1>1, <1>2, <2>2, <3>1 DEF Ordered
  <2>8. Tidy(v, s, A, T)
    <3>1. T \cup Mine(v.cor, s) = C \cup {u}
      BY <2>6 DEF C
    <3>. QED
      BY <1>2, <2>2, <2>5, <2>7, <3>1 DEF Tidy, F
  <2>9. Unfinished(v.st)
    BY <1>2, <2>2 DEF Unfinished
  <2>10. ASSUME NEW t \in Sessions, t # s
         PROVE  Mine(v.cor, t) = Mine(w.cor, t) /\ (InOrder(w.cor, t) => InOrder(v.cor, t))
    <3>1. Mine(v.cor, t) = Mine(w.cor, t)
      <4>1. Mine(Append(w.cor, job), t)
              = Mine(w.cor, t) \cup (IF job.session = t THEN {job.utt} ELSE {})
        BY <2>4, MineAppend
      <4>. QED
        BY <2>2, <2>3, <2>10, <4>1
    <3>2. InOrder(w.cor, t) => Lined(w.cor, t, {})
      BY DEF Lined
    <3>3. Lined(w.cor, t, {}) => Lined(v.cor, t, {})
      BY <2>2, <2>3, <2>4, <2>10, LinedAppend
    <3>. QED
      BY <3>1, <3>2, <3>3 DEF Lined
  <2>11. OthersKept(w, v, s)
    BY <2>2, <2>10 DEF OthersKept
  <2>12. Good(v, s, A, T)
    BY <2>1, <2>8, <2>9 DEF Good
  <2>. QED
    BY <2>11, <2>12 DEF v
<1>. QED
  BY <1>4, <1>5, <1>6

(* The final in hand is answered: by a transcript, or given up. *)
LEMMA FinalAnswerGood ==
  ASSUME NEW w, NEW s \in Sessions, NEW T, NEW job \in Job("final"), job.session = s,
         Good(w, s, {job.utt}, T)
  PROVE  /\ Good(AcceptFinal(w, job), s, {}, T) /\ OthersKept(w, AcceptFinal(w, job), s)
         /\ Good(GiveUp(w, job.utt), s, {}, T) /\ OthersKept(w, GiveUp(w, job.utt), s)
<1>. DEFINE u == job.utt
<1>1. w \in Worlds /\ u \in Nat /\ w.st.utt \in Nat /\ w.st.spoken \in Nat
  BY DEF Good, Worlds, Stream, Job
<1>2. /\ u \in 1..w.st.spoken
      /\ \A c \in T \cup Mine(w.cor, s) : c < u
      /\ \A i \in Told(w.st.history) : w.st.history[i].utt < u
      /\ w.st.utt # 0 => u < w.st.utt
      /\ \A f \in {} \cup Mine(w.fin, s) : u < f
  <2>1. u \in {u} \cup Mine(w.fin, s)
    OBVIOUS
  <2>. HIDE DEF u
  <2>2. /\ Ordered(w.st, {u} \cup Mine(w.fin, s), T \cup Mine(w.cor, s))
        /\ Lined(w.fin, s, {u})
    BY DEF Good, Tidy, u
  <2>. QED
    BY <2>1, <2>2 DEF Ordered, Lined
<1>3. Good(w, s, {}, T)
  BY GoodFewer
<1>4. \A i \in Told(w.st.history) : w.st.history[i].utt # u
  <2>1. w.st.history \in Seq(Event)
    BY <1>1 DEF Worlds, Stream
  <2>2. \A i \in Told(w.st.history) : w.st.history[i].utt \in Nat
    <3>1. \A i \in DOMAIN w.st.history : w.st.history[i] \in Event
      BY <2>1, LenProperties, ElementOfSeq
    <3>. QED
      BY <3>1 DEF Told, Event
  <2>. QED
    BY <1>1, <1>2, <2>2
<1>5. u \notin T \cup Mine(w.cor, s)
  BY <1>1, <1>2
<1>. HIDE DEF u
<1>6. Good(GiveUp(w, u), s, {}, T) /\ OthersKept(w, GiveUp(w, u), s)
  BY <1>2, <1>3, <1>4, <1>5, GiveUpGood
<1>7. CASE ~Accepts(w.st.rows, u)
  <2>. DEFINE x == [w EXCEPT !.raises = TRUE]
  <2>1. Alike(w, x) /\ x.st.state = w.st.state
    BY <1>1 DEF Alike, Worlds
  <2>2. AcceptFinal(w, job) = x
    BY <1>7 DEF AcceptFinal, u
  <2>. HIDE DEF x
  <2>. QED
    BY <1>1, <1>3, <1>6, <2>1, <2>2, AlikeGood DEF Good, Unfinished, u
<1>8. CASE Accepts(w.st.rows, u)
  <2>. DEFINE rows == Accept(w.st.rows, u, "final", TRUE)
              x == [w EXCEPT !.st.rows = Accept(@, u, "final", TRUE)]
              v == Appended(x, "asr.final", u)
              e == Emit(x, "asr.final", u)
  <2>1. rows \in Seq(Rows) /\ x = [w EXCEPT !.st.rows = rows]
    BY <1>1, AcceptTyped DEF Text, Worlds, Stream
  <2>. HIDE DEF rows
  <2>2. x \in Worlds
    BY <1>1, <2>1, RowsSame DEF SameWork
  <2>3. Alike(w, x) /\ x.st.state = w.st.state /\ x.st.utt = w.st.utt
    BY <1>1, <2>1, <2>2 DEF Alike, Worlds, Stream
  <2>10. AcceptFinal(w, job) = QueueCorrection(e, s, u)
    BY <1>8 DEF AcceptFinal, e, x, u
  <2>12. e \in {x, Announce(v, "asr.final")}
    BY DEF Emit, Then, Appended
  <2>. HIDE DEF x, e
  <2>4. Good(x, s, {}, T) /\ OthersKept(w, x, s)
    BY <1>1, <1>3, <2>3, AlikeGood DEF Good, Unfinished
  <2>5. /\ x.fin = w.fin /\ x.cor = w.cor /\ x.st.spoken = w.st.spoken
        /\ x.st.utt = w.st.utt /\ x.st.history = w.st.history
    BY <2>3 DEF Alike
  <2>6. Good(v, s, {}, T) /\ OthersKept(x, v, s)
    <3>1. Timely(x, s, {}, T, "asr.final", u)
      BY <1>2, <1>4, <2>5 DEF Timely
    <3>. QED
      BY <1>1, <2>4, <3>1, AppendedGood
  <2>7. /\ v.fin = w.fin /\ v.cor = w.cor /\ v.st.spoken = w.st.spoken
        /\ v.st.utt = w.st.utt
        /\ v.st.history = Append(w.st.history, [type |-> "asr.final", utt |-> u])
    BY <2>2, <2>5 DEF Appended, Worlds, Stream
  <2>. HIDE DEF v
  <2>8. \A i \in Told(v.st.history) :
          v.st.history[i].type = "utterance.completed" => v.st.history[i].utt # u
    <3>. TAKE i \in Told(v.st.history)
    <3>1. w.st.history \in Seq(Event) /\ [type |-> "asr.final", utt |-> u] \in Event
      BY <1>1 DEF Worlds, Stream, Event
    <3>2. \/ i \in DOMAIN w.st.history /\ v.st.history[i] = w.st.history[i]
          \/ v.st.history[i] = [type |-> "asr.final", utt |-> u]
      BY <2>7, <3>1, LenProperties, AppendProperties DEF Told
    <3>. QED
      BY <1>4, <3>2 DEF Told
  <2>13. SameWorld(v, Announce(v, "asr.final"))
    BY <2>6, AnnounceSame DEF Good
  <2>14. Good(e, s, {}, T) /\ OthersKept(w, e, s)
    <3>1. Good(Announce(v, "asr.final"), s, {}, T)
          /\ OthersKept(v, Announce(v, "asr.final"), s)
      BY <2>6, AnnounceGood
    <3>2. OthersKept(w, Announce(v, "asr.final"), s)
      BY <2>4, <2>6, <3>1, OthersTransitive
    <3>. QED
      BY <2>4, <2>12, <3>1, <3>2
  <2>15. /\ e.fin = w.fin /\ e.cor = w.cor /\ e.st.spoken = w.st.spoken
         /\ e.st.utt = w.st.utt
         /\ \A i \in Told(e.st.history) :
              e.st.history[i].type = "utterance.completed" => e.st.history[i].utt # u
    <3>1. CASE e = x
      BY <1>4, <2>5, <3>1
    <3>2. CASE e = Announce(v, "asr.final")
      BY <2>7, <2>8, <2>13, <3>2 DEF SameWorld
    <3>. QED
      BY <2>12, <3>1, <3>2
  <2>9. Good(QueueCorrection(e, s, u), s, {}, T) /\ OthersKept(e, QueueCorrection(e, s, u), s)
    BY <1>2, <2>14, <2>15, CorrectionGood
  <2>11. OthersKept(w, QueueCorrection(e, s, u), s)
    BY <2>9, <2>14, OthersTransitive
  <2>. QED
    BY <1>6, <2>9, <2>10, <2>11 DEF u
<1>. QED
  BY <1>7, <1>8

(* The correction in hand is answered. *)
LEMMA CorrectionAnswerGood ==
  ASSUME NEW w, NEW s \in Sessions, NEW A, NEW job \in Question("correction"),
         Good(w, s, A, {job.utt}), NEW p \in Text, NEW c \in Text
  PROVE  /\ Good(Corrected(w, job, p, c), s, A, {}) /\ OthersKept(w, Corrected(w, job, p, c), s)
         /\ Good(GiveUp(w, job.utt), s, A, {}) /\ OthersKept(w, GiveUp(w, job.utt), s)
<1>. DEFINE u == job.utt
<1>1. w \in Worlds /\ u \in Nat
  BY DEF Good, Question
<1>2. /\ u \in 1..w.st.spoken
      /\ \A f \in A \cup Mine(w.fin, s) : u < f
      /\ \A i \in Told(w.st.history) :
           w.st.history[i].type = "utterance.completed" => w.st.history[i].utt # u
      /\ w.st.utt # 0 => u < w.st.utt
      /\ \A d \in Mine(w.cor, s) : u < d
  <2>1. u \in {u} \cup Mine(w.cor, s)
    OBVIOUS
  <2>. HIDE DEF u
  <2>2. /\ Ordered(w.st, A \cup Mine(w.fin, s), {u} \cup Mine(w.cor, s))
        /\ Lined(w.cor, s, {u})
    BY DEF Good, Tidy, u
  <2>. QED
    BY <2>1, <2>2 DEF Ordered, Lined
<1>3. Good(w, s, A, {})
  BY GoodFewer
<1>4. u \notin {} \cup Mine(w.cor, s)
  BY <1>1, <1>2
<1>. HIDE DEF u
<1>5. Good(GiveUp(w, u), s, A, {}) /\ OthersKept(w, GiveUp(w, u), s)
  BY <1>2, <1>3, <1>4, GiveUpGood
<1>6. CASE Revises(w.st.rows, u)
  <2>. DEFINE rows == Revise(w.st.rows, p, c)
              x == [w EXCEPT !.st.rows = Revise(@, p, c)]
              e == Announce(x, "transcript.revised")
  <2>1. rows \in Seq(Rows) /\ x = [w EXCEPT !.st.rows = rows]
    BY <1>1, ReviseTyped DEF Worlds, Stream
  <2>2. Corrected(w, job, p, c) \in {e, Complete(e, u)}
    BY <1>6 DEF Corrected, Then, u
  <2>. HIDE DEF rows
  <2>3. x \in Worlds
    BY <1>1, <2>1, RowsSame DEF SameWork
  <2>4. Alike(w, x) /\ x.st.state = w.st.state /\ x.st.utt = w.st.utt
    BY <1>1, <2>1, <2>3 DEF Alike, Worlds, Stream
  <2>. HIDE DEF x
  <2>5. Good(x, s, A, {}) /\ OthersKept(w, x, s)
    BY <1>1, <1>3, <2>4, AlikeGood DEF Good, Unfinished
  <2>6. Good(e, s, A, {}) /\ OthersKept(x, e, s)
    BY <2>5, AnnounceGood
  <2>7. /\ e.fin = w.fin /\ e.cor = w.cor /\ e.st.spoken = w.st.spoken
        /\ e.st.utt = w.st.utt /\ e.st.history = w.st.history
    BY <2>3, <2>4, AnnounceSame DEF SameWorld, Alike
  <2>. HIDE DEF e
  <2>8. Good(Complete(e, u), s, A, {}) /\ OthersKept(e, Complete(e, u), s)
    BY <1>2, <1>4, <2>6, <2>7, CompleteGood
  <2>9. OthersKept(w, e, s) /\ OthersKept(w, Complete(e, u), s)
    BY <2>5, <2>6, <2>8, OthersTransitive
  <2>. QED
    BY <1>5, <2>2, <2>6, <2>8, <2>9 DEF u
<1>7. CASE ~Revises(w.st.rows, u)
  <2>1. Corrected(w, job, p, c) = w
    BY <1>7 DEF Corrected, u
  <2>. QED
    BY <1>3, <1>5, <2>1, NothingDone DEF u
<1>. QED
  BY <1>6, <1>7

(* The text worker's answers to the question in hand. *)
LEMMA TextAnswersGood ==
  ASSUME NEW w, NEW s \in Sessions, NEW A, NEW T, Good(w, s, A, T), NEW job,
         job.session = s,
         job \in Question("endpoint")
           \/ (job \in Question("correction") /\ T = {job.utt}),
         NEW v \in TextAnswers(w, job)
  PROVE  Good(v, s, A, {}) /\ OthersKept(w, v, s)
<1>1. Good(w, s, A, {}) /\ OthersKept(w, w, s)
  <2>1. A \in SUBSET A /\ {} \in SUBSET T
    OBVIOUS
  <2>. QED
    BY <2>1, GoodFewer, NothingDone
<1>2. CASE job \in Question("endpoint")
  <2>1. v \in {w, FinalizeCandidate(w, s)}
    BY <1>2 DEF TextAnswers, Question
  <2>. QED
    BY <1>1, <2>1, FinalizeGood
<1>3. CASE job \in Question("correction") /\ T = {job.utt}
  <2>1. job.mode = "correction" /\ job.previous \in Text
    BY <1>3 DEF Question
  <2>2. CASE v = GiveUp(w, job.utt)
    <3>1. "none" \in Text
      BY DEF Text
    <3>. QED
      BY <1>3, <2>2, <3>1, CorrectionAnswerGood
  <2>3. ASSUME NEW p \in {job.previous, "revised"}, NEW c \in {"final", "revised"},
               v = Corrected(w, job, p, c)
        PROVE  Good(v, s, A, {}) /\ OthersKept(w, v, s)
    <3>1. p \in Text /\ c \in Text
      BY <2>1 DEF Text
    <3>. QED
      BY <1>3, <2>3, <3>1, CorrectionAnswerGood
  <2>. QED
    BY <2>1, <2>2, <2>3 DEF TextAnswers
<1>. QED
  BY <1>2, <1>3

-----------------------------------------------------------------------------
(* The order is kept by every step. *)

LEMMA UnfinishedStream ==
  ASSUME PipelineType, OrderInv, NEW s \in Sessions, streams[s].state # "stopped"
  PROVE  Good(World(s), s, FinalInHand(s), CorrectionInHand(s))
<1>1. World(s) \in Worlds /\ World(s).st = streams[s]
  BY WorldTyped DEF World
<1>2. Tidy(World(s), s, FinalInHand(s), CorrectionInHand(s)) /\ Ends(streams[s])
  BY DEF OrderInv
<1>. QED
  BY <1>1, <1>2 DEF Good, Unfinished, Ends

(* A stream whose job is running is not stopped: wait_idle waits for it. *)
LEMMA RunningStream ==
  ASSUME WorkInv, OrderInv, NEW s \in Sessions,
         (asr # NoJob /\ asr.session = s) \/ (text # NoJob /\ text.session = s)
  PROVE  Good(World(s), s, FinalInHand(s), CorrectionInHand(s))
<1>1. Running(s) >= 1
  BY DEF Running, InFlight
<1>2. streams[s].pending >= Load(World(s), s) + Running(s)
      /\ Load(World(s), s) \in Nat /\ Running(s) \in Nat
  BY OutstandingIs DEF WorkInv, PendingCounts
<1>3. streams[s].pending # 0
  BY <1>1, <1>2
<1>. QED
  BY <1>3, UnfinishedStream DEF WorkInv, OrderInv, Ends

LEMMA UnfinishedEnds == \A st : Unfinished(st) => Ends(st)
  BY DEF Unfinished, Ends

LEMMA OrderStep ==
  ASSUME PipelineType, OrderInv, NEW s \in Sessions, NEW v, Becomes(s, v),
         Tidy(v, s, FinalInHand(s)', CorrectionInHand(s)'), Ends(v.st),
         OthersKept(World(s), v, s),
         \A t \in Sessions : t # s => /\ FinalInHand(t)' = FinalInHand(t)
                                      /\ CorrectionInHand(t)' = CorrectionInHand(t)
  PROVE  OrderInv'
<1>1. /\ streams'[s] = v.st /\ finals' = v.fin /\ corrections' = v.cor
      /\ \A t \in Sessions : t # s => streams'[t] = streams[t]
  BY DEF Becomes, PipelineType
<1>2. \A t \in Sessions : /\ World(t)'.st = streams'[t]
                          /\ World(t)'.fin = finals' /\ World(t)'.cor = corrections'
                          /\ World(t).st = streams[t]
                          /\ World(t).fin = finals /\ World(t).cor = corrections
  BY DEF World
<1>3. Tidy(World(s), s, FinalInHand(s), CorrectionInHand(s))'
  BY <1>1, <1>2 DEF Tidy
<1>4. ASSUME NEW t \in Sessions, t # s
      PROVE  /\ Tidy(World(t), t, FinalInHand(t), CorrectionInHand(t))'
             /\ Ends(streams[t])'
  <2>1. Tidy(World(t), t, FinalInHand(t), CorrectionInHand(t)) /\ Ends(streams[t])
    BY DEF OrderInv
  <2>2. /\ Mine(finals', t) = Mine(finals, t) /\ Mine(corrections', t) = Mine(corrections, t)
        /\ InOrder(finals, t) => InOrder(finals', t)
        /\ InOrder(corrections, t) => InOrder(corrections', t)
    BY <1>1, <1>2, <1>4 DEF OthersKept
  <2>3. streams'[t] = streams[t]
    BY <1>1, <1>4
  <2>4. FinalInHand(t)' = FinalInHand(t) /\ CorrectionInHand(t)' = CorrectionInHand(t)
    BY <1>4
  <2>5. Tidy(World(t), t, FinalInHand(t), CorrectionInHand(t))'
    BY <1>2, <2>1, <2>2, <2>3, <2>4 DEF Tidy, Lined
  <2>. QED
    BY <2>1, <2>3, <2>5
<1>. QED
  BY <1>1, <1>3, <1>4 DEF OrderInv

LEMMA HandlerOrder ==
  ASSUME PipelineType, OrderInv, NEW s \in Sessions, NEW v, Becomes(s, v),
         Good(v, s, FinalInHand(s), CorrectionInHand(s)), OthersKept(World(s), v, s),
         UNCHANGED <<asr, text>>
  PROVE  OrderInv'
<1>1. \A t \in Sessions : /\ FinalInHand(t)' = FinalInHand(t)
                          /\ CorrectionInHand(t)' = CorrectionInHand(t)
  BY DEF FinalInHand, CorrectionInHand
<1>2. Tidy(v, s, FinalInHand(s)', CorrectionInHand(s)') /\ Ends(v.st)
  BY <1>1, UnfinishedEnds DEF Good
<1>. QED
  BY <1>1, <1>2, OrderStep

LEMMA AnswerOrder ==
  ASSUME PipelineType, OrderInv, NEW s \in Sessions, NEW w, Becomes(s, WorkDone(w)),
         Good(w, s, FinalInHand(s)', CorrectionInHand(s)'), OthersKept(World(s), w, s),
         \A t \in Sessions : t # s => /\ FinalInHand(t)' = FinalInHand(t)
                                      /\ CorrectionInHand(t)' = CorrectionInHand(t)
  PROVE  OrderInv'
<1>. DEFINE v == WorkDone(w)
            A == FinalInHand(s)'
            T == CorrectionInHand(s)'
<1>1. w \in Worlds /\ w.st.state # "stopped"
  BY DEF Good, Unfinished
<1>2. v \in Worlds
  BY <1>1, WorkDoneTyped
<1>3. Alike(w, v) /\ v.st.state # "stopped"
  BY <1>1, <1>2 DEF Alike, WorkDone, Worlds, Stream
<1>. HIDE DEF v, A, T
<1>4. Good(v, s, A, T) /\ OthersKept(w, v, s)
  BY <1>1, <1>3, AlikeGood DEF A, T
<1>5. OthersKept(World(s), v, s)
  BY <1>4, OthersTransitive
<1>6. Tidy(v, s, A, T) /\ Ends(v.st)
  BY <1>4, UnfinishedEnds DEF Good
<1>. QED
  BY <1>5, <1>6, OrderStep DEF v, A, T

LEMMA StreamOrder ==
  ASSUME PipelineType, OrderInv, NEW s \in Sessions,
         AcceptPcm(s) \/ Stop(s) \/ Close(s) \/ Evict(s)
  PROVE  OrderInv'
<1>. DEFINE A == FinalInHand(s)
            T == CorrectionInHand(s)
<1>1. World(s) \in Worlds /\ World(s).st = streams[s]
  BY WorldTyped DEF World
<1>2. UNCHANGED <<asr, text>>
  BY DEF AcceptPcm, Stop, Close, Evict
<1>3. streams[s].state # "stopped" => Good(World(s), s, A, T)
  BY UnfinishedStream
<1>. HIDE DEF A, T
<1>4. CASE AcceptPcm(s)
  <2>1. PICK outcome \in Outcomes(streams[s]) :
          \/ Becomes(s, Handled(Heard(World(s), s, outcome), "handler"))
          \/ Becomes(s, Handled(QueuePartial(Heard(World(s), s, outcome), s), "handler"))
    BY <1>4 DEF AcceptPcm
  <2>2. Good(World(s), s, A, T)
    BY <1>3, <1>4 DEF AcceptPcm
  <2>. DEFINE w == Heard(World(s), s, outcome)
              q == QueuePartial(w, s)
  <2>3. Good(w, s, A, T) /\ OthersKept(World(s), w, s)
    BY <1>1, <2>1, <2>2, HeardGood
  <2>4. Becomes(s, Handled(w, "handler")) \/ Becomes(s, Handled(q, "handler"))
    BY <2>1
  <2>. HIDE DEF w
  <2>5. Good(q, s, A, T) /\ OthersKept(World(s), q, s)
    <3>1. Good(q, s, A, T) /\ OthersKept(w, q, s)
      BY <2>3, PartialGood
    <3>. QED
      BY <2>3, <3>1, OthersTransitive
  <2>. HIDE DEF q
  <2>6. ASSUME NEW v, Good(v, s, A, T), OthersKept(World(s), v, s)
        PROVE  Good(Handled(v, "handler"), s, A, T)
               /\ OthersKept(World(s), Handled(v, "handler"), s)
    <3>1. Good(Handled(v, "handler"), s, A, T) /\ OthersKept(v, Handled(v, "handler"), s)
      BY <2>6, HandledGood
    <3>. QED
      BY <2>6, <3>1, OthersTransitive
  <2>7. PICK v : Becomes(s, v) /\ Good(v, s, A, T) /\ OthersKept(World(s), v, s)
    BY <2>3, <2>4, <2>5, <2>6
  <2>. QED
    BY <1>2, <2>7, HandlerOrder DEF A, T
<1>5. CASE Stop(s)
  <2>1. Good(World(s), s, A, T) /\ Becomes(s, BeginStop(World(s), s))
    BY <1>3, <1>5 DEF Stop
  <2>2. Good(BeginStop(World(s), s), s, A, T) /\ OthersKept(World(s), BeginStop(World(s), s), s)
    BY <2>1, BeginStopGood
  <2>. QED
    BY <1>2, <2>1, <2>2, HandlerOrder DEF A, T
<1>6. \A t \in Sessions : /\ FinalInHand(t)' = FinalInHand(t)
                          /\ CorrectionInHand(t)' = CorrectionInHand(t)
  BY <1>2 DEF FinalInHand, CorrectionInHand
<1>7. Tidy(World(s), s, A, T) /\ Ends(streams[s])
  BY DEF OrderInv, A, T
<1>8. ASSUME NEW w, Alike(World(s), w), w.st.state = streams[s].state,
             w.st.pending = streams[s].pending, w.st.stopping = streams[s].stopping,
             Becomes(s, w)
      PROVE  OrderInv'
  <2>1. Tidy(w, s, A, T) /\ OthersKept(World(s), w, s)
    BY <1>1, <1>7, <1>8, AlikeGood
  <2>2. Ends(w.st)
    BY <1>1, <1>7, <1>8 DEF Ends, Alike
  <2>. QED
    BY <1>6, <1>8, <2>1, <2>2, OrderStep DEF A, T
<1>9. CASE Close(s)
  <2>. DEFINE w == [World(s) EXCEPT !.st.open = FALSE]
  <2>1. Alike(World(s), w) /\ w.st.state = streams[s].state
        /\ w.st.pending = streams[s].pending /\ w.st.stopping = streams[s].stopping
    BY <1>1 DEF Alike, Worlds, Stream
  <2>2. Becomes(s, IF streams[s].stopping THEN w ELSE BeginStop(w, s))
    BY <1>9 DEF Close
  <2>. HIDE DEF w
  <2>3. CASE streams[s].stopping
    BY <1>8, <2>1, <2>2, <2>3
  <2>4. CASE ~streams[s].stopping
    <3>1. streams[s].state # "stopped"
      BY <1>7, <2>4 DEF Ends
    <3>2. Good(w, s, A, T) /\ OthersKept(World(s), w, s)
      BY <1>1, <1>3, <2>1, <3>1, AlikeGood
    <3>3. Good(BeginStop(w, s), s, A, T) /\ OthersKept(w, BeginStop(w, s), s)
      BY <3>2, BeginStopGood
    <3>4. OthersKept(World(s), BeginStop(w, s), s)
      BY <3>2, <3>3, OthersTransitive
    <3>. QED
      BY <1>2, <2>2, <2>4, <3>3, <3>4, HandlerOrder DEF A, T
  <2>. QED
    BY <2>3, <2>4
<1>10. CASE Evict(s)
  <2>. DEFINE w == [World(s) EXCEPT !.st.known = FALSE]
  <2>1. Alike(World(s), w) /\ w.st.state = streams[s].state
        /\ w.st.pending = streams[s].pending /\ w.st.stopping = streams[s].stopping
    BY <1>1 DEF Alike, Worlds, Stream
  <2>2. Becomes(s, w)
    <3>1. w.st = [streams[s] EXCEPT !.known = FALSE] /\ w.fin = finals /\ w.par = partials
          /\ w.end = endpoints /\ w.cor = corrections
      BY DEF World
    <3>2. streams' = [streams EXCEPT ![s] = [streams[s] EXCEPT !.known = FALSE]]
      BY <1>10 DEF Evict
    <3>. QED
      BY <1>10, <3>1, <3>2 DEF Evict, Becomes, queues
  <2>. HIDE DEF w
  <2>. QED
    BY <1>8, <2>1, <2>2
<1>. QED
  BY <1>4, <1>5, <1>9, <1>10

(* The end of the stream is its last event. *)
LEMMA StopDoneOrder ==
  ASSUME PipelineType, OrderInv, NEW s \in Sessions, StopDone(s)
  PROVE  OrderInv'
<1>. DEFINE A == FinalInHand(s)
            T == CorrectionInHand(s)
            w == World(s)
            h == w.st.history
            e == [type |-> "stream.stopped", utt |-> 0]
            n == Len(h) + 1
            x == [w EXCEPT !.st.rows = Finalize(@), !.st.state = "stopped"]
            v == Emit(x, "stream.stopped", 0)
            hist == Append(h, e)
<1>1. w \in Worlds /\ w.st = streams[s] /\ h \in Seq(Event) /\ e \in Event
        /\ w.raises = FALSE
  BY WorldTyped DEF World, Worlds, Stream, Event
<1>2. streams[s].stopping /\ streams[s].state # "stopped" /\ streams[s].pending = 0 /\ Becomes(s, v)
      /\ UNCHANGED <<asr, text>>
  BY DEF StopDone
<1>3. Good(w, s, A, T)
  BY <1>2, UnfinishedStream
<1>4. /\ v.fin = w.fin /\ v.cor = w.cor
      /\ v.st.utt = w.st.utt /\ v.st.spoken = w.st.spoken
      /\ v.st.detector = w.st.detector /\ v.st.state = "stopped"
      /\ v.st.pending = w.st.pending /\ v.st.stopping = w.st.stopping
      /\ v.st.history = hist
  <2>. DEFINE rows == Finalize(w.st.rows)
  <2>. HIDE DEF w, hist, rows
  <2>1. w.st \in Stream
    BY <1>1 DEF Worlds
  <2>2. /\ x.fin = w.fin /\ x.cor = w.cor /\ x.raises = FALSE
        /\ x.st = [w.st EXCEPT !.rows = rows, !.state = "stopped"]
    BY <1>1, <2>1 DEF Worlds, Stream, rows
  <2>3. /\ DOMAIN x = {"st", "fin", "par", "end", "cor", "raises"}
        /\ x.st.history = h
    BY <1>1, <2>1 DEF Worlds, Stream
  <2>4. v = Announce([x EXCEPT !.st.history = hist], "stream.stopped")
    BY <2>2, <2>3 DEF Emit, Then, hist
  <2>. HIDE DEF x, v
  <2>5. DOMAIN v = DOMAIN x /\ v.st = [x.st EXCEPT !.history = hist]
        /\ v.fin = x.fin /\ v.cor = x.cor
    BY <2>3, <2>4 DEF Announce
  <2>. QED
    BY <2>1, <2>2, <2>5 DEF Stream
<1>. DEFINE F == A \cup Mine(w.fin, s)
            C == T \cup Mine(w.cor, s)
<1>5. /\ Ordered(w.st, F, C) /\ Unfinished(w.st)
      /\ Lined(w.fin, s, A) /\ Lined(w.cor, s, T)
  BY <1>3 DEF Good, Tidy
<1>8. e.type = "stream.stopped" /\ e.utt = 0
  OBVIOUS
<1>. HIDE DEF w, x, v, e, F, C, A, T, hist
<1>6. /\ DOMAIN h = 1..Len(h) /\ Len(h) \in Nat /\ DOMAIN v.st.history = 1..n
      /\ \A i \in 1..Len(h) : v.st.history[i] = h[i]
      /\ v.st.history[n] = e
  BY <1>1, <1>4, LenProperties, AppendProperties DEF hist
<1>7. \A i \in 1..n : \/ i \in DOMAIN h /\ v.st.history[i] = h[i]
                      \/ i = n /\ v.st.history[i] = e
  <2>. TAKE i \in 1..n
  <2>1. i \in 1..Len(h) \/ i = n
    BY <1>6
  <2>. QED
    BY <1>6, <2>1
<1>9. HistoryInOrder(v.st.history)
  <2>. SUFFICES ASSUME NEW i \in 1..n, NEW j \in 1..n, i < j
                PROVE  /\ v.st.history[i].type = "asr.final" /\ v.st.history[j].type = "asr.final"
                            => v.st.history[i].utt < v.st.history[j].utt
                       /\ v.st.history[i].type = "utterance.completed"
                              /\ v.st.history[j].type # "asr.partial"
                            => v.st.history[i].utt # v.st.history[j].utt
                       /\ v.st.history[i].type # "stream.stopped"
    BY <1>6 DEF HistoryInOrder
  <2>1. i \in DOMAIN h /\ v.st.history[i] = h[i]
    BY <1>6
  <2>2. CASE j \in DOMAIN h
    BY <1>5, <1>6, <2>1, <2>2 DEF Ordered, HistoryInOrder
  <2>3. CASE j = n
    <3>1. v.st.history[j].type = "stream.stopped" /\ v.st.history[j].utt = 0
      BY <1>6, <1>8, <2>3
    <3>2. v.st.history[i].type # "stream.stopped"
      BY <1>5, <2>1 DEF Unfinished
    <3>3. v.st.history[i].type = "utterance.completed" => v.st.history[i].utt # 0
      BY <1>5, <2>1 DEF Ordered, Told
    <3>. QED
      BY <3>1, <3>2, <3>3
  <2>. QED
    BY <1>6, <2>2, <2>3
<1>10. Ordered(v.st, F, C)
  <2>1. w.st.spoken \in Nat /\ w.st.utt \in Nat
    BY <1>1 DEF Worlds, Stream
  <2>2. \A i \in Told(v.st.history) :
          /\ v.st.history[i].utt <= v.st.spoken
          /\ \A f \in F : v.st.history[i].utt < f
          /\ v.st.utt # 0 => v.st.history[i].utt < v.st.utt
          /\ v.st.history[i].type = "utterance.completed" => v.st.history[i].utt \notin C \cup {0}
    <3>. TAKE i \in Told(v.st.history)
    <3>0. i \in DOMAIN v.st.history /\ v.st.history[i].type # "asr.partial"
      BY DEF Told
    <3>1. CASE i \in DOMAIN h /\ v.st.history[i] = h[i]
      <4>1. i \in Told(h)
        BY <3>0, <3>1 DEF Told
      <4>. QED
        BY <1>4, <1>5, <3>1, <4>1 DEF Ordered
    <3>2. CASE i = n /\ v.st.history[i] = e
      <4>1. v.st.history[i].type = "stream.stopped" /\ v.st.history[i].utt = 0
        BY <1>8, <3>2
      <4>2. \A f \in F : 0 < f
        BY <1>5, <2>1 DEF Ordered
      <4>. QED
        BY <1>4, <2>1, <4>1, <4>2
    <3>. QED
      BY <1>6, <1>7, <3>0, <3>1, <3>2
  <2>. QED
    BY <1>4, <1>5, <1>9, <2>2 DEF Ordered
<1>11. Tidy(v, s, A, T)
  BY <1>4, <1>5, <1>10 DEF Tidy, F, C
<1>12. Ends(v.st)
  BY <1>1, <1>2, <1>4 DEF Ends
<1>13. OthersKept(World(s), v, s)
  BY <1>4 DEF OthersKept, w
<1>14. \A t \in Sessions : /\ FinalInHand(t)' = FinalInHand(t)
                           /\ CorrectionInHand(t)' = CorrectionInHand(t)
  BY <1>2 DEF FinalInHand, CorrectionInHand
<1>. QED
  BY <1>2, <1>11, <1>12, <1>13, <1>14, OrderStep DEF A, T

(* A loop takes a job: what it has in hand was the head of its queue, or the *)
(* queue of these jobs is as it was and nothing is in hand.                  *)
LEMMA TakeOrder ==
  ASSUME OrderInv, UNCHANGED streams,
         \A t \in Sessions :
           /\ Lined(finals', t, FinalInHand(t)')
           /\ Lined(corrections', t, CorrectionInHand(t)')
           /\ FinalInHand(t)' \cup Mine(finals', t)
                \in SUBSET (FinalInHand(t) \cup Mine(finals, t))
           /\ CorrectionInHand(t)' \cup Mine(corrections', t)
                \in SUBSET (CorrectionInHand(t) \cup Mine(corrections, t))
  PROVE  OrderInv'
<1>. SUFFICES ASSUME NEW t \in Sessions
              PROVE  /\ Tidy(World(t), t, FinalInHand(t), CorrectionInHand(t))'
                     /\ Ends(streams[t])'
  BY DEF OrderInv
<1>1. /\ Ordered(streams[t], FinalInHand(t) \cup Mine(finals, t),
                 CorrectionInHand(t) \cup Mine(corrections, t))
      /\ Ends(streams[t])
  BY DEF OrderInv, Tidy, World
<1>2. Ordered(streams[t], FinalInHand(t)' \cup Mine(finals', t),
              CorrectionInHand(t)' \cup Mine(corrections', t))
  BY <1>1, OrderedFewer
<1>3. Tidy(World(t), t, FinalInHand(t), CorrectionInHand(t))'
  BY <1>2 DEF Tidy, World
<1>. QED
  BY <1>1, <1>3

LEMMA LinesNow ==
  ASSUME OrderInv, NEW t \in Sessions
  PROVE  /\ Lined(finals, t, FinalInHand(t))
         /\ Lined(corrections, t, CorrectionInHand(t))
  BY DEF OrderInv, Tidy, World

LEMMA AsrTakeOrder ==
  ASSUME PipelineType, OrderInv, AsrTake
  PROVE  OrderInv'
<1>1. /\ finals \in Seq(Job("final")) /\ partials \in Seq(Job("partial"))
      /\ UNCHANGED <<streams, corrections, text>> /\ asr = NoJob
  BY DEF PipelineType, AsrTake
<1>2. \A t \in Sessions : FinalInHand(t) = {} /\ CorrectionInHand(t)' = CorrectionInHand(t)
  BY <1>1 DEF FinalInHand, CorrectionInHand, NoJob
<1>3. ASSUME NEW t \in Sessions
      PROVE  /\ Lined(finals', t, FinalInHand(t)')
             /\ FinalInHand(t)' \cup Mine(finals', t)
                  \in SUBSET (FinalInHand(t) \cup Mine(finals, t))
  <2>1. Lined(finals, t, {})
    BY <1>2, LinesNow
  <2>2. CASE /\ finals # <<>> /\ finals' = Tail(finals) /\ asr' = Taken(Head(finals))
    <3>. DEFINE job == Head(finals)
                hand == IF job.session = t THEN {job.utt} ELSE {}
    <3>1. job \in Job("final")
      BY <1>1, <2>2, HeadTailProperties, EmptySeq
    <3>2. /\ Lined(finals', t, hand) /\ Lined(finals', t, {})
          /\ Mine(finals, t) = hand \cup Mine(finals', t)
      BY <1>1, <2>1, <2>2, LinedTail
    <3>3. FinalInHand(t)' = {} \/ FinalInHand(t)' = hand
      BY <2>2, <3>1 DEF FinalInHand, Taken, NoJob, Job
    <3>. QED
      BY <3>2, <3>3
  <2>3. CASE /\ partials # <<>> /\ finals' = finals /\ asr' = Taken(Head(partials))
    <3>1. Head(partials) \in Job("partial")
      BY <1>1, <2>3, HeadTailProperties, EmptySeq
    <3>2. FinalInHand(t)' = {}
      BY <2>3, <3>1 DEF FinalInHand, Taken, NoJob, Job
    <3>. QED
      BY <2>1, <2>3, <3>2
  <2>. QED
    BY <2>2, <2>3 DEF AsrTake
<1>4. ASSUME NEW t \in Sessions
      PROVE  /\ Lined(corrections', t, CorrectionInHand(t)')
             /\ CorrectionInHand(t)' \cup Mine(corrections', t)
                  \in SUBSET (CorrectionInHand(t) \cup Mine(corrections, t))
  BY <1>1, <1>2, LinesNow
<1>. QED
  BY <1>1, <1>3, <1>4, TakeOrder

LEMMA TextTakeOrder ==
  ASSUME PipelineType, OrderInv, TextTake
  PROVE  OrderInv'
<1>1. /\ corrections \in Seq(Question("correction")) /\ endpoints \in Seq(Question("endpoint"))
      /\ UNCHANGED <<streams, finals, asr>> /\ text = NoJob
  BY DEF PipelineType, TextTake
<1>2. \A t \in Sessions : CorrectionInHand(t) = {} /\ FinalInHand(t)' = FinalInHand(t)
  BY <1>1 DEF FinalInHand, CorrectionInHand, NoJob
<1>3. ASSUME NEW t \in Sessions
      PROVE  /\ Lined(corrections', t, CorrectionInHand(t)')
             /\ CorrectionInHand(t)' \cup Mine(corrections', t)
                  \in SUBSET (CorrectionInHand(t) \cup Mine(corrections, t))
  <2>1. Lined(corrections, t, {})
    BY <1>2, LinesNow
  <2>2. CASE /\ corrections # <<>> /\ corrections' = Tail(corrections)
             /\ text' = Taken(Head(corrections))
    <3>. DEFINE job == Head(corrections)
                hand == IF job.session = t THEN {job.utt} ELSE {}
    <3>1. job \in Question("correction")
      BY <1>1, <2>2, HeadTailProperties, EmptySeq
    <3>2. /\ Lined(corrections', t, hand) /\ Lined(corrections', t, {})
          /\ Mine(corrections, t) = hand \cup Mine(corrections', t)
      BY <1>1, <2>1, <2>2, LinedTail
    <3>3. CorrectionInHand(t)' = {} \/ CorrectionInHand(t)' = hand
      BY <2>2, <3>1 DEF CorrectionInHand, Taken, NoJob, Question
    <3>. QED
      BY <3>2, <3>3
  <2>3. CASE /\ endpoints # <<>> /\ corrections' = corrections
             /\ text' = Taken(Head(endpoints))
    <3>1. Head(endpoints) \in Question("endpoint")
      BY <1>1, <2>3, HeadTailProperties, EmptySeq
    <3>2. CorrectionInHand(t)' = {}
      BY <2>3, <3>1 DEF CorrectionInHand, Taken, NoJob, Question
    <3>. QED
      BY <2>1, <2>3, <3>2
  <2>. QED
    BY <2>2, <2>3 DEF TextTake
<1>4. ASSUME NEW t \in Sessions
      PROVE  /\ Lined(finals', t, FinalInHand(t)')
             /\ FinalInHand(t)' \cup Mine(finals', t)
                  \in SUBSET (FinalInHand(t) \cup Mine(finals, t))
  BY <1>1, <1>2, LinesNow
<1>. QED
  BY <1>1, <1>3, <1>4, TakeOrder

LEMMA AsrAnswerOrder ==
  ASSUME WorkInv, OrderInv, AsrAnswer
  PROVE  OrderInv'
<1>0. PICK s \in Sessions : s = asr.session
  BY DEF AsrAnswer, WorkInv, PipelineType, Job
<1>. DEFINE w == World(s)
            A == FinalInHand(s)
            T == CorrectionInHand(s)
<1>1. /\ asr \in Job("final") \cup Job("partial") /\ asr # NoJob
      /\ asr.mode = "final" \/ asr.mode = "partial"
      /\ asr.mode = "final" => asr \in Job("final")
      /\ asr.mode = "partial" => asr \in Job("partial")
      /\ asr' = NoJob /\ text' = text
  BY DEF AsrAnswer, WorkInv, PipelineType, Job
<1>2. Good(w, s, A, T) /\ w \in Worlds
  <2>1. Good(w, s, A, T)
    BY <1>0, <1>1, RunningStream
  <2>. QED
    BY <2>1 DEF Good
<1>3. /\ \A t \in Sessions : FinalInHand(t)' = {} /\ CorrectionInHand(t)' = CorrectionInHand(t)
      /\ \A t \in Sessions : t # s => FinalInHand(t) = {}
  BY <1>0, <1>1 DEF FinalInHand, CorrectionInHand, NoJob
<1>. HIDE DEF w, A, T
<1>4. PICK v : Becomes(s, WorkDone(v)) /\ Good(v, s, {}, T) /\ OthersKept(w, v, s)
  <2>1. \/ Becomes(s, WorkDone(Failed(w, asr)))
        \/ asr.mode = "partial" /\ Becomes(s, WorkDone(AcceptPartial(w, asr)))
        \/ asr.mode = "final" /\ Becomes(s, WorkDone(AcceptFinal(w, asr)))
    BY <1>0, <1>1 DEF AsrAnswer, w
  <2>2. Good(w, s, {}, T) /\ OthersKept(w, w, s)
    <3>1. {} \in SUBSET A /\ T \in SUBSET T
      OBVIOUS
    <3>. QED
      BY <1>2, <3>1, GoodFewer DEF OthersKept
  <2>3. ASSUME asr.mode = "final"
        PROVE  /\ Good(AcceptFinal(w, asr), s, {}, T) /\ OthersKept(w, AcceptFinal(w, asr), s)
               /\ Good(GiveUp(w, asr.utt), s, {}, T)
               /\ OthersKept(w, GiveUp(w, asr.utt), s)
    <3>1. A = {asr.utt} /\ asr \in Job("final")
      BY <1>0, <1>1, <2>3 DEF FinalInHand, A
    <3>. QED
      BY <1>0, <1>1, <1>2, <3>1, FinalAnswerGood
  <2>4. ASSUME asr.mode = "partial"
        PROVE  Good(AcceptPartial(w, asr), s, {}, T) /\ OthersKept(w, AcceptPartial(w, asr), s)
    <3>. DEFINE u == asr.utt
                rows == Accept(w.st.rows, u, "partial", FALSE)
                x == [w EXCEPT !.st.rows = Accept(@, u, "partial", FALSE)]
                e == Emit(x, "asr.partial", u)
    <3>1. AcceptPartial(w, asr) \in {w, e}
      BY DEF AcceptPartial
    <3>2. u \in Nat /\ rows \in Seq(Rows) /\ x = [w EXCEPT !.st.rows = rows]
      <4>1. u \in Nat /\ w.st.rows \in Seq(Rows)
        BY <1>1, <1>2, <2>4 DEF Job, Worlds, Stream
      <4>2. "partial" \in Text
        BY DEF Text
      <4>. QED
        BY <4>1, <4>2, AcceptTyped
    <3>. HIDE DEF rows, e
    <3>3. x \in Worlds
      BY <1>2, <3>2, RowsSame DEF SameWork
    <3>4. Alike(w, x) /\ x.st.state = w.st.state
      BY <1>2, <3>2, <3>3 DEF Alike, Worlds, Stream
    <3>. HIDE DEF x, u
    <3>5. Good(x, s, {}, T) /\ OthersKept(w, x, s)
      BY <1>2, <2>2, <3>4, AlikeGood DEF Good, Unfinished
    <3>6. Timely(x, s, {}, T, "asr.partial", u)
      BY DEF Timely
    <3>7. Good(e, s, {}, T) /\ OthersKept(x, e, s)
      BY <3>2, <3>5, <3>6, EmitGood DEF e
    <3>. QED
      BY <2>2, <3>1, <3>5, <3>7, OthersTransitive
  <2>5. Good(Failed(w, asr), s, {}, T) /\ OthersKept(w, Failed(w, asr), s)
    BY <2>2, <2>3, AnnounceGood DEF Failed
  <2>. QED
    BY <2>1, <2>2, <2>3, <2>4, <2>5
<1>5. Good(v, s, FinalInHand(s)', CorrectionInHand(s)')
  BY <1>0, <1>1, <1>3, <1>4 DEF T
<1>6. \A t \in Sessions : t # s => /\ FinalInHand(t)' = FinalInHand(t)
                                   /\ CorrectionInHand(t)' = CorrectionInHand(t)
  BY <1>3
<1>. QED
  BY <1>0, <1>1, <1>4, <1>5, <1>6, AnswerOrder DEF WorkInv, w

LEMMA TextAnswerOrder ==
  ASSUME WorkInv, OrderInv, TextAnswer
  PROVE  OrderInv'
<1>0. PICK s \in Sessions : s = text.session
  BY DEF TextAnswer, WorkInv, PipelineType, Question
<1>. DEFINE w == World(s)
            A == FinalInHand(s)
            T == CorrectionInHand(s)
<1>1. /\ text \in Question("endpoint") \cup Question("correction")
      /\ text # NoJob
      /\ text.mode = "correction" => text \in Question("correction")
      /\ text' = NoJob /\ asr' = asr
  BY DEF TextAnswer, WorkInv, PipelineType, Question
<1>2. Good(w, s, A, T) /\ w \in Worlds
  <2>1. Good(w, s, A, T)
    BY <1>0, <1>1, RunningStream
  <2>. QED
    BY <2>1 DEF Good
<1>3. /\ \A t \in Sessions : CorrectionInHand(t)' = {} /\ FinalInHand(t)' = FinalInHand(t)
      /\ \A t \in Sessions : t # s => CorrectionInHand(t) = {}
  BY <1>0, <1>1 DEF FinalInHand, CorrectionInHand, NoJob
<1>. HIDE DEF w, A, T
<1>4. PICK v : Becomes(s, WorkDone(v)) /\ Good(v, s, A, {}) /\ OthersKept(w, v, s)
  <2>1. PICK v \in TextAnswers(w, text) : Becomes(s, WorkDone(v))
    BY <1>0 DEF TextAnswer, w
  <2>2. text \in Question("correction") => T = {text.utt}
    BY <1>0, <1>1 DEF CorrectionInHand, T, Question
  <2>3. Good(v, s, A, {}) /\ OthersKept(w, v, s)
    BY <1>0, <1>1, <1>2, <2>1, <2>2, TextAnswersGood
  <2>. QED
    BY <2>1, <2>3
<1>5. Good(v, s, FinalInHand(s)', CorrectionInHand(s)')
  BY <1>0, <1>1, <1>3, <1>4 DEF A
<1>6. \A t \in Sessions : t # s => /\ FinalInHand(t)' = FinalInHand(t)
                                   /\ CorrectionInHand(t)' = CorrectionInHand(t)
  BY <1>3
<1>. QED
  BY <1>0, <1>1, <1>4, <1>5, <1>6, AnswerOrder DEF WorkInv, w

LEMMA OrderInit == Init => OrderInv
<1>. SUFFICES ASSUME Init, NEW s \in Sessions
              PROVE  /\ Tidy(World(s), s, FinalInHand(s), CorrectionInHand(s))
                     /\ Ends(streams[s])
  BY DEF OrderInv
<1>1. /\ streams[s] = Opened /\ finals = <<>> /\ corrections = <<>>
      /\ FinalInHand(s) = {} /\ CorrectionInHand(s) = {}
  BY DEF Init, FinalInHand, CorrectionInHand, NoJob
<1>2. Mine(<<>>, s) = {} /\ InOrder(<<>>, s)
  BY DEF Mine, InOrder
<1>3. Ordered(Opened, {}, {}) /\ Ends(Opened)
  BY DEF Ordered, HistoryInOrder, Ends, Opened, Told
<1>. QED
  BY <1>1, <1>2, <1>3 DEF Tidy, Lined, World

LEMMA OrderKept == WorkInv /\ OrderInv /\ [Next]_vars => OrderInv'
<1>. SUFFICES ASSUME WorkInv, OrderInv, [Next]_vars PROVE OrderInv'
  OBVIOUS
<1>1. PipelineType
  BY DEF WorkInv
<1>2. CASE UNCHANGED vars
  BY <1>2 DEF vars, queues, OrderInv, Tidy, World, FinalInHand, CorrectionInHand
<1>3. ASSUME NEW s \in Sessions,
             AcceptPcm(s) \/ Stop(s) \/ Close(s) \/ StopDone(s) \/ Evict(s)
      PROVE  OrderInv'
  BY <1>1, <1>3, StreamOrder, StopDoneOrder
<1>. QED
  BY <1>1, <1>2, <1>3, AsrTakeOrder, TextTakeOrder, AsrAnswerOrder, TextAnswerOrder DEF Next

(* A client reads the events of a stream in order, whatever the answers and  *)
(* failures of the two workers: finals as they were spoken, an utterance     *)
(* completed once and without a final after that, though a partial may come  *)
(* late, and the end of the stream last.                                     *)
THEOREM EventsKeepOrder == Spec => []EventsInOrder
<1>1. Init => WorkInv /\ OrderInv
  BY InitKeeps, OrderInit
<1>2. WorkInv /\ OrderInv /\ [Next]_vars => (WorkInv /\ OrderInv)'
  BY WorkInvKept, OrderKept
<1>3. OrderInv => EventsInOrder
  BY DEF OrderInv, Tidy, Ordered, HistoryInOrder, EventsInOrder, World
<1>. QED
  BY <1>1, <1>2, <1>3, PTL DEF Spec
=============================================================================
