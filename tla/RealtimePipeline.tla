-------------------------- MODULE RealtimePipeline --------------------------
(***************************************************************************)
(* The realtime transcription pipeline of the gateway: the streams of the  *)
(* open sessions (realtime.py, realtime_endpoint.py, transcripts.py), the  *)
(* two bounded schedulers (realtime_queue.py) and the two loops that take  *)
(* their jobs to the ASR and the text worker.                              *)
(*                                                                         *)
(* asyncio runs a handler from one await that blocks to the next as one    *)
(* step.  The awaits that block here are a worker's answer, a scheduler's  *)
(* get and wait_idle; the sockets are read by one handler per stream.  The *)
(* outbox of a stream has room for its events.                             *)
(***************************************************************************)
EXTENDS Integers, Sequences, FiniteSets, TranscriptLedger

CONSTANTS
  Sessions,
  MaxFinals, MaxPartials, MaxText,  \* limits of the schedulers (settings)
  Disconnects,     \* whether sockets close without stream.stop
  Evictions,       \* whether the broker evicts the session of a stream
  MaxUtterances,   \* bound: utterances a stream hears
  MaxGenerations   \* bound: partial snapshots a stream queues

ASSUME PipelineAssumption ==
  /\ {MaxFinals, MaxPartials, MaxText} \subseteq Nat \ {0}
  /\ {Disconnects, Evictions} \subseteq BOOLEAN
  /\ {MaxUtterances, MaxGenerations} \subseteq Nat

VARIABLES
  streams,                \* the RealtimeStream of each session
  finals, partials,       \* ASRScheduler
  endpoints, corrections, \* TextScheduler
  asr, text,              \* the job each loop awaits an answer for
  asrAlive, textAlive     \* the loop has not been left by an exception

queues == <<finals, partials, endpoints, corrections>>
vars == <<streams, queues, asr, text, asrAlive, textAlive>>

NoJob == [mode |-> "none"]

Utterances == 1..MaxUtterances

AsrJob(s, u, g, m) == [session |-> s, utt |-> u, gen |-> g, mode |-> m]

(* known: the endpoint job carries some text of its utterance; previous is  *)
(* what the text of the row before was made from, for a correction.         *)
TextJob(s, u, m, known, previous) ==
  [session |-> s, utt |-> u, mode |-> m, known |-> known, previous |-> previous]

(* A stream that was opened and sent stream.start.  open: the coordinator   *)
(* still maps the session to it; utt: the utterance being heard, or 0;      *)
(* detector: what the detector makes of it; history: the events other parts *)
(* rely on, of those it emits; known: the broker still has the session;     *)
(* raised: what an exception has ended, the handler of the socket or a stop. *)
Opened ==
  [open |-> TRUE, state |-> "listening", stopping |-> FALSE,
   utt |-> 0, spoken |-> 0, detector |-> "idle",
   generation |-> 0, latest |-> [u \in Utterances |-> 0],
   pending |-> 0, rows |-> <<>>, history |-> <<>>,
   known |-> TRUE, raised |-> "nothing"]

Init ==
  /\ streams = [s \in Sessions |-> Opened]
  /\ finals = <<>> /\ partials = <<>> /\ endpoints = <<>> /\ corrections = <<>>
  /\ asr = NoJob /\ text = NoJob
  /\ asrAlive = TRUE /\ textAlive = TRUE

-----------------------------------------------------------------------------
(* A handler is a composition of steps on the world of one stream: the     *)
(* stream itself and the four queues.  Once a step raises, the steps after  *)
(* it are not taken.                                                        *)

World(s) ==
  [st |-> streams[s], fin |-> finals, par |-> partials,
   end |-> endpoints, cor |-> corrections, raises |-> FALSE]

Becomes(s, w) ==
  /\ streams' = [streams EXCEPT ![s] = w.st]
  /\ finals' = w.fin /\ partials' = w.par
  /\ endpoints' = w.end /\ corrections' = w.cor

Then(w, v) == IF w.raises THEN w ELSE v

(* The events that _emit passes on to the broker, which raises for a session *)
(* it does not have any more.                                                *)
Echoed ==
  {"asr.partial", "asr.final", "transcript.revised", "utterance.completed",
   "pipeline.warning"}

(* An event whose place in the history matters to nobody. *)
Announce(w, type) ==
  [w EXCEPT !.raises = @ \/ (~w.st.known /\ type \in Echoed)]

Emit(w, type, u) ==
  Then(w, Announce([w EXCEPT !.st.history = Append(@, [type |-> type, utt |-> u])],
                   type))

WorkQueued(w) == [w EXCEPT !.st.pending = @ + 1]

WorkDone(w) == [w EXCEPT !.st.pending = IF @ = 0 THEN 0 ELSE @ - 1]

ClearUtterance(w) == [w EXCEPT !.st.utt = 0]

Complete(w, u) ==
  LET e == Emit(w, "utterance.completed", u)
  IN  IF e.raises \/ w.st.stopping THEN e ELSE [e EXCEPT !.st.state = "listening"]

(* _queue_final: a full queue pauses the stream and the audio is gone. *)
QueueFinal(w, s, u) ==
  IF Len(w.fin) >= MaxFinals
  THEN LET e == Announce(w, "pipeline.warning")
       IN  Then(e, [e EXCEPT !.st.state = "paused"])
  ELSE WorkQueued([w EXCEPT !.fin = Append(@, AsrJob(s, u, 1, "final"))])

(* The detector ends the utterance and its final action is handled. *)
Finish(w, s) ==
  LET q == QueueFinal([w EXCEPT !.st.detector = "idle"], s, w.st.utt)
  IN  Then(w, Then(q, ClearUtterance(q)))

FinalizeCandidate(w, s) ==
  IF w.st.detector = "candidate" THEN Finish(w, s) ELSE w

(* Mutant: every queued snapshot counts as new work. *)
QueuePartialRecounted(w, s) ==
  LET u == w.st.utt
      g == w.st.generation + 1
      job == AsrJob(s, u, g, "partial")
      at == {i \in DOMAIN w.par : w.par[i].session = s /\ w.par[i].utt = u}
      marked == [w EXCEPT !.st.generation = g, !.st.latest[u] = g]
  IN  IF at # {}
      THEN WorkQueued([marked EXCEPT !.par = [i \in DOMAIN @ |->
                                     IF i \in at THEN job ELSE @[i]]])
      ELSE IF Len(w.par) >= MaxPartials THEN Announce(marked, "pipeline.warning")
      ELSE WorkQueued([marked EXCEPT !.par = Append(@, job)])

(* _queue_partial.  put_partial replaces the queued snapshot of the same    *)
(* utterance in place, and only a new key counts as new work.               *)
QueuePartial(w, s) ==
  LET u == w.st.utt
      g == w.st.generation + 1
      job == AsrJob(s, u, g, "partial")
      at == {i \in DOMAIN w.par : w.par[i].session = s /\ w.par[i].utt = u}
      marked == [w EXCEPT !.st.generation = g, !.st.latest[u] = g]
  IN  IF at # {}
      THEN [marked EXCEPT !.par = [i \in DOMAIN @ |->
                                     IF i \in at THEN job ELSE @[i]]]
      ELSE IF Len(w.par) >= MaxPartials THEN Announce(marked, "pipeline.warning")
      ELSE WorkQueued([marked EXCEPT !.par = Append(@, job)])

(* _queue_text for an endpoint decision: with a full queue the candidate   *)
(* ends the utterance, if the detector still has it.                        *)
QueueEndpoint(w, s) ==
  LET u == w.st.utt
      known == w.st.rows # <<>> /\ Newest(w.st.rows).utt = u
      warned == Announce(w, "pipeline.warning")
  IN  IF Len(w.end) >= MaxText
      THEN Then(warned, FinalizeCandidate(warned, s))
      ELSE WorkQueued([w EXCEPT !.end =
                         Append(@, TextJob(s, u, "endpoint", known, "none"))])

(* _queue_text for the correction of an utterance with a final text. *)
QueueCorrection(w, s, u) ==
  LET n == Len(w.st.rows)
      previous == IF n > 1 THEN w.st.rows[n - 1].text ELSE "none"
      job == TextJob(s, u, "correction", TRUE, previous)
  IN  Then(w, IF Len(w.cor) >= MaxText
              THEN Complete(Announce(w, "pipeline.warning"), u)
              ELSE WorkQueued([w EXCEPT !.cor = Append(@, job)]))

-----------------------------------------------------------------------------
(* Audio *)

(* What the detector may make of a frame (UtteranceDetector.accept). *)
Outcomes(st) ==
  IF st.detector = "idle"
  THEN IF st.spoken < MaxUtterances THEN {"start", "start_final"} ELSE {}
  ELSE {"none", "final"}
       \cup IF st.detector = "candidate" THEN {"cancel"}
            ELSE {"candidate", "candidate_final"}

Start(w) ==
  [w EXCEPT !.st.spoken = @ + 1, !.st.utt = w.st.spoken + 1,
            !.st.detector = "speech"]

(* The actions of a frame are handled in order; the detector is past all of *)
(* them when the first is.                                                  *)
Heard(w, s, outcome) ==
  CASE outcome = "start" -> Start(w)
    [] outcome = "start_final" -> Finish(Start(w), s)
    [] outcome = "candidate" ->
         QueueEndpoint([w EXCEPT !.st.detector = "candidate"], s)
    [] outcome = "candidate_final" ->
         Finish(QueueEndpoint([w EXCEPT !.st.detector = "idle"], s), s)
    [] outcome = "cancel" -> [w EXCEPT !.st.detector = "speech"]
    [] outcome = "final" -> Finish(w, s)
    [] outcome = "none" -> w

(* What an exception leaves behind where it ends the handler of the socket   *)
(* or a stop.                                                                *)
Handled(w, what) ==
  IF w.raises THEN [w EXCEPT !.st.raised = what] ELSE w

(* accept_pcm: a frame, and a partial snapshot when one is due. *)
AcceptPcm(s) ==
  LET st == streams[s] IN
  /\ st.open /\ st.raised = "nothing"
  /\ st.state = "listening" /\ ~st.stopping
  /\ \E outcome \in Outcomes(st) :
       LET w == Heard(World(s), s, outcome) IN
       \/ outcome # "none" /\ Becomes(s, Handled(w, "handler"))
       \/ /\ st.utt # 0 /\ w.st.utt # 0 /\ st.generation < MaxGenerations
          /\ ~w.raises
          /\ Becomes(s, Handled(QueuePartial(w, s), "handler"))
  /\ UNCHANGED <<asr, text, asrAlive, textAlive>>

-----------------------------------------------------------------------------
(* The loops *)

(* The coordinator looks the stream of a job up when it takes the job. *)
Taken(job) == IF streams[job.session].open THEN job ELSE NoJob

(* _asr_loop gets a job, finals first, and drops it if its stream is gone. *)
AsrTake ==
  /\ asrAlive /\ asr = NoJob
  /\ \/ /\ finals # <<>>
        /\ finals' = Tail(finals) /\ UNCHANGED partials
        /\ asr' = Taken(Head(finals))
     \/ /\ finals = <<>> /\ partials # <<>>
        /\ partials' = Tail(partials) /\ UNCHANGED finals
        /\ asr' = Taken(Head(partials))
  /\ UNCHANGED <<streams, endpoints, corrections, text, asrAlive, textAlive>>

GiveUp(w, u) ==
  LET e == Announce(w, "pipeline.warning")
  IN  Then(e, Complete(e, u))

Failed(w, job) ==
  IF job.mode = "final" THEN GiveUp(w, job.utt)
  ELSE Announce(w, "pipeline.warning")

AcceptPartial(w, job) ==
  IF w.st.latest[job.utt] = job.gen /\ Accepts(w.st.rows, job.utt)
  THEN Emit([w EXCEPT !.st.rows = Accept(@, job.utt, "partial", FALSE)],
            "asr.partial", job.utt)
  ELSE w

(* A final that the ledger refuses raises stale_transcript. *)
AcceptFinal(w, job) ==
  LET accepted == [w EXCEPT !.st.rows = Accept(@, job.utt, "final", TRUE)]
  IN  IF Accepts(w.st.rows, job.utt)
      THEN QueueCorrection(Emit(accepted, "asr.final", job.utt),
                           job.session, job.utt)
      ELSE [w EXCEPT !.raises = TRUE]

(* The worker's answer and _accept_asr_result.  An exception leaves the loop *)
(* for good, after its finally clause.                                       *)
AsrAnswer ==
  /\ asr # NoJob
  /\ LET s == asr.session IN
     \E w \in {Failed(World(s), asr),
              IF asr.mode = "partial" THEN AcceptPartial(World(s), asr)
              ELSE AcceptFinal(World(s), asr)} :
       /\ Becomes(s, WorkDone(w))
       /\ asrAlive' = (asrAlive /\ ~w.raises)
  /\ asr' = NoJob
  /\ UNCHANGED <<text, textAlive>>

(* _text_loop, endpoint decisions first. *)
TextTake ==
  /\ textAlive /\ text = NoJob
  /\ \/ /\ endpoints # <<>>
        /\ endpoints' = Tail(endpoints) /\ UNCHANGED corrections
        /\ text' = Taken(Head(endpoints))
     \/ /\ endpoints = <<>> /\ corrections # <<>>
        /\ corrections' = Tail(corrections) /\ UNCHANGED endpoints
        /\ text' = Taken(Head(corrections))
  /\ UNCHANGED <<streams, finals, partials, asr, asrAlive, textAlive>>

(* The revision of a correction job; a stale one is dropped.  The worker, or *)
(* the disabled correction, gives the texts as they were or new ones.        *)
Corrected(w, job, previous, current) ==
  LET revised == [w EXCEPT !.st.rows = Revise(@, previous, current)]
      e == Announce(revised, "transcript.revised")
  IN  IF Revises(w.st.rows, job.utt) THEN Then(e, Complete(e, job.utt)) ELSE w

(* The worker's answer, its timeout or its failure, and _accept_text_result: *)
(* an utterance without text is not complete, and a decision to extend it    *)
(* changes nothing that the model keeps.                                     *)
TextAnswers(w, job) ==
  IF job.mode = "endpoint"
  THEN {w} \cup IF job.known THEN {FinalizeCandidate(w, job.session)} ELSE {}
  ELSE {GiveUp(w, job.utt)}
       \cup {Corrected(w, job, p, c) :
              p \in {job.previous, "revised"}, c \in {"final", "revised"}}

TextAnswer ==
  /\ text # NoJob
  /\ LET s == text.session IN
     \E w \in TextAnswers(World(s), text) :
       /\ Becomes(s, WorkDone(w))
       /\ textAlive' = (textAlive /\ ~w.raises)
  /\ text' = NoJob
  /\ UNCHANGED <<asr, asrAlive>>

-----------------------------------------------------------------------------
(* Stopping *)

(* stop() up to wait_idle: what is being heard becomes a final. *)
BeginStop(w, s) ==
  LET stopping == [w EXCEPT !.st.stopping = TRUE, !.st.detector = "idle",
                            !.st.utt = 0]
  IN  IF w.st.utt = 0 THEN [w EXCEPT !.st.stopping = TRUE]
      ELSE Handled(QueueFinal(stopping, s, w.st.utt), "stop")

(* The client sends stream.stop. *)
Stop(s) ==
  LET st == streams[s] IN
  /\ st.open /\ st.raised = "nothing"
  /\ st.state # "stopped" /\ ~st.stopping
  /\ Becomes(s, BeginStop(World(s), s))
  /\ UNCHANGED <<asr, text, asrAlive, textAlive>>

(* The handler of the socket ends, because its stop has or because of an    *)
(* exception: the coordinator forgets the stream and stops it, unless a     *)
(* stop has begun.                                                          *)
Close(s) ==
  LET st == streams[s]
      w == [World(s) EXCEPT !.st.open = FALSE]
  IN
  /\ st.open
  /\ st.state = "stopped" \/ st.raised # "nothing" \/ (Disconnects /\ ~st.stopping)
  /\ Becomes(s, IF st.stopping THEN w ELSE BeginStop(w, s))
  /\ UNCHANGED <<asr, text, asrAlive, textAlive>>

(* Mutant: the stream does not wait until it is idle. *)
StopDoneEarly(s) ==
  LET st == streams[s] IN
  /\ st.stopping /\ st.state # "stopped" /\ st.raised # "stop"
  /\ Becomes(s, Emit([World(s) EXCEPT !.st.rows = Finalize(@),
                                      !.st.state = "stopped"],
                     "stream.stopped", 0))
  /\ UNCHANGED <<asr, text, asrAlive, textAlive>>

(* stop() after wait_idle; the lease of the model is released then. *)
StopDone(s) ==
  LET st == streams[s] IN
  /\ st.stopping /\ st.state # "stopped" /\ st.raised # "stop"
  /\ st.pending = 0
  /\ Becomes(s, Emit([World(s) EXCEPT !.st.rows = Finalize(@),
                                      !.st.state = "stopped"],
                     "stream.stopped", 0))
  /\ UNCHANGED <<asr, text, asrAlive, textAlive>>

(* The broker evicts the session to make room for a new one: a stream does  *)
(* not keep it, only a turn or a subscriber does.                           *)
Evict(s) ==
  /\ Evictions /\ streams[s].known
  /\ streams' = [streams EXCEPT ![s].known = FALSE]
  /\ UNCHANGED <<queues, asr, text, asrAlive, textAlive>>

Next ==
  \/ \E s \in Sessions :
       AcceptPcm(s) \/ Stop(s) \/ Close(s) \/ StopDone(s) \/ Evict(s)
  \/ AsrTake \/ AsrAnswer \/ TextTake \/ TextAnswer

Spec == Init /\ [][Next]_vars

(* The loops go on while they live, the workers answer or time out, and a   *)
(* stream that is idle is stopped.                                          *)
FairSpec ==
  /\ Spec
  /\ WF_vars(AsrTake) /\ WF_vars(AsrAnswer)
  /\ WF_vars(TextTake) /\ WF_vars(TextAnswer)
  /\ \A s \in Sessions : WF_vars(StopDone(s))
-----------------------------------------------------------------------------
(* Properties *)

JobsOf(s, queue) == Cardinality({i \in DOMAIN queue : queue[i].session = s})

InFlight(s, job) == IF job # NoJob /\ job.session = s THEN 1 ELSE 0

Outstanding(s) ==
  JobsOf(s, finals) + JobsOf(s, partials) + JobsOf(s, endpoints)
    + JobsOf(s, corrections) + InFlight(s, asr) + InFlight(s, text)

(* What wait_idle waits for is the work that is left: _pending counts every  *)
(* queued and running job of an open stream once, replaced snapshots and     *)
(* full queues included.  A closed stream only waits for more than there is. *)
PendingCounts ==
  \A s \in Sessions :
    /\ streams[s].open => streams[s].pending = Outstanding(s)
    /\ streams[s].pending >= Outstanding(s)

(* "Bounded priority schedulers": no queue exceeds its limit, and the queue  *)
(* of partials keeps at most one snapshot of an utterance, the latest taking *)
(* the place of the one before, as in the code's dictionary.                 *)
QueuesBounded ==
  /\ Len(finals) <= MaxFinals /\ Len(partials) <= MaxPartials
  /\ Len(endpoints) <= MaxText /\ Len(corrections) <= MaxText
  /\ \A i, j \in DOMAIN partials :
       partials[i].session = partials[j].session /\ partials[i].utt = partials[j].utt
         => i = j

Positions(s, type, u) ==
  {i \in DOMAIN streams[s].history :
     streams[s].history[i] = [type |-> type, utt |-> u]}

(* What a client may rely on in the order of the events: final transcripts   *)
(* come in the order the utterances were spoken, an utterance is completed   *)
(* once and has no final transcript after that, and nothing follows the end  *)
(* of the stream.  A partial transcript may still come late.                 *)
EventsInOrder ==
  \A s \in Sessions :
    LET h == streams[s].history IN
    \A i, j \in DOMAIN h : i < j =>
      /\ h[i].type = "asr.final" /\ h[j].type = "asr.final" => h[i].utt < h[j].utt
      /\ h[i].type = "utterance.completed" /\ h[j].type # "asr.partial"
           => h[i].utt # h[j].utt
      /\ h[i].type # "stream.stopped"

(* A revision reaches one sentence back and no further: an answer of the     *)
(* text worker changes the rows of the utterance it was asked about and of   *)
(* the one before, and a locked row never changes again.                     *)
RevisionWindow ==
  [][\A s \in Sessions : \A i \in DOMAIN streams[s].rows :
       LET rows == streams[s].rows
           changed == streams'[s].rows[i].text # rows[i].text IN
       /\ rows[i].locked => ~changed
       /\ changed /\ text # NoJob /\ text' = NoJob =>
            /\ Newest(rows).utt = text.utt
            /\ i >= Len(rows) - 1]_vars

(* "Endpoint finalization always performs one full final transcription and   *)
(* replaces the partial hypothesis": the text of a final row is not made     *)
(* from a partial snapshot.  In no run: finals overtake queued partials and  *)
(* the code does not keep it (README, What does not hold).                   *)
FinalReplacesPartial ==
  \A s \in Sessions : \A i \in DOMAIN streams[s].rows :
    streams[s].rows[i].final => streams[s].rows[i].text = "final"

(* "Final ASR jobs are never silently dropped": the utterance of a queued    *)
(* final is completed, or its final transcript at least announced.           *)
FinalsAnswered ==
  \A s \in Sessions, u \in Utterances :
    (\E i \in DOMAIN finals : finals[i].session = s /\ finals[i].utt = u)
      ~> Positions(s, "asr.final", u) \cup Positions(s, "utterance.completed", u)
           # {}

(* "release in the stream's idempotent close/finally path": a socket that    *)
(* closes stops its stream, which is when the lease is released.  In no run: *)
(* close_stream forgets the stream first and the code does not keep it       *)
(* (README, What does not hold).                                             *)
CloseStops ==
  \A s \in Sessions :
    ~streams[s].open ~> streams[s].state = "stopped" \/ ~asrAlive
=============================================================================
