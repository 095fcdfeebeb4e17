---------------------------- MODULE RealtimeLease ----------------------------
(***************************************************************************)
(* A realtime session holds the lease of its ASR model from open to stop.  *)
(* The streams live in the gateway, one socket handler each; the lease     *)
(* lives in the ASR worker, one HTTP request away, and that request can    *)
(* fail, or be executed after the gateway has given up waiting for it.     *)
(* realtime.py, realtime_routes.py, model_control.py.                      *)
(***************************************************************************)
EXTENDS Naturals, FiniteSets

CONSTANTS Models, Sessions, None,
          Reopens,      \* sessions that a client opens a second socket to
          MaxStreams,   \* settings.max_sessions
          MaxFailures   \* requests lost or delayed, restarts, crashes, ends
                        \* of a loop, sockets that fail as they are accepted

Sockets == Sessions \X {1} \cup Reopens \X {2}

ASSUME LeaseAssumption ==
  /\ None \notin Models \cup Sessions \cup Sockets
  /\ Reopens \subseteq Sessions
  /\ MaxStreams \in Nat /\ MaxFailures \in Nat

VARIABLES serving, owner,  \* the worker: model served, session of the lease
          frozen,    \* the model each session was created with
          loops,     \* both loops of the coordinator serve their queues
          streams,   \* _streams: the stream registered for a session, or None
          stream,    \* a stream has the name of the socket that created it
          socket,    \* each handler: where it stands and the stream it drives
          late,      \* requests that the gateway gave up and the worker has
          astray,    \* history: sessions whose last request failed, or
                     \* whose handler ended without closing its stream
          together,  \* history: sessions that had two handlers at once
          failures   \* of MaxFailures, so far

gateway == <<streams, stream, socket>>
worker == <<serving, owner>>
setting == <<frozen, loops, together>>
history == <<late, astray, failures>>
vars == <<worker, setting, gateway, history>>

(* What the worker promises; AsrModelManager implements it. *)
L == INSTANCE ModelLease

Session(k) == k[1]
Of(s) == {k \in Sockets : Session(k) = s}
Ended == {"new", "done"}

TypeOK ==
  /\ serving \in Models \cup {None} /\ owner \in Sessions \cup {None}
  /\ frozen \in [Sessions -> Models]
  /\ streams \in [Sessions -> Sockets \cup {None}]
  /\ stream \in [Sockets -> [mode : {"none", "active", "stopping", "stopped"},
                             work : BOOLEAN, released : BOOLEAN]]
  /\ socket \in [Sockets -> [phase : {"new", "acquiring", "granted", "open",
                                      "waiting", "jammed", "releasing", "released",
                                      "failed", "done"},
                             at : Sockets \cup {None}, started : BOOLEAN, last : BOOLEAN]]
  /\ late \subseteq [session : Sessions, call : {"acquire", "release"}]
  /\ astray \subseteq Sessions /\ failures \in 0..MaxFailures
  /\ loops \in BOOLEAN /\ together \subseteq Sessions

NoStream == [mode |-> "none", work |-> FALSE, released |-> FALSE]
NoSocket(phase) == [phase |-> phase, at |-> None, started |-> FALSE, last |-> FALSE]

Init ==
  /\ L!Init
  /\ frozen \in [Sessions -> Models]
  /\ streams = [s \in Sessions |-> None]
  /\ stream = [k \in Sockets |-> NoStream]
  /\ socket = [k \in Sockets |-> NoSocket("new")]
  /\ late = {} /\ astray = {} /\ failures = 0
  /\ loops = TRUE /\ together = {}

Goes(k, phase) == socket' = [socket EXCEPT ![k].phase = phase]

-----------------------------------------------------------------------------
(* Requests to the worker. *)

CanAcquire(s) == serving = frozen[s] /\ owner \in {None, s}

ExecAcquire(s) == IF CanAcquire(s) THEN L!Acquire(s) ELSE UNCHANGED worker

(* The worker clears the lease only of the session that asks. *)
ExecRelease(s) == IF owner = s THEN L!Release ELSE UNCHANGED worker

Exec(r) == IF r.call = "acquire" THEN ExecAcquire(r.session) ELSE ExecRelease(r.session)

(* The request fails at the gateway: it never arrives, or arrives and the  *)
(* answer does not, or waits in the worker and is executed later.          *)
Lose(r) ==
  /\ failures < MaxFailures /\ failures' = failures + 1
  /\ astray' = astray \cup {r.session}
  /\ \/ UNCHANGED worker /\ UNCHANGED late
     \/ Exec(r) /\ UNCHANGED late
     \/ late' = late \cup {r} /\ UNCHANGED worker

Late(r) ==
  /\ r \in late /\ Exec(r)
  /\ late' = late \ {r}
  /\ UNCHANGED <<setting, gateway, astray, failures>>

-----------------------------------------------------------------------------
(* open: an existing stream is shared, whatever its state; the lease is    *)
(* awaited before the new stream is registered.                            *)

Alone(k) == \A o \in Of(Session(k)) \ {k} : socket[o].phase \in Ended

Open == Cardinality({s \in Sessions : streams[s] # None})

Connect(k) ==
  LET shared == streams[Session(k)] IN
  /\ socket[k].phase = "new"
  /\ together' = IF Alone(k) THEN together ELSE together \cup {Session(k)}
  /\ \/ shared # None
        /\ socket' = [socket EXCEPT ![k].phase = "open", ![k].at = shared]
     \/ shared = None /\ Open >= MaxStreams /\ Goes(k, "done")
     \/ shared = None /\ Open < MaxStreams /\ Goes(k, "acquiring")
  /\ UNCHANGED <<worker, frozen, loops, streams, stream, history>>

Granted(k) ==
  /\ CanAcquire(Session(k)) /\ L!Acquire(Session(k))
  /\ Goes(k, "granted") /\ UNCHANGED history

(* Mutant: a refused acquire does not keep open from going on. *)
RefusedIgnored(k) ==
  /\ ~CanAcquire(Session(k)) /\ Goes(k, "granted")
  /\ UNCHANGED <<worker, history>>

(* 4429: the worker refuses, or the request fails. *)
Refused(k) ==
  /\ \/ ~CanAcquire(Session(k)) /\ UNCHANGED <<worker, history>>
     \/ Lose([session |-> Session(k), call |-> "acquire"])
  /\ Goes(k, "done")

AcquireCall(k) ==
  /\ socket[k].phase = "acquiring"
  /\ Granted(k) \/ Refused(k)
  /\ UNCHANGED <<setting, streams, stream>>

Register(k) ==
  /\ socket[k].phase = "granted"
  /\ stream' = [stream EXCEPT ![k].mode = "active"]
  /\ streams' = [streams EXCEPT ![Session(k)] = k]
  /\ socket' = [socket EXCEPT ![k].phase = "open", ![k].at = k]
  /\ UNCHANGED <<worker, setting, history>>

(* The client has gone before its socket is accepted: the handler ends     *)
(* outside the try whose finally closes the stream.                        *)
AcceptFails(k) ==
  /\ failures < MaxFailures /\ failures' = failures + 1
  /\ socket[k].phase = "open" /\ ~socket[k].started
  /\ Goes(k, "done")
  /\ astray' = astray \cup {Session(k)}
  /\ UNCHANGED <<worker, setting, streams, stream, late>>

(* stream.start, once per socket; a stream that has stopped listens again. *)
Start(k) ==
  LET j == socket[k].at IN
  /\ socket[k].phase = "open" /\ ~socket[k].started
  /\ socket' = [socket EXCEPT ![k].started = TRUE]
  /\ stream' = [stream EXCEPT ![j].mode = IF @ = "stopped" THEN "active" ELSE @]
  /\ UNCHANGED <<worker, setting, streams, history>>

-----------------------------------------------------------------------------
(* stop: refused while one is under way; otherwise it waits for the jobs   *)
(* of the stream, and releases the lease if that was not done yet.         *)

BeginStop(k, st, j, last) ==
  /\ \E w \in BOOLEAN : stream' = [st EXCEPT ![j].mode = "stopping", ![j].work = w]
  /\ socket' = [socket EXCEPT ![k].phase = "waiting", ![k].at = j, ![k].last = last]

(* close_stream: whatever is registered is removed, and stopped. *)
CloseStream(k, st) ==
  LET j == streams[Session(k)] IN
  /\ streams' = [streams EXCEPT ![Session(k)] = None]
  /\ IF j # None /\ st[j].mode = "active"
     THEN BeginStop(k, st, j, TRUE)
     ELSE Goes(k, "done") /\ stream' = st

StopControl(k) ==
  LET j == socket[k].at IN
  /\ socket[k].phase = "open"
  /\ IF stream[j].mode = "active"
     THEN BeginStop(k, stream, j, FALSE) /\ UNCHANGED streams
     ELSE CloseStream(k, stream)
  /\ UNCHANGED <<worker, setting, history>>

(* The socket closes, or the transport or a frame fails. *)
Leave(k) ==
  /\ socket[k].phase = "open" /\ CloseStream(k, stream)
  /\ UNCHANGED <<worker, setting, history>>

(* The frames of another socket still make jobs while the stream stops. *)
Feed(k) ==
  LET j == socket[k].at IN
  /\ socket[k].phase = "open" /\ socket[k].started /\ stream[j].mode = "stopping"
  /\ stream' = [stream EXCEPT ![j].work = TRUE]
  /\ UNCHANGED <<worker, setting, streams, socket, history>>

(* Mutant: the loops pass over a stream that is being stopped. *)
DrainUnlessStopping(j) ==
  /\ stream[j].mode = "active" /\ stream[j].work /\ streams[Session(j)] = j
  /\ stream' = [stream EXCEPT ![j].work = FALSE]
  /\ UNCHANGED <<worker, setting, streams, socket, history>>

(* The loops find the stream of a job in _streams; a job whose stream was  *)
(* removed is dropped and stays counted.  When one loop has ended the other *)
(* may have what the stream waits for.                                     *)
Drain(j) ==
  /\ stream[j].mode = "stopping" /\ stream[j].work /\ streams[Session(j)] = j
  /\ stream' = [stream EXCEPT ![j].work = FALSE]
  /\ UNCHANGED <<worker, setting, streams, socket, history>>

(* The lease goes next, unless the stream released it before. *)
AfterStop(k) == IF stream[socket[k].at].released THEN "released" ELSE "releasing"

(* What was queued is done: stopped.  The event that says so waits while   *)
(* the outbox is full; a closed socket does not empty it.                  *)
Idle(k) ==
  LET j == socket[k].at IN
  /\ socket[k].phase = "waiting" /\ ~stream[j].work
  /\ stream' = [stream EXCEPT ![j].mode = "stopped"]
  /\ \E phase \in {"jammed", AfterStop(k)} : Goes(k, phase)
  /\ UNCHANGED <<worker, setting, streams, history>>

(* The sender makes room. *)
Announced(k) ==
  /\ socket[k].phase = "jammed" /\ Goes(k, AfterStop(k))
  /\ UNCHANGED <<worker, setting, streams, stream, history>>

Released(k) ==
  /\ ExecRelease(Session(k))
  /\ astray' = {s \in astray : s # Session(k) \/ \E r \in late : r.session = s}
  /\ UNCHANGED <<late, failures>>
  /\ Goes(k, "released")

ReleaseCall(k) ==
  /\ socket[k].phase = "releasing"
  /\ \/ Released(k)
     \/ Lose([session |-> Session(k), call |-> "release"]) /\ Goes(k, "failed")
  /\ UNCHANGED <<setting, streams, stream>>

(* stop returns, or raises: close_stream follows, unless this was it. *)
Return(k) ==
  LET st == [stream EXCEPT ![socket[k].at].released = @ \/ socket[k].phase = "released"] IN
  /\ socket[k].phase \in {"released", "failed"}
  /\ IF socket[k].last
     THEN Goes(k, "done") /\ stream' = st /\ UNCHANGED streams
     ELSE CloseStream(k, st)
  /\ UNCHANGED <<worker, setting, history>>

-----------------------------------------------------------------------------
(* The loops, the worker's other clients, its restart, and a crash of the  *)
(* gateway.                                                                *)

(* An exception ends a loop for good, and a full outbox that nobody reads  *)
(* holds it for ever: start starts them once.                              *)
LoopEnds ==
  /\ failures < MaxFailures /\ failures' = failures + 1
  /\ loops /\ loops' = FALSE
  /\ \E s \in Sessions : streams[s] # None
  /\ UNCHANGED <<worker, frozen, together, gateway, late, astray>>

Switch(m) == m # serving /\ L!Switch(m) /\ UNCHANGED <<setting, gateway, history>>

WorkerRestart ==
  /\ failures < MaxFailures /\ failures' = failures + 1
  /\ L!Die /\ late' = {}
  /\ UNCHANGED <<setting, gateway, astray>>

(* Streams and sessions are gone; a session not yet used is a new one.     *)
GatewayCrash ==
  /\ failures < MaxFailures /\ failures' = failures + 1
  /\ \E k \in Sockets : socket[k].phase \notin Ended
  /\ streams' = [s \in Sessions |-> None]
  /\ stream' = [k \in Sockets |-> NoStream]
  /\ socket' = [k \in Sockets |->
       NoSocket(IF \A o \in Of(Session(k)) : socket[o].phase = "new" THEN "new" ELSE "done")]
  /\ astray' = astray \cup (Sessions \cap {owner})
  /\ loops' = TRUE
  /\ UNCHANGED <<worker, frozen, together, late>>

Handler(k) ==
  AcquireCall(k) \/ Register(k) \/ Idle(k) \/ ReleaseCall(k) \/ Return(k) \/ Drain(k)

Next ==
  \/ \E k \in Sockets :
       \/ Connect(k) \/ AcceptFails(k) \/ Start(k) \/ Feed(k)
       \/ StopControl(k) \/ Leave(k) \/ Announced(k)
  \/ \E k \in Sockets : Handler(k)
  \/ \E r \in late : Late(r)
  \/ \E m \in Models \cup {None} : Switch(m)
  \/ LoopEnds \/ WorkerRestart \/ GatewayCrash

Spec == Init /\ [][Next]_vars

(* A coroutine that can go on does, and loops that have not ended serve    *)
(* what is queued.  Nothing is assumed of clients, of the sender or of a   *)
(* loop that has ended: a socket may stay open for ever.                   *)
FairSpec == Spec /\ \A k \in Sockets :
  /\ WF_vars(AcquireCall(k)) /\ WF_vars(Register(k)) /\ WF_vars(Idle(k))
  /\ WF_vars(ReleaseCall(k)) /\ WF_vars(Return(k)) /\ WF_vars(loops /\ Drain(k))

-----------------------------------------------------------------------------
(* A registered stream that takes audio holds the lease, and its frozen    *)
(* model is served.                                                        *)
HoldsLease(s) ==
  (streams[s] # None /\ stream[streams[s]].mode = "active")
    => owner = s /\ serving = frozen[s]

(* open acquires before it registers, and close_stream removes before it   *)
(* releases: while nothing fails, a session keeps its lease whatever the   *)
(* others do, and however often it is opened again, as long as no two of   *)
(* its handlers were there at once (a client that reopens does not know    *)
(* whether its last handler is through).                                   *)
StreamHoldsLease == failures = 0 => \A s \in Sessions \ together : HoldsLease(s)

(* In no run: the same without that exception.  A client that closes and   *)
(* opens again at once loses the lease to the release of its own last stop. *)
ReopenedHoldsLease == failures = 0 => \A s \in Sessions : HoldsLease(s)

(* A stop of session s that may wait for ever: its jobs are of a stream    *)
(* that close_stream removed, or for a loop that has ended; or its last    *)
(* event does not fit into the outbox.                                     *)
StopHangs(k) ==
  \/ socket[k].phase = "jammed"
  \/ LET j == socket[k].at
     IN socket[k].phase = "waiting" /\ stream[j].work /\ (~loops \/ streams[Session(k)] # j)

CutOff(s) == \E k \in Of(s) : StopHangs(k)

(* A handler of the session drives its registered stream, or stands between *)
(* the acquire and the registration, or between a stop and its release,    *)
(* which it will reach.                                                    *)
Driven(s) ==
  \/ /\ streams[s] # None /\ stream[streams[s]].mode = "active"
     /\ \E k \in Of(s) : socket[k].phase = "open"
  \/ \E k \in Of(s) :
       socket[k].phase \in {"granted", "waiting", "releasing"} /\ ~StopHangs(k)

(* In no run.  Every lease is released in the close and finally path of    *)
(* its stream: a session that has it has a handler that will get there.    *)
LeaseAttended == owner # None => Driven(owner)

(* A lease that nobody will give back is left only by a request that       *)
(* failed, by a crash, by a socket that failed as it was accepted, or by a *)
(* stop that may wait for ever; and the next release that succeeds makes   *)
(* up for it.                                                              *)
LeaseHasUser == owner = None \/ owner \in astray \/ Driven(owner) \/ CutOff(owner)

(* The gateway and the worker agree about the lease, both ways.            *)
LeaseAgrees == StreamHoldsLease /\ LeaseHasUser

Here(s) == \E k \in Of(s) : socket[k].phase \in {"acquiring", "granted", "open"}

(* When all sockets of a session have gone its lease comes back, unless    *)
(* its stop hangs or a failure left the lease behind.                      *)
LeaseReturns == \A s \in Sessions :
  owner = s /\ ~Here(s) ~> owner # s \/ Here(s) \/ CutOff(s) \/ s \in astray
=============================================================================
