------------------------- MODULE RealtimeLeaseProofs -------------------------
(***************************************************************************)
(* Theorems about RealtimeLease, for any number of models, sessions,       *)
(* second sockets, places for streams, and failures: the gateway and the   *)
(* worker agree about the lease.                                           *)
(*                                                                         *)
(* Neither half of LeaseAgrees is inductive.  That a leased session has a  *)
(* handler that will give the lease back (LeaseHasUser) needs to know that *)
(* this handler drives the stream that is registered and not one that was  *)
(* replaced, and that its stop will not skip the release because of one    *)
(* that came before: Attended, Fresh and Linked.  That a stream which      *)
(* takes audio holds the lease (StreamHoldsLease) needs the course of a    *)
(* session's only socket from acquire to release: Orderly.                 *)
(***************************************************************************)
EXTENDS RealtimeLease, TLAPS

(* The values of one stream and of one socket handler. *)
StreamType == [mode : {"none", "active", "stopping", "stopped"},
               work : BOOLEAN, released : BOOLEAN]
Phases == {"new", "acquiring", "granted", "open", "waiting", "jammed", "releasing",
           "released", "failed", "done"}
SocketType == [phase : Phases, at : Sockets \cup {None}, started : BOOLEAN, last : BOOLEAN]

(* A session's streams stay with it: what is registered for it and what    *)
(* its sockets drive was created by one of them.  Before a stream is       *)
(* registered nobody drives it, and nothing was released through it.       *)
Driving == {"open", "waiting", "jammed", "releasing", "released", "failed"}

Linked(s) ==
  /\ streams[s] \in Of(s) \cup {None}
  /\ \A k \in Of(s) :
       /\ socket[k].at \in Of(s) \cup {None}
       /\ socket[k].phase \in Driving => socket[k].at # None
       /\ socket[k].phase \in {"new", "acquiring", "granted"} =>
            /\ ~stream[k].released /\ streams[s] # k
            /\ \A o \in Of(s) : socket[o].at # k

(* No release has gone to the worker on behalf of stream j. *)
Fresh(s, j) ==
  /\ ~stream[j].released
  /\ \A o \in Of(s) : socket[o].at = j => socket[o].phase # "released"

(* The handler that will give the lease of s back.  Driven alone is not    *)
(* inductive: a stop skips the release of a stream that was released       *)
(* before, and a socket may drive a stream that another has replaced.      *)
Attended(s) ==
  \/ \E k \in Of(s) : socket[k].phase \in {"granted", "releasing"}
  \/ \E k \in Of(s) : /\ socket[k].phase = "open" /\ socket[k].at = streams[s]
                      /\ stream[streams[s]].mode = "active" /\ Fresh(s, streams[s])
  \/ \E k \in Of(s) : socket[k].phase \in {"waiting", "jammed"} /\ Fresh(s, socket[k].at)

CaredFor(s) == owner = s => s \in astray \/ Attended(s)

(* A request that is still to be executed is one its session gave up. *)
LateAstray == \A r \in late : r.session \in astray

UserInv == (\A s \in Sessions : Linked(s) /\ CaredFor(s)) /\ LateAstray

(* A session whose sockets come one at a time: the one that is there tells *)
(* what is registered, and holds the lease until it stops.                 *)
Held(s) == owner = s /\ serving = frozen[s]

Orderly(s) ==
  /\ \A k, o \in Of(s) : socket[k].phase \notin Ended /\ socket[o].phase \notin Ended => k = o
  /\ streams[s] # None =>
       \E k \in Of(s) : socket[k].phase \in Driving /\ socket[k].at = streams[s]
  /\ \A k \in Of(s) :
       /\ socket[k].phase \in {"granted", "open"} => Held(s)
       /\ socket[k].phase = "open" =>
            streams[s] = socket[k].at /\ stream[socket[k].at].mode = "active"
       /\ socket[k].phase = "waiting" => stream[socket[k].at].mode = "stopping"
       /\ socket[k].phase \in {"jammed", "releasing", "released", "failed"} =>
            stream[socket[k].at].mode = "stopped"
       /\ socket[k].phase \in Driving \ {"open"} /\ socket[k].last => streams[s] = None

HolderInv == failures = 0 => late = {} /\ \A s \in Sessions \ together : Orderly(s)

-----------------------------------------------------------------------------
(* Type correctness: what each helper writes has the type of its           *)
(* variable, and a socket belongs to a session.                            *)
LEMMA SessionOfSocket == ASSUME NEW k \in Sockets PROVE Session(k) \in Sessions
BY LeaseAssumption DEF Sockets, Session

(* The initial state has the types. *)
LEMMA LeaseTypeInit == Init => TypeOK
BY LeaseAssumption DEF Init, L!Init, TypeOK, NoStream, NoSocket

(* A request leaves the worker's model and lease in their types, executed  *)
(* or not.                                                                 *)
LEMMA TypeOfWorker ==
  ASSUME TypeOK, NEW s \in Sessions, \/ ExecAcquire(s) \/ ExecRelease(s)
                                     \/ L!Acquire(s) \/ UNCHANGED worker
  PROVE  serving' \in Models \cup {None} /\ owner' \in Sessions \cup {None}
BY DEF TypeOK, ExecAcquire, ExecRelease, L!Acquire, L!Release, worker

(* So does one that fails, which is noted in astray and may be kept in     *)
(* late.                                                                   *)
LEMMA TypeOfLost ==
  ASSUME TypeOK, NEW s \in Sessions, NEW c \in {"acquire", "release"},
         Lose([session |-> s, call |-> c])
  PROVE  /\ serving' \in Models \cup {None} /\ owner' \in Sessions \cup {None}
         /\ late' \subseteq [session : Sessions, call : {"acquire", "release"}]
         /\ astray' \subseteq Sessions /\ failures' \in 0..MaxFailures
<1>. DEFINE r == [session |-> s, call |-> c]
<1>1. r.session = s /\ r \in [session : Sessions, call : {"acquire", "release"}]
  OBVIOUS
<1>2. failures' \in 0..MaxFailures
  BY LeaseAssumption DEF Lose, TypeOK
<1>3. astray' \subseteq Sessions
  BY <1>1 DEF Lose, TypeOK
<1>4. late' \subseteq [session : Sessions, call : {"acquire", "release"}]
  BY <1>1 DEF Lose, TypeOK
<1>5. \/ ExecAcquire(s) \/ ExecRelease(s) \/ UNCHANGED worker
  BY <1>1 DEF Lose, Exec
<1>. QED
  BY <1>2, <1>3, <1>4, <1>5, TypeOfWorker

(* A handler that only moves on. *)
LEMMA TypeOfGoes ==
  ASSUME TypeOK, NEW k \in Sockets, NEW p \in Phases, Goes(k, p)
  PROVE  socket' \in [Sockets -> SocketType]
BY DEF TypeOK, Goes, Phases, SocketType

(* The beginning of a stop writes the stream and the handler that waits    *)
(* for it.                                                                 *)
LEMMA TypeOfBegin ==
  ASSUME TypeOK, NEW k \in Sockets, NEW st \in [Sockets -> StreamType],
         NEW j \in Sockets \cup {None}, NEW end \in BOOLEAN, BeginStop(k, st, j, end)
  PROVE  socket' \in [Sockets -> SocketType] /\ stream' \in [Sockets -> StreamType]
<1>1. PICK w \in BOOLEAN : stream' = [st EXCEPT ![j].mode = "stopping", ![j].work = w]
  BY DEF BeginStop
<1>2. stream' \in [Sockets -> StreamType]
  BY <1>1 DEF StreamType
<1>3. socket \in [Sockets -> SocketType]
  BY DEF TypeOK, SocketType, Phases
<1>4. socket' = [socket EXCEPT ![k].phase = "waiting", ![k].at = j, ![k].last = end]
  BY DEF BeginStop
<1>. DEFINE a == [socket[k] EXCEPT !.phase = "waiting", !.at = j]
<1>5. a \in SocketType
  BY <1>3 DEF SocketType, Phases
<1>7. [a EXCEPT !.last = end] \in SocketType
  <2>1. [a EXCEPT !.last = TRUE] \in SocketType /\ [a EXCEPT !.last = FALSE] \in SocketType
    BY <1>5 DEF SocketType, Phases
  <2>. QED
    BY <2>1
<1>8. socket' = [socket EXCEPT ![k] = [a EXCEPT !.last = end]]
  BY <1>3, <1>4
<1>6. socket' \in [Sockets -> SocketType]
  BY <1>3, <1>7, <1>8
<1>. QED
  BY <1>2, <1>6

(* close_stream, with the stream it finds or without one. *)
LEMMA TypeOfClose ==
  ASSUME TypeOK, NEW k \in Sockets, NEW st \in [Sockets -> StreamType], CloseStream(k, st)
  PROVE  /\ socket' \in [Sockets -> SocketType]
         /\ stream' \in [Sockets -> StreamType]
         /\ streams' \in [Sessions -> Sockets \cup {None}]
<1>. DEFINE j == streams[Session(k)]
<1>1. j \in Sockets \cup {None}
  BY SessionOfSocket DEF TypeOK
<1>2. streams' \in [Sessions -> Sockets \cup {None}]
  BY DEF CloseStream, TypeOK
<1>3. CASE BeginStop(k, st, j, TRUE)
  BY <1>1, <1>2, <1>3, TypeOfBegin
<1>4. CASE Goes(k, "done") /\ stream' = st
  BY <1>2, <1>4, TypeOfGoes DEF Phases
<1>. QED
  BY <1>3, <1>4 DEF CloseStream

(* Every step keeps the types. *)
LEMMA LeaseTypeStep ==
  ASSUME TypeOK, [Next]_vars
  PROVE  TypeOK'
<1>. USE DEF worker, setting, gateway, history
<1>0. stream \in [Sockets -> StreamType] /\ socket \in [Sockets -> SocketType]
  BY DEF TypeOK, StreamType, SocketType, Phases
<1>1. ASSUME NEW k \in Sockets, Connect(k) PROVE TypeOK'
  <2>1. streams[Session(k)] \in Sockets \cup {None}
    BY SessionOfSocket DEF TypeOK
  <2>2. socket' \in [Sockets -> SocketType]
    BY <1>0, <1>1, <2>1, TypeOfGoes DEF Connect, SocketType, Phases
  <2>3. together' \subseteq Sessions
    BY <1>1, SessionOfSocket DEF Connect, TypeOK
  <2>. QED
    BY <1>1, <2>2, <2>3 DEF Connect, TypeOK, SocketType, Phases
<1>2. ASSUME NEW k \in Sockets, Start(k) \/ Feed(k) \/ Drain(k) PROVE TypeOK'
  <2>1. stream' \in [Sockets -> StreamType]
    <3>1. CASE Start(k)
      <4>. DEFINE j == socket[k].at
                  m == IF stream[j].mode = "stopped" THEN "active" ELSE stream[j].mode
      <4>1. stream' = [stream EXCEPT ![j].mode = m]
        BY <3>1 DEF Start
      <4>2. ASSUME j \in Sockets PROVE m \in {"none", "active", "stopping", "stopped"}
        BY <1>0, <4>2 DEF StreamType
      <4>3. j \notin Sockets => stream' = stream
        BY <1>0, <4>1
      <4>. HIDE DEF m
      <4>. QED
        BY <1>0, <4>1, <4>2, <4>3 DEF StreamType
    <3>2. CASE Feed(k) \/ Drain(k)
      <4>1. \E j \in Sockets \cup {None}, w \in {TRUE, FALSE} :
              stream' = [stream EXCEPT ![j].work = w]
        BY <3>2 DEF Feed, Drain, TypeOK
      <4>2. ASSUME NEW j \in Sockets \cup {None}
            PROVE  /\ [stream EXCEPT ![j].work = TRUE] \in [Sockets -> StreamType]
                   /\ [stream EXCEPT ![j].work = FALSE] \in [Sockets -> StreamType]
        BY <1>0 DEF StreamType
      <4>. QED
        BY <4>1, <4>2
    <3>. QED
      BY <1>2, <3>1, <3>2
  <2>2. socket' \in [Sockets -> SocketType]
    <3>1. CASE Start(k)
      BY <3>1 DEF Start, SocketType, TypeOK, Phases
    <3>2. CASE Feed(k) \/ Drain(k)
      BY <1>0, <3>2 DEF Feed, Drain
    <3>. QED
      BY <1>2, <3>1, <3>2
  <2>. QED
    BY <1>2, <2>1, <2>2 DEF Start, Feed, Drain, TypeOK, StreamType, SocketType, Phases
<1>3. ASSUME NEW k \in Sockets, StopControl(k) \/ Leave(k) PROVE TypeOK'
  <2>1. /\ socket' \in [Sockets -> SocketType]
        /\ stream' \in [Sockets -> StreamType]
        /\ streams' \in [Sessions -> Sockets \cup {None}]
    <3>1. CASE CloseStream(k, stream)
      BY <1>0, <3>1, TypeOfClose
    <3>2. CASE BeginStop(k, stream, socket[k].at, FALSE) /\ UNCHANGED streams
      BY <1>0, <3>2, TypeOfBegin DEF TypeOK
    <3>. QED
      BY <1>3, <3>1, <3>2 DEF StopControl, Leave
  <2>. QED
    BY <1>3, <2>1 DEF StopControl, Leave, TypeOK, StreamType, SocketType, Phases
<1>4. ASSUME NEW k \in Sockets, AcquireCall(k) PROVE TypeOK'
  <2>1. socket' \in [Sockets -> SocketType]
    BY <1>4, TypeOfGoes DEF AcquireCall, Granted, Refused, Phases
  <2>2. /\ serving' \in Models \cup {None} /\ owner' \in Sessions \cup {None}
        /\ late' \subseteq [session : Sessions, call : {"acquire", "release"}]
        /\ astray' \subseteq Sessions /\ failures' \in 0..MaxFailures
    <3>1. CASE Granted(k) \/ UNCHANGED <<worker, history>>
      BY <3>1, TypeOfWorker, SessionOfSocket DEF Granted, TypeOK
    <3>2. CASE Lose([session |-> Session(k), call |-> "acquire"])
      BY <3>2, TypeOfLost, SessionOfSocket
    <3>. QED
      BY <1>4, <3>1, <3>2 DEF AcquireCall, Refused
  <2>. QED
    BY <1>4, <2>1, <2>2 DEF AcquireCall, TypeOK, SocketType, Phases
<1>5. ASSUME NEW k \in Sockets, Register(k) \/ Idle(k) \/ Announced(k) PROVE TypeOK'
  <2>1. socket' \in [Sockets -> SocketType]
    <3>1. CASE Register(k)
      BY <1>0, <3>1 DEF Register, SocketType, Phases
    <3>2. CASE Idle(k) \/ Announced(k)
      BY <3>2, TypeOfGoes DEF Idle, Announced, AfterStop, Phases
    <3>. QED
      BY <1>5, <3>1, <3>2
  <2>2. streams' \in [Sessions -> Sockets \cup {None}]
    BY <1>5 DEF Register, Idle, Announced, TypeOK
  <2>3. stream' \in [Sockets -> StreamType]
    BY <1>0, <1>5 DEF Register, Idle, Announced, StreamType
  <2>4. UNCHANGED <<worker, setting, history>>
    BY <1>5 DEF Register, Idle, Announced
  <2>. QED
    BY <2>1, <2>2, <2>3, <2>4 DEF TypeOK, StreamType, SocketType, Phases
<1>6. ASSUME NEW k \in Sockets, ReleaseCall(k) PROVE TypeOK'
  <2>1. socket' \in [Sockets -> SocketType]
    BY <1>6, TypeOfGoes DEF ReleaseCall, Released, Phases
  <2>2. /\ serving' \in Models \cup {None} /\ owner' \in Sessions \cup {None}
        /\ late' \subseteq [session : Sessions, call : {"acquire", "release"}]
        /\ astray' \subseteq Sessions /\ failures' \in 0..MaxFailures
    <3>1. CASE Released(k)
      BY <3>1, TypeOfWorker, SessionOfSocket DEF Released, TypeOK
    <3>2. CASE Lose([session |-> Session(k), call |-> "release"])
      BY <3>2, TypeOfLost, SessionOfSocket
    <3>. QED
      BY <1>6, <3>1, <3>2 DEF ReleaseCall
  <2>. QED
    BY <1>6, <2>1, <2>2 DEF ReleaseCall, TypeOK, SocketType, Phases
<1>7. ASSUME NEW k \in Sockets, Return(k) PROVE TypeOK'
  <2>. DEFINE st == [stream EXCEPT ![socket[k].at].released = @ \/ socket[k].phase = "released"]
  <2>1. st \in [Sockets -> StreamType]
    BY <1>0 DEF StreamType
  <2>2. /\ socket' \in [Sockets -> SocketType]
        /\ stream' \in [Sockets -> StreamType]
        /\ streams' \in [Sessions -> Sockets \cup {None}]
    <3>1. CASE CloseStream(k, st)
      BY <2>1, <3>1, TypeOfClose
    <3>2. CASE Goes(k, "done") /\ stream' = st /\ UNCHANGED streams
      BY <2>1, <3>2, TypeOfGoes DEF Phases, TypeOK
    <3>. QED
      BY <1>7, <3>1, <3>2 DEF Return
  <2>. QED
    BY <1>7, <2>2 DEF Return, TypeOK, StreamType, SocketType, Phases
<1>8. ASSUME NEW r \in late, Late(r) PROVE TypeOK'
  <2>1. r.session \in Sessions
    BY DEF TypeOK
  <2>2. \/ ExecAcquire(r.session) \/ ExecRelease(r.session)
    BY <1>8 DEF Late, Exec
  <2>3. serving' \in Models \cup {None} /\ owner' \in Sessions \cup {None}
    BY <2>1, <2>2, TypeOfWorker
  <2>. QED
    BY <1>8, <2>3 DEF Late, TypeOK
<1>9. ASSUME NEW m \in Models \cup {None}, Switch(m) PROVE TypeOK'
  BY <1>9 DEF Switch, L!Switch, TypeOK
<1>10. CASE WorkerRestart
  BY <1>10, LeaseAssumption DEF WorkerRestart, L!Die, TypeOK
<1>11. CASE GatewayCrash
  <2>1. /\ streams' \in [Sessions -> Sockets \cup {None}]
        /\ stream' \in [Sockets -> StreamType]
        /\ socket' \in [Sockets -> SocketType]
    BY <1>11 DEF GatewayCrash, NoStream, NoSocket, StreamType, SocketType, Phases
  <2>. QED
    BY <1>11, <2>1, LeaseAssumption DEF GatewayCrash, TypeOK, StreamType, SocketType, Phases
<1>12. CASE UNCHANGED vars
  BY <1>12 DEF vars, TypeOK
<1>13. ASSUME NEW k \in Sockets, AcceptFails(k) PROVE TypeOK'
  <2>1. socket' \in [Sockets -> SocketType]
    BY <1>13, TypeOfGoes DEF AcceptFails, Phases
  <2>2. failures' \in 0..MaxFailures /\ astray' \subseteq Sessions
    BY <1>13, SessionOfSocket, LeaseAssumption DEF AcceptFails, TypeOK
  <2>. QED
    BY <1>13, <2>1, <2>2 DEF AcceptFails, TypeOK, SocketType, Phases
<1>14. CASE LoopEnds
  <2>1. failures' \in 0..MaxFailures /\ loops' \in BOOLEAN
    <3>1. failures < MaxFailures /\ failures' = failures + 1 /\ loops' = FALSE
      BY <1>14 DEF LoopEnds
    <3>2. failures \in 0..MaxFailures /\ MaxFailures \in Nat
      BY LeaseAssumption DEF TypeOK
    <3>3. failures' \in 0..MaxFailures
      BY <3>1, <3>2
    <3>. QED
      BY <3>1, <3>3
  <2>2. UNCHANGED <<worker, gateway, frozen, together, late, astray>>
    BY <1>14 DEF LoopEnds
  <2>3. socket' = socket /\ stream' = stream
    BY <2>2
  <2>4. socket' \in [Sockets -> SocketType] /\ stream' \in [Sockets -> StreamType]
    BY <1>0, <2>3
  <2>5. UNCHANGED <<serving, owner, streams, frozen, together, late, astray>>
    BY <2>2
  <2>. QED
    BY <2>1, <2>4, <2>5 DEF TypeOK, StreamType, SocketType, Phases
<1>. QED
  BY <1>1, <1>2, <1>3, <1>4, <1>5, <1>6, <1>7, <1>8, <1>9, <1>10, <1>11, <1>12, <1>13, <1>14
  DEF Next, Handler

(* Every variable holds a value of the shape the code gives it: the        *)
(* worker's model and lease, the registered streams, the handlers and the  *)
(* requests under way.                                                     *)
THEOREM LeaseTypeCorrect == Spec => []TypeOK
<1>1. TypeOK /\ [Next]_vars => TypeOK'
  BY LeaseTypeStep
<1>. QED
  BY <1>1, LeaseTypeInit, PTL DEF Spec

-----------------------------------------------------------------------------
(* What the helpers of the handlers do, field by field. *)

LEMMA OwnSession ==
  ASSUME NEW k \in Sockets
  PROVE  Session(k) \in Sessions /\ k \in Of(Session(k)) /\ Of(Session(k)) \subseteq Sockets
BY SessionOfSocket DEF Of

(* A handler that only moves on changes its own phase and nothing else. *)
LEMMA GoesEffect ==
  ASSUME TypeOK, NEW k \in Sockets, NEW p \in Phases, Goes(k, p)
  PROVE  /\ socket'[k].phase = p /\ socket'[k].at = socket[k].at
         /\ socket'[k].last = socket[k].last
         /\ \A x \in Sockets \ {k} : socket'[x] = socket[x]
BY DEF TypeOK, Goes

(* A stop that begins changes one stream's mode and one handler. *)
LEMMA BeginEffect ==
  ASSUME TypeOK, NEW k \in Sockets, NEW st \in [Sockets -> StreamType],
         NEW j \in Sockets, NEW end \in BOOLEAN, BeginStop(k, st, j, end)
  PROVE  /\ socket'[k].phase = "waiting" /\ socket'[k].at = j
         /\ \A x \in Sockets \ {k} : socket'[x] = socket[x]
         /\ stream'[j].mode = "stopping"
         /\ \A x \in Sockets : stream'[x].released = st[x].released
         /\ \A x \in Sockets \ {j} : stream'[x] = st[x]
<1>1. PICK w \in BOOLEAN : stream' = [st EXCEPT ![j].mode = "stopping", ![j].work = w]
  BY DEF BeginStop
<1>2. socket' = [socket EXCEPT ![k].phase = "waiting", ![k].at = j, ![k].last = end]
  BY DEF BeginStop
<1>3. /\ socket'[k].phase = "waiting" /\ socket'[k].at = j
      /\ \A x \in Sockets \ {k} : socket'[x] = socket[x]
  BY <1>2 DEF TypeOK
<1>4. /\ stream'[j].mode = "stopping"
      /\ \A x \in Sockets : stream'[x].released = st[x].released
      /\ \A x \in Sockets \ {j} : stream'[x] = st[x]
  BY <1>1 DEF StreamType
<1>. QED
  BY <1>3, <1>4

(* close_stream: the registration goes, and an active stream is stopped. *)
LEMMA CloseEffect ==
  ASSUME TypeOK, NEW k \in Sockets, Linked(Session(k)), NEW st \in [Sockets -> StreamType],
         CloseStream(k, st)
  PROVE  LET s == Session(k)
             j == streams[s]
         IN /\ streams' = [streams EXCEPT ![s] = None]
            /\ \A x \in Sockets \ {k} : socket'[x] = socket[x]
            /\ \A x \in Sockets : stream'[x].released = st[x].released
            /\ \A x \in Sockets : x # j => stream'[x] = st[x]
            /\ \/ /\ j # None /\ st[j].mode = "active" /\ stream'[j].mode = "stopping"
                  /\ socket'[k].phase = "waiting" /\ socket'[k].at = j
               \/ /\ j # None => st[j].mode # "active"
                  /\ stream' = st
                  /\ socket'[k].phase = "done" /\ socket'[k].at = socket[k].at
<1>. DEFINE s == Session(k)
            j == streams[s]
<1>1. j \in Sockets \cup {None}
  BY OwnSession DEF Linked
<1>2. streams' = [streams EXCEPT ![s] = None]
  BY DEF CloseStream
<1>3. CASE j # None /\ st[j].mode = "active" /\ BeginStop(k, st, j, TRUE)
  <2>1. j \in Sockets /\ TRUE \in BOOLEAN
    BY <1>1, <1>3
  <2>2. /\ socket'[k].phase = "waiting" /\ socket'[k].at = j
        /\ \A x \in Sockets \ {k} : socket'[x] = socket[x]
        /\ stream'[j].mode = "stopping"
        /\ \A x \in Sockets : stream'[x].released = st[x].released
        /\ \A x \in Sockets \ {j} : stream'[x] = st[x]
    <3>. HIDE DEF j
    <3>1. BeginStop(k, st, j, TRUE)
      BY <1>3
    <3>. QED
      BY <2>1, <3>1, BeginEffect
  <2>. QED
    BY <1>2, <1>3, <2>2
<1>4. CASE ~(j # None /\ st[j].mode = "active") /\ Goes(k, "done") /\ stream' = st
  BY <1>2, <1>4, GoesEffect DEF Phases
<1>. QED
  BY <1>3, <1>4 DEF CloseStream

-----------------------------------------------------------------------------
(* A handler's step is about its own session. *)

ClientStep(k) ==
  \/ Connect(k) \/ AcceptFails(k) \/ Start(k) \/ Feed(k)
  \/ StopControl(k) \/ Leave(k) \/ Announced(k)

(* What a socket's client and its handler do. *)
Step(k) == ClientStep(k) \/ Handler(k)

(* Nothing of session t is changed. *)
Untouched(t) ==
  /\ streams'[t] = streams[t]
  /\ \A x \in Of(t) : socket'[x] = socket[x] /\ stream'[x] = stream[x]

(* What is said of a session stays true when nothing of it changes. *)
LEMMA UntouchedKept ==
  ASSUME NEW t \in Sessions, Untouched(t)
  PROVE  /\ Linked(t) => Linked(t)'
         /\ Linked(t) /\ Attended(t) => Attended(t)'
         /\ (Held(t) => Held(t)') /\ Linked(t) /\ Orderly(t) => Orderly(t)'
<1>. DEFINE S == Of(t)
<1>0. Of(t)' = Of(t)
  BY DEF Of
<1>1. Linked(t) => Linked(t)'
  BY <1>0 DEF Untouched, Linked
<1>2. ASSUME NEW j \in S, Fresh(t, j) PROVE Fresh(t, j)'
  BY <1>0, <1>2 DEF Untouched, Fresh
<1>3. ASSUME Linked(t), Attended(t) PROVE Attended(t)'
  <2>1. CASE \E k \in S : socket[k].phase \in {"granted", "releasing"}
    BY <1>0, <2>1 DEF Untouched, Attended
  <2>2. CASE \E k \in S : /\ socket[k].phase = "open" /\ socket[k].at = streams[t]
                          /\ stream[streams[t]].mode = "active" /\ Fresh(t, streams[t])
    BY <1>0, <1>2, <1>3, <2>2 DEF Untouched, Attended, Linked, Driving
  <2>3. CASE \E k \in S : socket[k].phase \in {"waiting", "jammed"} /\ Fresh(t, socket[k].at)
    BY <1>0, <1>2, <1>3, <2>3 DEF Untouched, Attended, Linked, Driving
  <2>. QED
    BY <1>3, <2>1, <2>2, <2>3 DEF Attended
<1>4. ASSUME Held(t) => Held(t)', Linked(t), Orderly(t) PROVE Orderly(t)'
  BY <1>0, <1>4 DEF Untouched, Orderly, Linked, Driving
<1>. QED
  BY <1>1, <1>3, <1>4

(* The sockets of two sessions are different ones. *)
LEMMA OthersDisjoint ==
  ASSUME NEW k \in Sockets, NEW t \in Sessions, t # Session(k), NEW x \in Of(t)
  PROVE  x \in Sockets /\ x # k /\ x \notin Of(Session(k))
BY DEF Of

(* close_stream touches the streams of its own session only, because       *)
(* those are the ones registered there and driven by its sockets.          *)
LEMMA CloseUntouched ==
  ASSUME TypeOK, NEW k \in Sockets, Linked(Session(k)), NEW st \in [Sockets -> StreamType],
         \A x \in Sockets : x \notin Of(Session(k)) => st[x] = stream[x],
         CloseStream(k, st), NEW t \in Sessions, t # Session(k)
  PROVE  Untouched(t)
<1>1. Session(k) \in Sessions /\ \A x \in Of(t) : x \in Sockets /\ x # k /\ x \notin Of(Session(k))
  BY OwnSession, OthersDisjoint
<1>2. streams'[t] = streams[t]
  BY <1>1, CloseEffect DEF TypeOK
<1>3. ASSUME NEW x \in Of(t) PROVE socket'[x] = socket[x] /\ stream'[x] = stream[x]
  <2>1. x # streams[Session(k)]
    BY <1>1, LeaseAssumption DEF Linked
  <2>. QED
    BY <1>1, <2>1, CloseEffect
<1>. QED
  BY <1>2, <1>3 DEF Untouched

(* stop returns: the stream remembers a release that was executed. *)
Noted(k) == [stream EXCEPT ![socket[k].at].released = @ \/ socket[k].phase = "released"]

(* The streams as Return finds them: a release that succeeded is noted. *)
LEMMA NotedEffect ==
  ASSUME TypeOK, NEW k \in Sockets
  PROVE  /\ Noted(k) \in [Sockets -> StreamType]
         /\ \A x \in Sockets : /\ Noted(k)[x].mode = stream[x].mode
                               /\ x # socket[k].at => Noted(k)[x] = stream[x]
                               /\ socket[k].phase # "released" =>
                                    Noted(k)[x].released = stream[x].released
<1>1. stream \in [Sockets -> StreamType]
  BY DEF TypeOK, StreamType
<1>2. Noted(k) \in [Sockets -> StreamType]
  BY <1>1 DEF Noted, StreamType
<1>3. ASSUME NEW x \in Sockets, x # socket[k].at PROVE Noted(k)[x] = stream[x]
  BY <1>1, <1>3 DEF Noted
<1>4. ASSUME NEW x \in Sockets, x = socket[k].at
      PROVE  /\ Noted(k)[x].mode = stream[x].mode
             /\ socket[k].phase # "released" => Noted(k)[x].released = stream[x].released
  BY <1>1, <1>4 DEF Noted, StreamType
<1>. QED
  BY <1>2, <1>3, <1>4

(* A step of one session takes nothing from another: not its streams, not  *)
(* the lease it has, not the mark of a failed request.                     *)
LEMMA StepElsewhere ==
  ASSUME TypeOK, NEW k \in Sockets, Linked(Session(k)), Step(k),
         NEW t \in Sessions, t # Session(k)
  PROVE  /\ Untouched(t)
         /\ (owner' = t => owner = t) /\ (Held(t) => Held(t)')
         /\ (t \in astray => t \in astray')
<1>. DEFINE s == Session(k)
<1>0. /\ s \in Sessions /\ k \in Of(s) /\ t # None
      /\ \A x \in Of(t) : x \in Sockets /\ x # k /\ x \notin Of(s)
  BY OwnSession, OthersDisjoint, LeaseAssumption
<1>1. socket[k].at \in Of(s) \cup {None}
  BY <1>0 DEF Linked
<1>2. stream \in [Sockets -> StreamType] /\ socket \in [Sockets -> SocketType]
  BY DEF TypeOK, StreamType, SocketType, Phases
<1>3. Untouched(t)
  <2>1. CASE Connect(k)
    BY <1>0, <1>2, <2>1 DEF Connect, Goes, Untouched
  <2>2. CASE Start(k) \/ Feed(k)
    BY <1>0, <1>1, <1>2, <2>2, LeaseAssumption DEF Start, Feed, Untouched
  <2>3. CASE StopControl(k)
    <3>1. CASE CloseStream(k, stream)
      BY <1>2, <3>1, CloseUntouched
    <3>2. CASE BeginStop(k, stream, socket[k].at, FALSE) /\ UNCHANGED streams
      BY <1>0, <1>1, <1>2, <3>2, LeaseAssumption DEF BeginStop, Untouched
    <3>. QED
      BY <2>3, <3>1, <3>2 DEF StopControl
  <2>4. CASE Leave(k)
    BY <1>2, <2>4, CloseUntouched DEF Leave
  <2>5. CASE AcquireCall(k) \/ ReleaseCall(k)
    BY <1>0, <1>2, <2>5 DEF AcquireCall, Granted, Refused, ReleaseCall, Released, Goes,
       Untouched
  <2>6. CASE Register(k) \/ Drain(k)
    BY <1>0, <1>2, <2>6 DEF Register, Drain, Untouched, TypeOK
  <2>7. CASE Idle(k)
    BY <1>0, <1>1, <1>2, <2>7, LeaseAssumption DEF Idle, Goes, Untouched
  <2>9. CASE AcceptFails(k) \/ Announced(k)
    BY <1>0, <1>2, <2>9 DEF AcceptFails, Announced, Goes, Untouched
  <2>8. CASE Return(k)
    <3>1. \A x \in Sockets : x \notin Of(s) => Noted(k)[x] = stream[x]
      BY <1>1, NotedEffect, LeaseAssumption
    <3>2. CASE CloseStream(k, Noted(k))
      BY <3>1, <3>2, NotedEffect, CloseUntouched
    <3>3. CASE Goes(k, "done") /\ stream' = Noted(k) /\ UNCHANGED streams
      BY <1>0, <1>2, <3>1, <3>3 DEF Goes, Untouched
    <3>. QED
      BY <2>8, <3>2, <3>3 DEF Return, Noted
  <2>. QED
    BY <2>1, <2>2, <2>3, <2>4, <2>5, <2>6, <2>7, <2>8, <2>9 DEF Step, ClientStep, Handler
<1>4. (owner' = t => owner = t) /\ (Held(t) => Held(t)') /\ (t \in astray => t \in astray')
  <2>1. CASE AcquireCall(k)
    <3>1. \/ L!Acquire(s) \/ UNCHANGED worker
          \/ Exec([session |-> s, call |-> "acquire"])
      BY <2>1 DEF AcquireCall, Granted, Refused, Lose
    <3>2. \/ UNCHANGED worker
          \/ serving' = serving /\ owner \in {None, s} /\ owner' = s
      BY <3>1 DEF Exec, ExecAcquire, L!Acquire
    <3>3. astray' = astray \/ astray' = astray \cup {s}
      BY <2>1 DEF AcquireCall, Granted, Refused, Lose, history
    <3>. QED
      BY <1>0, <2>1, <3>2, <3>3 DEF AcquireCall, Held, worker, setting
  <2>2. CASE ReleaseCall(k)
    <3>1. \/ ExecRelease(s) \/ UNCHANGED worker
          \/ Exec([session |-> s, call |-> "release"])
      BY <2>2 DEF ReleaseCall, Released, Lose
    <3>2. \/ UNCHANGED worker
          \/ serving' = serving /\ owner = s /\ owner' = None
      BY <3>1 DEF Exec, ExecRelease, L!Release
    <3>3. t \in astray => t \in astray'
      BY <2>2 DEF ReleaseCall, Released, Lose
    <3>. QED
      BY <1>0, <2>2, <3>2, <3>3 DEF ReleaseCall, Held, worker, setting
  <2>3. CASE ~AcquireCall(k) /\ ~ReleaseCall(k)
    BY <2>3 DEF Step, ClientStep, Handler, Connect, Start, Feed, StopControl, Leave,
       Register, Idle, Return, Drain, AcceptFails, Announced, worker, setting, history, Held
  <2>. QED
    BY <2>1, <2>2, <2>3
<1>. QED
  BY <1>3, <1>4

-----------------------------------------------------------------------------
(* Linked, and who attends to the lease, over the steps of a session's own *)
(* handlers.                                                               *)

Moves(k) == \A x \in Sockets \ {k} : socket'[x] = socket[x]

(* A stream stays fresh unless a handler that drives it releases. *)
LEMMA FreshKept ==
  ASSUME NEW s \in Sessions, NEW k \in Of(s), Moves(k), NEW j \in Of(s), Fresh(s, j),
         stream'[j].released = stream[j].released,
         socket'[k].phase = "released" => socket'[k].at # j
  PROVE  Fresh(s, j)'
<1>1. Of(s)' = Of(s) /\ Of(s) \subseteq Sockets
  BY DEF Of
<1>. QED
  BY <1>1 DEF Fresh, Moves

(* close_stream loses no attendance: an active stream that it removes it   *)
(* also stops, and of any other the lease is attended to by another        *)
(* handler.                                                                *)
LEMMA CloseAttended ==
  ASSUME TypeOK, NEW k \in Sockets, Linked(Session(k)), NEW st \in [Sockets -> StreamType],
         socket[k].phase \in {"open", "released", "failed"},
         \A x \in Sockets : /\ st[x].mode = stream[x].mode
                            /\ x # socket[k].at => st[x] = stream[x]
                            /\ socket[k].phase # "released" =>
                                 st[x].released = stream[x].released,
         CloseStream(k, st)
  PROVE  Linked(Session(k))' /\ (Attended(Session(k)) => Attended(Session(k))')
<1>. DEFINE s == Session(k)
            j == streams[s]
<1>0. /\ s \in Sessions /\ k \in Of(s) /\ Of(s) \subseteq Sockets /\ Of(s)' = Of(s)
      /\ None \notin Sockets
  BY OwnSession, LeaseAssumption DEF Of
<1>1. /\ streams'[s] = None
      /\ \A x \in Sockets \ {k} : socket'[x] = socket[x]
      /\ \A x \in Sockets : stream'[x].released = st[x].released
      /\ \A x \in Sockets : x # j => stream'[x] = st[x]
      /\ \/ /\ j # None /\ st[j].mode = "active" /\ stream'[j].mode = "stopping"
            /\ socket'[k].phase = "waiting" /\ socket'[k].at = j
         \/ /\ j # None => st[j].mode # "active"
            /\ stream' = st
            /\ socket'[k].phase = "done" /\ socket'[k].at = socket[k].at
  BY <1>0, CloseEffect DEF TypeOK
<1>2. Linked(s)'
  <2>1. \A x \in Of(s) : socket'[x].at \in Of(s) \cup {None}
    BY <1>0, <1>1 DEF Linked
  <2>2. \A x \in Of(s) : socket'[x].phase \in Driving => socket'[x].at # None
    BY <1>0, <1>1 DEF Linked, Driving
  <2>3. ASSUME NEW x \in Of(s), socket'[x].phase \in {"new", "acquiring", "granted"}
        PROVE  /\ ~stream'[x].released
               /\ \A o \in Of(s) : socket'[o].at # x
    <3>1. x # k /\ socket[x].phase \in {"new", "acquiring", "granted"}
      BY <1>0, <1>1, <2>3
    <3>2. ~stream[x].released /\ x # j /\ \A o \in Of(s) : socket[o].at # x
      BY <3>1 DEF Linked
    <3>3. st[x] = stream[x]
      BY <1>0, <3>2
    <3>. QED
      BY <1>0, <1>1, <3>2, <3>3
  <2>. QED
    BY <1>0, <1>1, <2>1, <2>2, <2>3 DEF Linked
<1>3. ASSUME NEW x \in Of(s), Fresh(s, x) PROVE Fresh(s, x)'
  <2>1. x = socket[k].at => socket[k].phase # "released"
    BY <1>0, <1>3 DEF Fresh
  <2>2. stream'[x].released = stream[x].released
    BY <1>0, <1>1, <2>1
  <2>3. socket'[k].phase # "released" /\ Moves(k)
    BY <1>1 DEF Moves
  <2>. QED
    BY <1>0, <1>3, <2>2, <2>3, FreshKept
<1>4. ASSUME Attended(s) PROVE Attended(s)'
  <2>1. CASE \E x \in Of(s) : socket[x].phase \in {"granted", "releasing"}
    <3>1. PICK x \in Of(s) : socket[x].phase \in {"granted", "releasing"}
      BY <2>1
    <3>2. socket'[x] = socket[x]
      BY <1>0, <1>1, <3>1
    <3>. QED
      BY <1>0, <3>1, <3>2 DEF Attended
  <2>2. CASE \E x \in Of(s) : /\ socket[x].phase = "open" /\ socket[x].at = j
                              /\ stream[j].mode = "active" /\ Fresh(s, j)
    <3>1. PICK x \in Of(s) : /\ socket[x].phase = "open" /\ socket[x].at = j
                             /\ stream[j].mode = "active" /\ Fresh(s, j)
      BY <2>2
    <3>2. PICK a \in Of(s) : a = j
      BY <3>1 DEF Linked, Driving
    <3>3. socket'[k].phase = "waiting" /\ socket'[k].at = a
      BY <1>0, <1>1, <3>1, <3>2
    <3>4. Fresh(s, a)'
      BY <1>3, <3>1, <3>2
    <3>. QED
      BY <1>0, <3>3, <3>4 DEF Attended, Fresh
  <2>3. CASE \E x \in Of(s) : socket[x].phase \in {"waiting", "jammed"} /\ Fresh(s, socket[x].at)
    <3>1. PICK x \in Of(s) : socket[x].phase \in {"waiting", "jammed"} /\ Fresh(s, socket[x].at)
      BY <2>3
    <3>2. socket[x].at \in Of(s) /\ socket'[x] = socket[x]
      BY <1>0, <1>1, <3>1 DEF Linked, Driving
    <3>3. Fresh(s, socket[x].at)'
      BY <1>3, <3>1, <3>2 DEF Fresh
    <3>. QED
      BY <1>0, <3>1, <3>2, <3>3 DEF Attended
  <2>. QED
    BY <1>4, <2>1, <2>2, <2>3 DEF Attended
<1>. QED
  BY <1>2, <1>4

(* A handler that nobody relies on takes its step. *)
LEMMA AttendedKept ==
  ASSUME NEW s \in Sessions, NEW k \in Of(s), Linked(s), Attended(s), Moves(k),
         streams'[s] = streams[s],
         \A x \in Of(s) : Fresh(s, x) =>
           /\ Fresh(s, x)'
           /\ stream[x].mode = "active" => stream'[x].mode = "active",
         (\/ socket[k].phase \in {"granted", "releasing", "open"}
          \/ socket[k].phase \in {"waiting", "jammed"} /\ Fresh(s, socket[k].at))
            => socket'[k].phase = socket[k].phase /\ socket'[k].at = socket[k].at
  PROVE  Attended(s)'
<1>0. Of(s)' = Of(s) /\ Of(s) \subseteq Sockets
  BY DEF Of
<1>1. CASE \E x \in Of(s) : socket[x].phase \in {"granted", "releasing"}
  <2>1. PICK x \in Of(s) : socket[x].phase \in {"granted", "releasing"}
    BY <1>1
  <2>2. socket'[x].phase \in {"granted", "releasing"}
    BY <1>0, <2>1 DEF Moves
  <2>. QED
    BY <1>0, <2>2 DEF Attended
<1>2. CASE \E x \in Of(s) : /\ socket[x].phase = "open" /\ socket[x].at = streams[s]
                            /\ stream[streams[s]].mode = "active" /\ Fresh(s, streams[s])
  <2>1. PICK x \in Of(s) : /\ socket[x].phase = "open" /\ socket[x].at = streams[s]
                           /\ stream[streams[s]].mode = "active" /\ Fresh(s, streams[s])
    BY <1>2
  <2>2. PICK a \in Of(s) : a = streams[s]
    BY <2>1 DEF Linked, Driving
  <2>3. socket'[x].phase = "open" /\ socket'[x].at = a
    BY <1>0, <2>1, <2>2 DEF Moves
  <2>4. Fresh(s, a)' /\ stream'[a].mode = "active" /\ streams'[s] = a
    BY <2>1, <2>2
  <2>. QED
    BY <1>0, <2>3, <2>4 DEF Attended, Fresh
<1>3. CASE \E x \in Of(s) : socket[x].phase \in {"waiting", "jammed"} /\ Fresh(s, socket[x].at)
  <2>1. PICK x \in Of(s) : socket[x].phase \in {"waiting", "jammed"} /\ Fresh(s, socket[x].at)
    BY <1>3
  <2>2. PICK a \in Of(s) : a = socket[x].at
    BY <2>1 DEF Linked, Driving
  <2>3. socket'[x].phase \in {"waiting", "jammed"} /\ socket'[x].at = a
    BY <1>0, <2>1, <2>2 DEF Moves
  <2>4. Fresh(s, a)'
    BY <2>1, <2>2
  <2>. QED
    BY <1>0, <2>3, <2>4 DEF Attended, Fresh
<1>. QED
  BY <1>1, <1>2, <1>3 DEF Attended

(* A socket that opens attends to the lease or leaves that as it was. *)
LEMMA ConnectAttended ==
  ASSUME TypeOK, NEW k \in Sockets, Linked(Session(k)), Connect(k)
  PROVE  Linked(Session(k))' /\ (Attended(Session(k)) => Attended(Session(k))')
<1>. DEFINE s == Session(k)
<1>0. /\ s \in Sessions /\ k \in Of(s) /\ Of(s) \subseteq Sockets /\ Of(s)' = Of(s)
      /\ None \notin Sockets
  BY OwnSession, LeaseAssumption DEF Of
<1>1. /\ Moves(k) /\ stream' = stream /\ streams' = streams /\ socket[k].phase = "new"
      /\ \/ /\ socket'[k].phase \in {"acquiring", "done"} /\ socket'[k].at = socket[k].at
         \/ /\ socket'[k].phase = "open" /\ socket'[k].at = streams[s] /\ streams[s] # None
  BY <1>0 DEF Connect, Goes, Moves, TypeOK
<1>2. Linked(s)'
  BY <1>0, <1>1 DEF Linked, Moves, Driving
<1>3. ASSUME NEW x \in Of(s), Fresh(s, x) PROVE Fresh(s, x)'
  BY <1>0, <1>1, <1>3, FreshKept
<1>4. Attended(s) => Attended(s)'
  BY <1>0, <1>1, <1>3, AttendedKept
<1>. QED
  BY <1>2, <1>4

(* Starting, feeding and draining a stream leave its attendance as it      *)
(* was.                                                                    *)
LEMMA StayAttended ==
  ASSUME TypeOK, NEW k \in Sockets, Linked(Session(k)), Start(k) \/ Feed(k) \/ Drain(k)
  PROVE  Linked(Session(k))' /\ (Attended(Session(k)) => Attended(Session(k))')
<1>. DEFINE s == Session(k)
<1>0. /\ s \in Sessions /\ k \in Of(s) /\ Of(s) \subseteq Sockets /\ Of(s)' = Of(s)
      /\ None \notin Sockets
  BY OwnSession, LeaseAssumption DEF Of
<1>1. /\ Moves(k) /\ streams' = streams
      /\ socket'[k].phase = socket[k].phase /\ socket'[k].at = socket[k].at
  BY DEF Start, Feed, Drain, Moves, TypeOK
<1>2. \A x \in Sockets : /\ stream'[x].released = stream[x].released
                         /\ stream[x].mode = "active" => stream'[x].mode = "active"
  <2>1. stream \in [Sockets -> StreamType]
    BY DEF TypeOK, StreamType
  <2>. QED
    BY <2>1 DEF Start, Feed, Drain, StreamType
<1>3. Linked(s)'
  BY <1>0, <1>1, <1>2 DEF Linked, Moves, Driving
<1>4. ASSUME NEW x \in Of(s), Fresh(s, x) PROVE Fresh(s, x)'
  BY <1>0, <1>1, <1>2, <1>4 DEF Fresh, Moves
<1>5. Attended(s) => Attended(s)'
  BY <1>0, <1>1, <1>2, <1>4, AttendedKept
<1>. QED
  BY <1>3, <1>5

(* A stop control and a departure stop the stream or find it stopped. *)
LEMMA StopAttended ==
  ASSUME TypeOK, NEW k \in Sockets, Linked(Session(k)), StopControl(k) \/ Leave(k)
  PROVE  Linked(Session(k))' /\ (Attended(Session(k)) => Attended(Session(k))')
<1>. DEFINE s == Session(k)
<1>0. /\ s \in Sessions /\ k \in Of(s) /\ Of(s) \subseteq Sockets /\ Of(s)' = Of(s)
      /\ None \notin Sockets
      /\ stream \in [Sockets -> StreamType] /\ socket[k].phase = "open"
  BY OwnSession, LeaseAssumption DEF Of, TypeOK, StreamType, StopControl, Leave
<1>1. CASE CloseStream(k, stream)
  BY <1>0, <1>1, CloseAttended
<1>2. CASE /\ stream[socket[k].at].mode = "active"
           /\ BeginStop(k, stream, socket[k].at, FALSE) /\ UNCHANGED streams
  <2>1. PICK j \in Of(s) : j = socket[k].at
    BY <1>0 DEF Linked, Driving
  <2>2. BeginStop(k, stream, j, FALSE) /\ j \in Sockets /\ FALSE \in BOOLEAN
    BY <1>0, <1>2, <2>1
  <2>3. /\ socket'[k].phase = "waiting" /\ socket'[k].at = j
        /\ \A x \in Sockets \ {k} : socket'[x] = socket[x]
        /\ stream'[j].mode = "stopping"
        /\ \A x \in Sockets : stream'[x].released = stream[x].released
        /\ \A x \in Sockets \ {j} : stream'[x] = stream[x]
    <3>1. stream \in [Sockets -> StreamType]
      BY <1>0
    <3>. QED
      BY <2>2, <3>1, BeginEffect
  <2>4. Linked(s)'
    BY <1>0, <1>2, <2>1, <2>3 DEF Linked, Driving
  <2>5. ASSUME NEW x \in Of(s), Fresh(s, x) PROVE Fresh(s, x)'
    BY <1>0, <2>3, <2>5 DEF Fresh
  <2>6. CASE Fresh(s, j)
    <3>1. Fresh(s, j)'
      BY <2>5, <2>6
    <3>. QED
      <4>1. /\ socket'[k].phase = "waiting" /\ socket'[k].at = j
            /\ k \in Of(s) /\ Of(s)' = Of(s)
        BY <1>0, <2>3
      <4>2. (\E x \in Of(s) : socket[x].phase \in {"waiting", "jammed"} /\ Fresh(s, socket[x].at))'
        BY <3>1, <4>1 DEF Fresh
      <4>. QED
        BY <2>4, <4>2 DEF Attended
  <2>7. ASSUME ~Fresh(s, j), Attended(s) PROVE Attended(s)'
    <3>1. CASE \E x \in Of(s) : socket[x].phase \in {"granted", "releasing"}
      <4>1. PICK x \in Of(s) : socket[x].phase \in {"granted", "releasing"}
        BY <3>1
      <4>2. socket'[x].phase \in {"granted", "releasing"}
        BY <1>0, <2>3, <4>1
      <4>. QED
        BY <1>0, <4>2 DEF Attended
    <3>2. CASE \E x \in Of(s) : /\ socket[x].phase = "open" /\ socket[x].at = streams[s]
                                /\ stream[streams[s]].mode = "active" /\ Fresh(s, streams[s])
      <4>1. PICK x \in Of(s) : /\ socket[x].phase = "open" /\ socket[x].at = streams[s]
                               /\ stream[streams[s]].mode = "active" /\ Fresh(s, streams[s])
        BY <3>2
      <4>2. PICK a \in Of(s) : a = streams[s]
        BY <4>1 DEF Linked, Driving
      <4>3. a # j /\ x # k
        BY <2>1, <2>7, <4>1, <4>2
      <4>4. /\ socket'[x] = socket[x] /\ stream'[a] = stream[a] /\ streams'[s] = a
            /\ Fresh(s, a)'
        BY <1>0, <1>2, <2>3, <2>5, <4>1, <4>2, <4>3
      <4>. QED
        BY <1>0, <4>1, <4>2, <4>4 DEF Attended, Fresh
    <3>3. CASE \E x \in Of(s) : socket[x].phase \in {"waiting", "jammed"} /\ Fresh(s, socket[x].at)
      <4>1. PICK x \in Of(s) : socket[x].phase \in {"waiting", "jammed"} /\ Fresh(s, socket[x].at)
        BY <3>3
      <4>2. PICK a \in Of(s) : a = socket[x].at
        BY <4>1 DEF Linked, Driving
      <4>3. socket'[x] = socket[x] /\ Fresh(s, a)'
        BY <1>0, <2>3, <2>5, <4>1, <4>2
      <4>. QED
        BY <1>0, <4>1, <4>2, <4>3 DEF Attended, Fresh
    <3>. QED
      BY <2>7, <3>1, <3>2, <3>3 DEF Attended
  <2>. QED
    BY <2>4, <2>6, <2>7
<1>. QED
  BY <1>1, <1>2 DEF StopControl, Leave

(* The handler that registers its new stream attends to it. *)
LEMMA RegisterAttended ==
  ASSUME TypeOK, NEW k \in Sockets, Linked(Session(k)), Register(k)
  PROVE  Linked(Session(k))' /\ Attended(Session(k))'
<1>. DEFINE s == Session(k)
<1>0. /\ s \in Sessions /\ k \in Of(s) /\ Of(s) \subseteq Sockets /\ Of(s)' = Of(s)
      /\ None \notin Sockets
  BY OwnSession, LeaseAssumption DEF Of
<1>1. /\ socket'[k].phase = "open" /\ socket'[k].at = k /\ Moves(k)
      /\ socket[k].phase = "granted"
  BY DEF Register, Moves, TypeOK
<1>2. /\ streams'[s] = k /\ stream'[k].mode = "active"
      /\ \A x \in Sockets : stream'[x].released = stream[x].released
  <2>1. stream \in [Sockets -> StreamType]
    BY DEF TypeOK, StreamType
  <2>. QED
    BY <1>0, <2>1 DEF Register, TypeOK, StreamType
<1>3. ~stream[k].released /\ \A o \in Of(s) : socket[o].at # k
  BY <1>0, <1>1 DEF Linked
<1>4. Fresh(s, k)'
  BY <1>0, <1>1, <1>2, <1>3 DEF Fresh, Moves
<1>5. Linked(s)'
  BY <1>0, <1>1, <1>2 DEF Linked, Moves, Driving
<1>. QED
  BY <1>0, <1>1, <1>2, <1>4, <1>5 DEF Attended

(* A stop whose jobs are done goes on to its last event and to the         *)
(* release, which it skips only for a stream that was released before, and *)
(* that one is not Fresh.                                                  *)
LEMMA IdleAttended ==
  ASSUME TypeOK, NEW k \in Sockets, Linked(Session(k)), Idle(k) \/ Announced(k)
  PROVE  Linked(Session(k))' /\ (Attended(Session(k)) => Attended(Session(k))')
<1>. DEFINE s == Session(k)
<1>0. /\ s \in Sessions /\ k \in Of(s) /\ Of(s) \subseteq Sockets /\ Of(s)' = Of(s)
      /\ None \notin Sockets /\ socket[k].phase \in {"waiting", "jammed"}
  BY OwnSession, LeaseAssumption DEF Of, Idle, Announced
<1>1. PICK j \in Of(s) : j = socket[k].at
  BY <1>0 DEF Linked, Driving
<1>2. PICK phase \in {"jammed", AfterStop(k)} : Goes(k, phase) /\ streams' = streams
  BY DEF Idle, Announced
<1>3. /\ Moves(k) /\ socket'[k].at = j
      /\ socket'[k].phase \in {"jammed", IF stream[j].released THEN "released" ELSE "releasing"}
  BY <1>1, <1>2 DEF AfterStop, Goes, Moves, TypeOK
<1>4. /\ \A x \in Sockets : stream'[x].released = stream[x].released
      /\ \A x \in Sockets \ {j} : stream'[x] = stream[x]
  <2>1. stream \in [Sockets -> StreamType]
    BY DEF TypeOK, StreamType
  <2>. QED
    BY <1>0, <1>1, <2>1 DEF Idle, Announced, StreamType
<1>5. Linked(s)'
  BY <1>0, <1>1, <1>2, <1>3, <1>4 DEF Linked, Moves, Driving
<1>6. CASE socket'[k].phase = "releasing"
  BY <1>0, <1>5, <1>6 DEF Attended
<1>7. CASE Fresh(s, j) /\ socket'[k].phase # "releasing"
  <2>1. socket'[k].phase = "jammed"
    BY <1>3, <1>7 DEF Fresh
  <2>2. Fresh(s, j)'
    BY <1>0, <1>3, <1>4, <1>7, <2>1, FreshKept
  <2>. QED
    BY <1>0, <1>3, <1>5, <2>1, <2>2 DEF Attended, Fresh
<1>8. CASE ~Fresh(s, j) /\ socket'[k].phase # "releasing"
  <2>1. ASSUME NEW x \in Of(s), Fresh(s, x)
        PROVE  Fresh(s, x)' /\ stream'[x] = stream[x]
    BY <1>0, <1>3, <1>4, <1>8, <2>1, FreshKept
  <2>. QED
    BY <1>0, <1>1, <1>2, <1>3, <1>5, <1>8, <2>1, AttendedKept
<1>. QED
  BY <1>6, <1>7, <1>8

(* A stop that returns closes the stream, or ends its handler; it          *)
(* attended to nothing any more.                                           *)
LEMMA ReturnAttended ==
  ASSUME TypeOK, NEW k \in Sockets, Linked(Session(k)), Return(k)
  PROVE  Linked(Session(k))' /\ (Attended(Session(k)) => Attended(Session(k))')
<1>. DEFINE s == Session(k)
<1>0. /\ s \in Sessions /\ k \in Of(s) /\ Of(s) \subseteq Sockets /\ Of(s)' = Of(s)
      /\ None \notin Sockets /\ socket[k].phase \in {"released", "failed"}
  BY OwnSession, LeaseAssumption DEF Of, Return
<1>1. CASE CloseStream(k, Noted(k))
  BY <1>0, <1>1, NotedEffect, CloseAttended
<1>2. CASE Goes(k, "done") /\ stream' = Noted(k) /\ UNCHANGED streams
  <2>1. /\ Moves(k) /\ socket'[k].phase = "done" /\ socket'[k].at = socket[k].at
    BY <1>2, GoesEffect DEF Moves, Phases
  <2>2. \A x \in Sockets : /\ stream'[x].mode = stream[x].mode
                           /\ x # socket[k].at => stream'[x] = stream[x]
                           /\ socket[k].phase # "released" =>
                                stream'[x].released = stream[x].released
    BY <1>2, NotedEffect
  <2>3. Linked(s)'
    BY <1>0, <1>2, <2>1, <2>2 DEF Linked, Moves, Driving
  <2>4. ASSUME NEW x \in Of(s), Fresh(s, x) PROVE Fresh(s, x)'
    <3>1. x = socket[k].at => socket[k].phase # "released"
      BY <1>0, <2>4 DEF Fresh
    <3>2. stream'[x].released = stream[x].released
      BY <1>0, <2>2, <3>1
    <3>. QED
      BY <1>0, <2>1, <2>4, <3>2, FreshKept
  <2>5. Attended(s) => Attended(s)'
    BY <1>0, <1>2, <2>1, <2>2, <2>4, AttendedKept
  <2>. QED
    BY <2>3, <2>5
<1>. QED
  BY <1>1, <1>2 DEF Return, Noted

(* After acquire the handler holds the lease, or the session's request     *)
(* failed.                                                                 *)
LEMMA AcquireCaredFor ==
  ASSUME TypeOK, NEW k \in Sockets, Linked(Session(k)), CaredFor(Session(k)), AcquireCall(k)
  PROVE  Linked(Session(k))' /\ CaredFor(Session(k))'
<1>. DEFINE s == Session(k)
<1>0. /\ s \in Sessions /\ k \in Of(s) /\ Of(s) \subseteq Sockets /\ Of(s)' = Of(s)
      /\ socket[k].phase = "acquiring"
  BY OwnSession DEF Of, AcquireCall
<1>1. /\ Moves(k) /\ streams' = streams /\ stream' = stream
      /\ socket'[k].phase \in {"granted", "done"} /\ socket'[k].at = socket[k].at
  BY GoesEffect DEF AcquireCall, Granted, Refused, Moves, Phases
<1>2. Linked(s)'
  BY <1>0, <1>1 DEF Linked, Moves, Driving
<1>3. CASE Granted(k)
  <2>1. socket'[k].phase = "granted"
    BY <1>3, GoesEffect DEF Granted, Phases
  <2>. QED
    BY <1>0, <1>2, <2>1 DEF CaredFor, Attended
<1>4. CASE UNCHANGED <<worker, history>>
  <2>1. ASSUME NEW x \in Of(s), Fresh(s, x) PROVE Fresh(s, x)'
    BY <1>0, <1>1, <2>1, FreshKept
  <2>2. Attended(s) => Attended(s)'
    BY <1>0, <1>1, <1>2, <2>1, AttendedKept
  <2>. QED
    BY <1>2, <1>4, <2>2 DEF CaredFor, worker, history
<1>5. CASE Lose([session |-> s, call |-> "acquire"])
  BY <1>2, <1>5 DEF Lose, CaredFor
<1>. QED
  BY <1>3, <1>4, <1>5 DEF AcquireCall, Refused

(* After release the lease is free, or the session's request failed. *)
LEMMA ReleaseCaredFor ==
  ASSUME TypeOK, NEW k \in Sockets, Linked(Session(k)), ReleaseCall(k)
  PROVE  Linked(Session(k))' /\ CaredFor(Session(k))'
<1>. DEFINE s == Session(k)
<1>0. /\ s \in Sessions /\ k \in Of(s) /\ Of(s) \subseteq Sockets /\ Of(s)' = Of(s)
      /\ socket[k].phase = "releasing" /\ s # None
  BY OwnSession, LeaseAssumption DEF Of, ReleaseCall
<1>1. /\ Moves(k) /\ streams' = streams /\ stream' = stream
      /\ socket'[k].phase \in {"released", "failed"} /\ socket'[k].at = socket[k].at
  BY GoesEffect DEF ReleaseCall, Released, Moves, Phases
<1>2. Linked(s)'
  BY <1>0, <1>1 DEF Linked, Moves, Driving
<1>3. CASE Released(k)
  <2>1. owner' # s
    BY <1>0, <1>3 DEF Released, ExecRelease, L!Release, worker
  <2>. QED
    BY <1>2, <2>1 DEF CaredFor
<1>4. CASE Lose([session |-> s, call |-> "release"])
  BY <1>2, <1>4 DEF Lose, CaredFor
<1>. QED
  BY <1>3, <1>4 DEF ReleaseCall

(* A socket that fails as it is accepted leaves its stream to nobody. *)
LEMMA AcceptCaredFor ==
  ASSUME TypeOK, NEW k \in Sockets, Linked(Session(k)), AcceptFails(k)
  PROVE  Linked(Session(k))' /\ CaredFor(Session(k))'
<1>. DEFINE s == Session(k)
<1>0. /\ s \in Sessions /\ k \in Of(s) /\ Of(s) \subseteq Sockets /\ Of(s)' = Of(s)
  BY OwnSession DEF Of
<1>1. /\ Moves(k) /\ streams' = streams /\ stream' = stream
      /\ socket'[k].phase = "done" /\ socket'[k].at = socket[k].at
  BY GoesEffect DEF AcceptFails, Moves, Phases
<1>2. Linked(s)'
  BY <1>0, <1>1 DEF Linked, Moves, Driving
<1>. QED
  BY <1>2 DEF AcceptFails, CaredFor

(* Every step of a session cares for its own lease. *)
LEMMA StepCaredFor ==
  ASSUME TypeOK, NEW k \in Sockets, Linked(Session(k)), CaredFor(Session(k)), Step(k)
  PROVE  Linked(Session(k))' /\ CaredFor(Session(k))'
<1>. DEFINE s == Session(k)
<1>1. CASE AcquireCall(k) \/ ReleaseCall(k) \/ AcceptFails(k)
  BY <1>1, AcquireCaredFor, ReleaseCaredFor, AcceptCaredFor
<1>2. CASE ~AcquireCall(k) /\ ~ReleaseCall(k) /\ ~AcceptFails(k)
  <2>1. owner' = owner /\ astray' = astray
    BY <1>2 DEF Step, ClientStep, Handler, Connect, Start, Feed, StopControl, Leave,
       Register, Idle, Announced, Return, Drain, worker, history
  <2>2. Linked(s)' /\ (Attended(s) => Attended(s)')
    BY <1>2, ConnectAttended, StayAttended, StopAttended, RegisterAttended, IdleAttended,
       ReturnAttended DEF Step, ClientStep, Handler
  <2>. QED
    BY <2>1, <2>2 DEF CaredFor
<1>. QED
  BY <1>1, <1>2

(* A request is kept for later only when its session gave it up. *)
LEMMA StepLate ==
  ASSUME LateAstray, NEW k \in Sockets, Step(k)
  PROVE  LateAstray'
<1>1. ASSUME NEW c, Lose([session |-> Session(k), call |-> c]) PROVE LateAstray'
  <2>1. late' \subseteq late \cup {[session |-> Session(k), call |-> c]}
    BY <1>1 DEF Lose
  <2>2. astray' = astray \cup {Session(k)}
    BY <1>1 DEF Lose
  <2>. QED
    BY <2>1, <2>2 DEF LateAstray
<1>2. CASE Released(k)
  BY <1>2 DEF Released, LateAstray
<1>3. CASE AcquireCall(k) \/ ReleaseCall(k)
  BY <1>1, <1>2, <1>3 DEF AcquireCall, Granted, Refused, ReleaseCall, history, LateAstray
<1>4. CASE ~AcquireCall(k) /\ ~ReleaseCall(k)
  BY <1>4 DEF Step, ClientStep, Handler, Connect, AcceptFails, Start, Feed, StopControl,
     Leave, Register, Idle, Announced, Return, Drain, history, LateAstray
<1>. QED
  BY <1>3, <1>4

(* At the start nobody has the lease. *)
LEMMA UserInit == Init => UserInv
<1>. SUFFICES ASSUME Init PROVE UserInv
  OBVIOUS
<1>1. owner = None /\ late = {}
  BY DEF Init, L!Init
<1>2. ASSUME NEW s \in Sessions PROVE Linked(s) /\ CaredFor(s)
  <2>1. streams[s] = None /\ s # None /\ None \notin Sockets /\ Of(s) \subseteq Sockets
    BY LeaseAssumption DEF Init, Of
  <2>2. \A k \in Sockets : socket[k].at = None /\ socket[k].phase = "new" /\ ~stream[k].released
    BY DEF Init, NoSocket, NoStream
  <2>. QED
    BY <1>1, <2>1, <2>2 DEF Linked, CaredFor, Driving
<1>. QED
  BY <1>1, <1>2 DEF UserInv, LateAstray

(* Every step keeps the first part of the invariant. *)
LEMMA UserStep == TypeOK /\ UserInv /\ [Next]_vars => UserInv'
<1>. SUFFICES ASSUME TypeOK, UserInv, [Next]_vars PROVE UserInv'
  OBVIOUS
<1>0. LateAstray /\ \A s \in Sessions : Linked(s) /\ CaredFor(s)
  BY DEF UserInv
<1>1. ASSUME NEW k \in Sockets, Step(k) PROVE UserInv'
  <2>1. Session(k) \in Sessions
    BY OwnSession
  <2>2. Linked(Session(k))' /\ CaredFor(Session(k))'
    BY <1>0, <1>1, <2>1, StepCaredFor
  <2>3. ASSUME NEW t \in Sessions, t # Session(k) PROVE Linked(t)' /\ CaredFor(t)'
    <3>1. /\ Untouched(t)
          /\ (owner' = t => owner = t) /\ (t \in astray => t \in astray')
      BY <1>0, <1>1, <2>1, <2>3, StepElsewhere
    <3>2. Linked(t)' /\ (Attended(t) => Attended(t)')
      BY <1>0, <3>1, UntouchedKept
    <3>. QED
      BY <1>0, <3>1, <3>2 DEF CaredFor
  <2>4. LateAstray'
    BY <1>0, <1>1, StepLate
  <2>. QED
    BY <2>2, <2>3, <2>4 DEF UserInv
<1>2. ASSUME UNCHANGED gateway, UNCHANGED astray, late' \subseteq late,
             owner' \in astray \cup {None, owner}
      PROVE  UserInv'
  <2>1. ASSUME NEW t \in Sessions PROVE Linked(t)' /\ CaredFor(t)'
    <3>1. Untouched(t)
      BY <1>2 DEF gateway, Untouched
    <3>2. Linked(t)' /\ (Attended(t) => Attended(t)')
      BY <1>0, <3>1, UntouchedKept
    <3>3. owner' = t => t \in astray \/ owner = t
      BY <1>2, LeaseAssumption
    <3>. QED
      BY <1>0, <1>2, <3>2, <3>3 DEF CaredFor
  <2>. QED
    BY <1>0, <1>2, <2>1 DEF UserInv, LateAstray
<1>3. ASSUME NEW r \in late, Late(r) PROVE UserInv'
  <2>1. r.session \in astray
    BY <1>0 DEF LateAstray
  <2>2. owner' \in {None, owner, r.session}
    BY <1>3 DEF Late, Exec, ExecAcquire, ExecRelease, L!Acquire, L!Release, worker
  <2>. QED
    BY <1>2, <1>3, <2>1, <2>2 DEF Late, gateway
<1>4. ASSUME NEW m \in Models \cup {None}, Switch(m) PROVE UserInv'
  BY <1>2, <1>4 DEF Switch, L!Switch, gateway, history
<1>5. CASE WorkerRestart
  BY <1>2, <1>5 DEF WorkerRestart, L!Die, gateway
<1>6. CASE GatewayCrash
  <2>1. late' = late /\ owner' = owner /\ astray' = astray \cup (Sessions \cap {owner})
    BY <1>6 DEF GatewayCrash, worker
  <2>2. ASSUME NEW s \in Sessions PROVE Linked(s)' /\ CaredFor(s)'
    <3>1. streams'[s] = None /\ s # None /\ None \notin Sockets /\ Of(s) \subseteq Sockets
          /\ Of(s)' = Of(s)
      BY <1>6, LeaseAssumption DEF GatewayCrash, Of
    <3>2. \A k \in Sockets : /\ socket'[k].at = None /\ socket'[k].phase \in {"new", "done"}
                             /\ ~stream'[k].released
      BY <1>6 DEF GatewayCrash, NoSocket, NoStream
    <3>. QED
      BY <2>1, <3>1, <3>2 DEF Linked, CaredFor, Driving
  <2>. QED
    BY <1>0, <2>1, <2>2 DEF UserInv, LateAstray
<1>7. CASE LoopEnds \/ UNCHANGED vars
  BY <1>2, <1>7 DEF LoopEnds, vars, worker, gateway, history
<1>. QED
  BY <1>1, <1>3, <1>4, <1>5, <1>6, <1>7 DEF Next, Step, ClientStep

(* The first part of the invariant holds in every behaviour. *)
LEMMA TypedUsers == Spec => [](TypeOK /\ UserInv)
<1>1. TypeOK /\ UserInv /\ [Next]_vars => TypeOK' /\ UserInv'
  BY LeaseTypeStep, UserStep
<1>. QED
  BY <1>1, LeaseTypeInit, UserInit, PTL DEF Spec

-----------------------------------------------------------------------------
(* Sessions whose sockets come one at a time. *)

Only(k) == \A x \in Of(Session(k)) \ {k} : socket[x].phase \in Ended

(* Orderly, from the side of the one socket that is there. *)
Tells(k) ==
  LET s == Session(k) IN
  /\ streams[s] # None => socket[k].phase \in Driving /\ socket[k].at = streams[s]
  /\ socket[k].phase \in {"granted", "open"} => Held(s)
  /\ socket[k].phase = "open" =>
       streams[s] = socket[k].at /\ stream[socket[k].at].mode = "active"
  /\ socket[k].phase = "waiting" => stream[socket[k].at].mode = "stopping"
  /\ socket[k].phase \in {"jammed", "releasing", "released", "failed"} =>
       stream[socket[k].at].mode = "stopped"
  /\ socket[k].phase \in Driving \ {"open"} /\ socket[k].last => streams[s] = None

(* In an orderly session the socket that is there is the only one, and     *)
(* tells.                                                                  *)
LEMMA OrderlyTold ==
  ASSUME NEW k \in Sockets, Orderly(Session(k))
  PROVE  /\ socket[k].phase \notin Ended => Only(k)
         /\ Only(k) => Tells(k)
<1>. DEFINE s == Session(k)
<1>1. k \in Of(s)
  BY OwnSession
<1>2. socket[k].phase \notin Ended => Only(k)
  BY <1>1 DEF Orderly, Only
<1>3. ASSUME Only(k) PROVE Tells(k)
  <2>1. \A x \in Of(s) : x # k => socket[x].phase \in {"new", "done"}
    BY <1>3 DEF Only, Ended
  <2>. QED
    BY <1>1, <2>1 DEF Orderly, Tells, Driving
<1>. QED
  BY <1>2, <1>3

(* And when the only socket tells, the session is orderly. *)
LEMMA ToldOrderly ==
  ASSUME NEW k \in Sockets, Only(k), Moves(k), Tells(k)'
  PROVE  Orderly(Session(k))'
<1>. DEFINE s == Session(k)
<1>1. k \in Of(s) /\ Of(s) \subseteq Sockets /\ Of(s)' = Of(s)
  BY OwnSession DEF Of
<1>2. \A x \in Of(s) : x # k => socket'[x].phase \in {"new", "done"}
  BY <1>1 DEF Only, Moves, Ended
<1>. QED
  BY <1>1, <1>2 DEF Orderly, Tells, Driving, Ended

(* A socket that opens alone finds nothing registered. *)
LEMMA ConnectOrderly ==
  ASSUME TypeOK, NEW k \in Sockets, Session(k) \notin together', Connect(k),
         Orderly(Session(k))
  PROVE  Orderly(Session(k))'
<1>1. Only(k) /\ Session(k) \in Sessions
  BY OwnSession DEF Connect, Alone, Only, TypeOK
<1>2. Tells(k) /\ socket[k].phase = "new"
  BY <1>1, OrderlyTold DEF Connect
<1>3. streams[Session(k)] = None
  BY <1>2 DEF Tells, Driving
<1>4. Goes(k, "done") \/ Goes(k, "acquiring")
  BY <1>3 DEF Connect
<1>5. /\ Moves(k) /\ socket'[k].phase \in {"done", "acquiring"} /\ streams' = streams
  BY <1>4, GoesEffect DEF Moves, Phases, Connect
<1>6. Tells(k)'
  BY <1>3, <1>5 DEF Tells
<1>. QED
  BY <1>1, <1>5, <1>6, ToldOrderly

(* After close_stream nothing is registered. *)
LEMMA CloseOrderly ==
  ASSUME TypeOK, NEW k \in Sockets, Linked(Session(k)), NEW st \in [Sockets -> StreamType],
         CloseStream(k, st)
  PROVE  Moves(k) /\ Tells(k)'
<1>. DEFINE s == Session(k)
            j == streams[s]
<1>0. s \in Sessions /\ None \notin Sockets
  BY OwnSession, LeaseAssumption
<1>1. /\ streams'[s] = None /\ Moves(k)
      /\ \/ /\ j # None /\ stream'[j].mode = "stopping"
            /\ socket'[k].phase = "waiting" /\ socket'[k].at = j
         \/ socket'[k].phase = "done"
  BY <1>0, CloseEffect DEF TypeOK, Moves
<1>. QED
  BY <1>0, <1>1 DEF Tells

(* Every step of an orderly session keeps it orderly, while nothing        *)
(* fails.                                                                  *)
LEMMA StepOrderly ==
  ASSUME TypeOK, NEW k \in Sockets, Linked(Session(k)), Session(k) \notin together',
         Step(k), Orderly(Session(k)), failures' = 0, failures = 0
  PROVE  Orderly(Session(k))'
<1>. DEFINE s == Session(k)
<1>0. /\ s \in Sessions /\ k \in Of(s) /\ Of(s) \subseteq Sockets /\ Of(s)' = Of(s)
      /\ None \notin Sockets
      /\ stream \in [Sockets -> StreamType]
  BY OwnSession, LeaseAssumption DEF Of, TypeOK, StreamType
<1>1. CASE Connect(k)
  BY <1>1, ConnectOrderly
<1>2. CASE Drain(k)
  <2>1. \A x \in Sockets : stream'[x].mode = stream[x].mode
    BY <1>0, <1>2 DEF Drain, StreamType
  <2>2. UNCHANGED <<serving, owner, frozen, streams, socket>>
    BY <1>2 DEF Drain, worker, setting
  <2>. QED
    BY <1>0, <2>1, <2>2 DEF Orderly, Linked, Driving, Held
<1>3. ASSUME socket[k].phase \notin Ended
      PROVE  Only(k) /\ Tells(k)
  BY <1>3, OrderlyTold
<1>4. CASE Start(k) \/ Feed(k)
  <2>1. /\ Only(k) /\ Tells(k) /\ socket[k].phase = "open"
    BY <1>3, <1>4 DEF Start, Feed, Ended
  <2>2. stream[socket[k].at].mode = "active" /\ socket[k].at \in Sockets
    BY <1>0, <2>1 DEF Tells, Linked, Driving
  <2>3. /\ socket'[k].phase = "open" /\ socket'[k].at = socket[k].at /\ Moves(k)
        /\ UNCHANGED <<serving, owner, frozen, streams>>
    BY <1>4 DEF Start, Feed, Moves, TypeOK, worker, setting
  <2>4. stream'[socket[k].at].mode = "active"
    BY <1>0, <1>4, <2>2 DEF Start, Feed, StreamType
  <2>5. Tells(k)'
    BY <2>1, <2>3, <2>4 DEF Tells, Driving, Held
  <2>. QED
    BY <2>1, <2>3, <2>5, ToldOrderly
<1>5. CASE StopControl(k)
  <2>1. /\ Only(k) /\ Tells(k) /\ socket[k].phase = "open"
    BY <1>3, <1>5 DEF StopControl, Ended
  <2>2. PICK j \in Of(s) : j = socket[k].at
    BY <1>0, <2>1 DEF Linked, Driving
  <2>3. BeginStop(k, stream, j, FALSE) /\ FALSE \in BOOLEAN /\ j \in Sockets
    BY <1>0, <1>5, <2>1, <2>2 DEF StopControl, Tells
  <2>6. streams' = streams /\ streams[s] = j /\ ~socket'[k].last
    BY <1>0, <1>5, <2>1, <2>2 DEF StopControl, Tells, BeginStop, TypeOK
  <2>4. /\ socket'[k].phase = "waiting" /\ socket'[k].at = j
        /\ \A x \in Sockets \ {k} : socket'[x] = socket[x]
        /\ stream'[j].mode = "stopping"
    <3>1. stream \in [Sockets -> StreamType]
      BY <1>0
    <3>. QED
      BY <2>3, <3>1, BeginEffect
  <2>5. Tells(k)' /\ Moves(k)
    BY <2>4, <2>6 DEF Tells, Driving, Moves
  <2>. QED
    BY <2>1, <2>5, ToldOrderly
<1>6. CASE Leave(k)
  <2>1. Only(k) /\ CloseStream(k, stream)
    BY <1>3, <1>6 DEF Leave, Ended
  <2>. QED
    BY <1>0, <2>1, CloseOrderly, ToldOrderly
<1>7. CASE AcquireCall(k)
  <2>1. Only(k) /\ streams[s] = None
    BY <1>3, <1>7 DEF AcquireCall, Ended, Tells, Driving
  <2>2. ~Lose([session |-> s, call |-> "acquire"])
    BY DEF Lose, TypeOK
  <2>3. /\ Moves(k) /\ streams' = streams
        /\ \/ socket'[k].phase = "done"
           \/ socket'[k].phase = "granted" /\ Held(s)'
    <3>1. CASE Granted(k)
      <4>1. Goes(k, "granted") /\ Held(s)' /\ streams' = streams
        BY <1>7, <3>1 DEF AcquireCall, Granted, CanAcquire, L!Acquire, Held, setting
      <4>. QED
        BY <4>1, GoesEffect DEF Moves, Phases
    <3>2. CASE Refused(k)
      BY <1>7, <3>2, GoesEffect DEF AcquireCall, Refused, Moves, Phases
    <3>. QED
      BY <1>7, <3>1, <3>2 DEF AcquireCall
  <2>4. Tells(k)'
    BY <2>1, <2>3 DEF Tells
  <2>. QED
    BY <2>1, <2>3, <2>4, ToldOrderly
<1>8. CASE Register(k)
  <2>1. Only(k) /\ Held(s)
    BY <1>3, <1>8 DEF Register, Ended, Tells
  <2>2. /\ socket'[k].phase = "open" /\ socket'[k].at = k /\ Moves(k)
        /\ UNCHANGED <<serving, owner, frozen>>
    BY <1>8 DEF Register, Moves, TypeOK, worker, setting
  <2>3. streams'[s] = k /\ stream'[k].mode = "active"
    BY <1>0, <1>8 DEF Register, TypeOK, StreamType
  <2>4. Tells(k)'
    BY <2>1, <2>2, <2>3 DEF Tells, Driving, Held
  <2>. QED
    BY <2>1, <2>2, <2>4, ToldOrderly
<1>9. CASE Idle(k) \/ Announced(k)
  <2>1. Only(k) /\ Tells(k) /\ socket[k].phase \in {"waiting", "jammed"}
    BY <1>3, <1>9 DEF Idle, Announced, Ended
  <2>2. PICK j \in Of(s) : j = socket[k].at
    BY <1>0, <2>1 DEF Linked, Driving
  <2>3. /\ Moves(k) /\ streams' = streams /\ socket'[k].at = j
        /\ socket'[k].phase \in {"jammed", "released", "releasing"}
        /\ socket'[k].last = socket[k].last
    BY <1>9, <2>2 DEF Idle, Announced, AfterStop, Goes, Moves, TypeOK
  <2>4. stream'[j].mode = "stopped"
    BY <1>0, <1>9, <2>1, <2>2 DEF Idle, Announced, Tells, StreamType
  <2>5. Tells(k)'
    BY <2>1, <2>2, <2>3, <2>4 DEF Tells, Driving
  <2>. QED
    BY <2>1, <2>3, <2>5, ToldOrderly
<1>10. CASE ReleaseCall(k)
  <2>1. Only(k) /\ Tells(k) /\ socket[k].phase = "releasing"
    BY <1>3, <1>10 DEF ReleaseCall, Ended
  <2>2. /\ Moves(k) /\ streams' = streams /\ stream' = stream
        /\ socket'[k].phase \in {"released", "failed"} /\ socket'[k].at = socket[k].at
        /\ socket'[k].last = socket[k].last
    BY <1>10, GoesEffect DEF ReleaseCall, Released, Moves, Phases
  <2>3. Tells(k)'
    BY <2>1, <2>2 DEF Tells, Driving
  <2>. QED
    BY <2>1, <2>2, <2>3, ToldOrderly
<1>11. CASE Return(k)
  <2>1. Only(k) /\ Tells(k) /\ socket[k].phase \in {"released", "failed"}
    BY <1>3, <1>11 DEF Return, Ended
  <2>2. CASE CloseStream(k, Noted(k))
    BY <2>1, <2>2, NotedEffect, CloseOrderly, ToldOrderly
  <2>3. CASE socket[k].last /\ Goes(k, "done") /\ UNCHANGED streams
    <3>1. Moves(k) /\ socket'[k].phase = "done"
      BY <2>3, GoesEffect DEF Moves, Phases
    <3>2. streams'[s] = None
      BY <2>1, <2>3 DEF Tells, Driving
    <3>3. Tells(k)'
      BY <3>1, <3>2 DEF Tells, Driving
    <3>. QED
      BY <2>1, <3>1, <3>3, ToldOrderly
  <2>. QED
    BY <1>11, <2>2, <2>3 DEF Return, Noted
<1>12. ~AcceptFails(k)
  BY DEF AcceptFails, TypeOK
<1>. QED
  BY <1>1, <1>2, <1>4, <1>5, <1>6, <1>7, <1>8, <1>9, <1>10, <1>11, <1>12
  DEF Step, ClientStep, Handler

(* At the start every session is orderly. *)
LEMMA HolderInit == Init => HolderInv
<1>. SUFFICES ASSUME Init PROVE HolderInv
  OBVIOUS
<1>1. ASSUME NEW s \in Sessions PROVE Orderly(s)
  <2>1. Of(s) \subseteq Sockets /\ streams[s] = None
    BY DEF Of, Init
  <2>2. \A k \in Sockets : socket[k].phase = "new"
    BY DEF Init, NoSocket
  <2>. QED
    BY <2>1, <2>2 DEF Orderly, Driving, Ended
<1>. QED
  BY <1>1 DEF HolderInv, Init

(* Every step keeps the second part of the invariant. *)
LEMMA HolderStep == TypeOK /\ UserInv /\ HolderInv /\ [Next]_vars => HolderInv'
<1>. SUFFICES ASSUME TypeOK, UserInv, HolderInv, [Next]_vars, failures' = 0
              PROVE  late' = {} /\ \A s \in Sessions \ together' : Orderly(s)'
  BY DEF HolderInv
<1>0. failures \in Nat /\ \A s \in Sessions : Linked(s)
  BY LeaseAssumption DEF TypeOK, UserInv
<1>1. ASSUME NEW k \in Sockets, Step(k)
      PROVE  late' = {} /\ \A s \in Sessions \ together' : Orderly(s)'
  <2>1. ASSUME NEW c, Lose([session |-> Session(k), call |-> c]) PROVE FALSE
    BY <1>0, <2>1 DEF Lose
  <2>0. ~AcceptFails(k)
    BY <1>0 DEF AcceptFails
  <2>2. failures = 0 /\ late' = late
    BY <1>1, <2>0, <2>1 DEF Step, ClientStep, Handler, Connect, Start, Feed, StopControl, Leave,
       AcquireCall, Granted, Refused, ReleaseCall, Released, Register, Idle, Announced,
       Return, Drain, history
  <2>3. late = {} /\ \A s \in Sessions \ together : Orderly(s)
    BY <2>2 DEF HolderInv
  <2>4. Session(k) \in Sessions /\ together \subseteq together'
    BY <1>1, OwnSession DEF Step, ClientStep, Handler, Connect, Start, Feed, StopControl, Leave,
       AcceptFails, AcquireCall, ReleaseCall, Register, Idle, Announced, Return, Drain, setting
  <2>5. ASSUME NEW s \in Sessions \ together', s = Session(k) PROVE Orderly(s)'
    BY <1>0, <1>1, <2>2, <2>3, <2>4, <2>5, StepOrderly
  <2>6. ASSUME NEW s \in Sessions \ together', s # Session(k) PROVE Orderly(s)'
    <3>1. Untouched(s) /\ (Held(s) => Held(s)')
      BY <1>0, <1>1, <2>4, <2>6, StepElsewhere
    <3>. QED
      BY <1>0, <2>3, <2>4, <3>1, UntouchedKept
  <2>. QED
    BY <2>2, <2>3, <2>5, <2>6
<1>2. ASSUME UNCHANGED <<gateway, late, failures, together>>,
             \A s \in Sessions : Held(s) => Held(s)'
      PROVE  late' = {} /\ \A s \in Sessions \ together' : Orderly(s)'
  <2>1. late = {} /\ \A s \in Sessions \ together : Orderly(s)
    BY <1>2 DEF HolderInv
  <2>2. ASSUME NEW s \in Sessions \ together PROVE Orderly(s)'
    <3>1. Untouched(s)
      BY <1>2 DEF gateway, Untouched
    <3>. QED
      BY <1>0, <1>2, <2>1, <3>1, UntouchedKept
  <2>. QED
    BY <1>2, <2>1, <2>2
<1>3. ASSUME NEW r \in late, Late(r) PROVE FALSE
  BY <1>3 DEF Late, HolderInv
<1>4. ASSUME NEW m \in Models \cup {None}, Switch(m)
      PROVE  late' = {} /\ \A s \in Sessions \ together' : Orderly(s)'
  <2>1. \A s \in Sessions : ~Held(s)
    BY <1>4, LeaseAssumption DEF Switch, L!Switch, Held
  <2>. QED
    BY <1>2, <1>4, <2>1 DEF Switch, setting, history
<1>5. ~WorkerRestart /\ ~GatewayCrash /\ ~LoopEnds
  BY <1>0 DEF WorkerRestart, GatewayCrash, LoopEnds
<1>6. CASE UNCHANGED vars
  BY <1>2, <1>6 DEF vars, worker, setting, history, Held
<1>. QED
  BY <1>1, <1>3, <1>4, <1>5, <1>6 DEF Next, Step, ClientStep

(* Both parts of the invariant hold in every behaviour. *)
LEMMA TypedHolders == Spec => [](TypeOK /\ UserInv /\ HolderInv)
<1>1. HolderInv /\ (TypeOK /\ UserInv) /\ [Next]_vars => HolderInv'
  BY HolderStep
<1>. QED
  BY <1>1, TypedUsers, HolderInit, PTL DEF Spec

(* The gateway and the worker agree about the lease.  While nothing fails, *)
(* a registered stream that takes audio holds the lease of its model, for  *)
(* sessions whose handlers were never two at once; and at any time, after  *)
(* any losses, delays, restarts and crashes, a lease that is held has a    *)
(* handler that will release it, or one whose stop may wait for ever, or   *)
(* is that of a session that a failure left behind.                        *)
THEOREM LeaseAgreed == Spec => []LeaseAgrees
<1>1. TypeOK /\ UserInv => LeaseHasUser
  <2>. SUFFICES ASSUME TypeOK, UserInv, owner # None, owner \notin astray, ~CutOff(owner)
                PROVE  Driven(owner)
    BY DEF LeaseHasUser
  <2>1. owner \in Sessions /\ Attended(owner) /\ Linked(owner)
    BY DEF TypeOK, UserInv, CaredFor
  <2>2. None \notin Of(owner) /\ \A k \in Of(owner) : ~StopHangs(k)
    BY LeaseAssumption DEF Of, CutOff
  <2>3. \A k \in Of(owner) : socket[k].phase # "jammed"
    BY <2>2 DEF StopHangs
  <2>. QED
    BY <2>1, <2>2, <2>3 DEF Attended, Driven, Linked, Driving
<1>2. UserInv /\ HolderInv => StreamHoldsLease
  <2>. SUFFICES ASSUME HolderInv, failures = 0, NEW s \in Sessions \ together,
                       streams[s] # None, stream[streams[s]].mode = "active"
                PROVE  Held(s)
    BY DEF StreamHoldsLease, HoldsLease, Held
  <2>1. Orderly(s)
    BY DEF HolderInv
  <2>. QED
    BY <2>1 DEF Orderly, Driving
<1>. QED
  BY <1>1, <1>2, TypedHolders, PTL DEF LeaseAgrees
=============================================================================
