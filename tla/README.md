# Agent Speak: a TLA+ model of the code

Agent Speak is a local speech platform: browser pages record microphone audio
and stream or post it to a *gateway*, the gateway has it transcribed, corrected
and spoken by GPU workers, and a *resource supervisor* on the host decides which
workers are resident on the GPU. This directory holds TLA+ modules that model the parts of
it where the order of steps matters, the TLC configurations that check them,
and proofs that TLAPS checks. Line numbers below are those of the sources
(`src/src/agent_speak/…` for the Python files, `src/frontend/realtime/src/…`,
`src/web/…` and `src/AI_Avatar/frontend/…` for the browser's).

## 1. Inventory

### Components, their state and their operations

| Component | State | Operations |
|---|---|---|
| **Resource supervisor** `resource_supervisor.py`, `resource_types.py`, `resource_state.py` | the published `ResourceSnapshot` (profile, desired workloads, a status per workload, the operation, the last ready profile), one lock/condition, one daemon thread per operation, `state.json` | `reconcile`, `reset`, `operation`, `wait`; on the thread: `_execute`, `_rollback`, `_set_phase`, `_set_workload` |
| Compose adapter (same file) | none of its own: the Docker containers | `start`, `stop`, `is_ready` (a health probe) |
| Unix server and command line client (same file) | a single-threaded server | one request at a time; `--wait` polls |
| **ASR model manager** `asr_model_manager.py` | provider, active model, lock, an immutable snapshot that carries the lease | `activate` (with rollback), `acquire`, `release`, `transcribe`, `snapshot` (no lock) |
| **ASR worker** `asr_worker.py` | the background activation task | health, models, activation, lease and transcription routes |
| **Realtime coordinator** `realtime.py` | `_streams`, two schedulers, two loop tasks | `open`, `close_stream`, `release_lease`, `close`, `_asr_loop`, `_text_loop` |
| **Realtime stream** `realtime.py`, `realtime_endpoint.py` | state, current utterance, endpoint candidate, generations, outstanding jobs, event history and queue | `start`, `accept_pcm`, `stop`, the results of both loops |
| **Schedulers** `realtime_queue.py` | finals, partials (latest per utterance), endpoint and correction jobs, all bounded | `put_*`, `get` (finals before partials, endpoints before corrections) |
| **Transcript ledger** `transcripts.py` | rows with `final` and `locked` | `accept_partial`, `accept_final`, `apply_revision`, `finalize` |
| WebSocket transport `realtime_routes.py` | the socket and its sender task | `stream.start`, frames, `stream.stop`, `session.ping`, disconnect |
| Model catalogue and lease client `model_control.py` | a lock, an HTTP client with a 5 s timeout | `catalog`, `activate`, `acquire`, `release` |
| Sessions `sessions.py` | sessions, histories, bounded subscriber queues, active turns | `create` (evicts), `admit_turn`, `emit`, `subscribe` |
| Turn pipeline `pipeline.py`, `concurrency.py` | the artifact directory, four worker threads | `run`, `store_audio` (prunes) |
| Resource control `resource_control.py`, `resource_routes.py` | none | proxies of the supervisor's socket |
| Speakers `speakers.py` | SQLite rows and sample files | `create`, `enroll`, `match`, `delete` |
| TTS clone proxy `tts_clone.py`, `tts_clone_routes.py` | none | forwards, streams, saves voices |
| Inference `text_inference.py`, `asr_providers.py`, `production.py`, `development.py` | model libraries | calls |
| Gateway `app.py`, `mcp_server.py`, `schemas.py`, … | wiring | routes, validation, static pages |
| **Realtime page** `App.tsx`, `audio/realtimeClient.ts`, `audio/deviceGate.ts`, `state/reducer.ts`, `resources.ts` | the device gate, the microphone's stream, audio context and socket, `active`, `busy`, a pending model switch or reset, the transcript's rows | check, start, stop, switch of models, reset, socket and device events |
| **Clone page** `ttsClone/App.tsx`, `ttsClone/audio.ts`, `ttsClone/api.ts` | the recorder (stream, context, 30 s timer), the ephemeral store of two blobs and their object URLs, the audio element, the studio state and the token of the latest synthesis | check, record, stop, validate, generate, play, reset, a status poll |
| **Avatar page** `avatarLab/*`, `AI_Avatar/frontend/*` | the accepted manifest, the playing and the queued state, the frame, the animation callback, the panel's snapshot | load, select, pause, resume, restart, animation frames |
| **Recorder page** `web/codex.js` | phase, devices, a stream, a recorder, its timer, its chunks | check, start, stop, auto-stop, processing, devicechange |
| **Particle field** `web/particle-field.js`, `components/ParticleField.tsx` | its animation and resize callbacks, energies | mount, draw, resize, pointer, visibility, destroy |
| **Language** `web/locale.js`, `web/docs-locale.js`, `i18n.tsx`, `ttsClone/i18n.tsx` | URL parameter and `localStorage` | resolve, choose, links |
| Host `run.sh`, `compose.yaml`, `docker`, `scripts` | processes and containers | start, stop, restart |

### How they interact

* A browser asks the gateway for a profile; the gateway passes it to the
  supervisor's Unix socket; the supervisor publishes an operation, starts a
  thread and answers at once; the client polls the operation. The thread runs
  `docker compose` commands and health probes *without* the lock and publishes
  each step under it.
* A socket opens a stream: the gateway acquires the lease of the ASR model
  from the worker over HTTP, and releases it in the `finally` of `stop`.
* The socket's handler runs the detector and queues jobs; the two loops take
  them, wait for a worker in a thread, and hand the answer to the stream, whose
  handler may be anywhere by then. A counter of outstanding jobs tells `stop`
  when it may end.
* Events go to the stream's own queue and, for some types, to the session
  broker, which raises for a session it has evicted.
* The pages call the gateway over HTTP, poll operations by their id, and hold a
  WebSocket each. A page's handlers suspend at permission prompts, at the audio
  API and at requests, and go on with whatever the page has become. The pages
  share nothing but the URL and the stored language; leaving one ends its timers,
  callbacks and microphone.

### What is hard, and what must hold

* **Supervisor.** One thread at a time works on the containers; every
  unfinished operation has a thread; an operation only moves forward; under
  the exclusive policy the two residency groups never share the GPU, whatever
  fails (the code does not keep this for containers that load; section 5); a
  rollback restores what was there and says so; `ready` means that the
  desired workloads run; a reset restarts its target; threads end.
* **Manager and worker.** A lease pins its model; two models are never in
  memory together, rollbacks included; the snapshot that is read without the
  lock tells the truth; a transcription runs on the model it asked for; an
  accepted activation ends.
* **Realtime.** The counter equals the work that is left; events come in an
  order a client can use; a revision reaches one sentence back; finals are
  answered and not overwritten; a stop, and a closed socket, end the stream.
  Of finals and stops the code does not keep all: section 5.
* **Sessions and turns.** A session runs one turn; what is in use is not evicted;
  history and state tell one turn's story at a time; a subscriber's feed has no
  repetition, and no gap unless its queue overflowed.
* **Artifacts.** Workers that prune at the same time never delete one of the
  newest files.
* **Realtime page.** A socket never stands without the capture a stop would
  release with it; the buttons come back; what was completed stays in the
  transcript; a switch ends, also one that resumes capture.
* **Clone page.** The checkbox, the offer and the store agree; object URLs are
  revoked exactly when their blob goes; what is shown as going on is going on; a reset ends.
* **Avatar.** Canvas, panel and scheduler agree; clips change on the shared frame
  only; a queued state is played.
* **Recorder page.** No phase that disables buttons without work that ends it;
  a recording ends.
* **Particle field.** One animation loop. **Language.** What the reader chose is
  what pages without a parameter show.
* **Lease.** The gateway and the worker agree about who holds it, over requests
  that get lost or come late; it comes back when the sockets have gone.
* **Speakers, TTS proxy.** Not modelled: see the plan.

`PROJECT.json` lists each hazard with its line and the properties aimed at it.

## 2. The modules

| Module | Models | How |
|---|---|---|
| `OperationLedger` | what the supervisor promises its clients | at most one operation; it begins, and ends `ready` (its intent stands), `failed` or `rolled_back` (the intent it found stands again); identifiers are never reused; a restart forgets it |
| `ResourceSupervisor` | the supervisor, its threads, the containers | every `with self._lock` section is one step, every external command is one step; the thread's `pc` names the statement it is at, `todo`/`mark` are its loop and set variables |
| `ResourceSupervisorProofs` | theorems about it | |
| `ModelLease` | what the worker promises its clients | a model is served, a session may own it, and while it is owned the served model does not change |
| `AsrModelManager` | manager and worker | each publication of a snapshot is a step, as routes read it without the lock; the lock is `pc = "off" /\ using = Idle` |
| `AsrModelManagerProofs` | theorems about it | |
| `TranscriptLedger` | `transcripts.py` | pure operators on a sequence of rows |
| `SessionBroker` | sessions, turns, subscribers, and the routes that call them | no section under the broker's lock awaits, so the lock never makes a task wait: a handler is one step from one real suspension to the next |
| `ArtifactStore` | `store_audio` in the threads of the pool, and a restart | every file operation is a step; a file is named by its place in the order of modification times |
| `MCGateway` | the two side by side for TLC | they share no variable; in a behaviour of the run one of them moves |
| `GatewayProofs` | theorems about `SessionBroker` and `ArtifactStore` | |
| `RealtimePipeline` | streams, schedulers, loops, closing of sockets | asyncio runs a handler from one blocking await to the next as one step |
| `RealtimePipelineProofs` | theorems about it | |
| `RealtimeLease` | sockets from open to close, streams being shared, restarted and stopped, the lease client, the worker's lease (`ModelLease`) | a stream has the name of the socket that created it; a handler suspends at the two requests to the worker, while a stop waits for its jobs, and when its last event does not fit into the outbox (`jammed`); `loops` tells whether both loops still serve; what the worker does with a request is one step of `ModelLease` |
| `RealtimeLeaseProofs` | theorems about it | |
| `RealtimeClient` | `realtimeClient.ts`, `deviceGate.ts`: microphone, context, socket | a call of `start` is an element of `Start` with a program counter; it goes on with what the client holds *then*; a stop hands over what it took to a pending closing of the context |
| `RealtimeStudio` | `App.tsx` and `reducer.ts` over the client | handlers as step machines (`checking`, `switchPc`, `resetPc`), clicks guarded by what the page shows |
| `RealtimeStudioProofs` | theorems about it | |
| `ReferenceRecorder` | `createReferenceRecorder` of `ttsClone/audio.ts` | every `await` that suspends ends a step; a blob is named after the call that makes it |
| `ClonePlayback` | the ephemeral store and the audio element | a URL has the name of its blob; `live` are the URLs not revoked |
| `ResourcePoll` | `resources.ts`: posting a reset and polling it | time is counted in poll intervals; what the gateway answers is free |
| `CloneStudio`, `MCCloneStudio` | `ttsClone/App.tsx` over the three | |
| `CloneStudioProofs` | theorems about it | |
| `SiteLocale` | the language of the six pages | four resolvers, as written; `chosen` is a history variable, the reader's last stored choice |
| `ParticleField` | `particle-field.js` and its React component | the browser's callbacks (`drawing`) apart from the handle the code keeps (`frame`) |
| `CodexRecorder` | `codex.js`, `codex-recorder-core.js` | overlapping calls as elements of `Check` and `Recording` on one shared state object |
| `AvatarManifest` | `avatarLab/manifest.ts` | what is accepted, what is preloaded |
| `AvatarLab` | the avatar page with scheduler, state machine and renderer | |
| `SiteTab`, `MCSiteTab` | one tab: which page is in front, and that leaving it takes its callbacks along | composes the five modules above |
| `SiteTabProofs` | theorems about it | |

`PROJECT.json` maps each definition to its lines.

### Abstractions

* *Supervisor.* Workloads are `asr`, `correction`, `tts`: the agent workload can
  never be requested (`agent_ready` is never set) nor started. A container is
  `stopped`, `loading` (it runs, its health check does not say healthy) or
  `healthy`; a started one loads, for as long as it likes, and a poll of it may
  time out. The supervisor boots on any containers. `overlooked` is a history
  variable: running containers that the thread passed over as stopped because they
  were not healthy, or that were found running beside the desired ones at boot.
  A docker command succeeds or fails, and a failed one may have had its
  effect or not. Models, devices and hints of a status follow from its
  lifecycle. `resolve_policy` is left out: the policy is a constant. A restart
  is `run.sh` starting the process again: thread, operation and last ready
  profile are gone, containers stay.
* *Manager.* A model is a model value, its weights are in `loaded`. Loading,
  warming and reloading may each fail. Sessions and models that the route refuses
  outright (unknown ones) are left out.
* *Realtime.* The text of a row is `"partial"`, `"final"` or `"revised"`, after what
  it was made from. `apply_revision` (`transcripts.py:61`) writes the two texts the
  text worker answers with, which it does not split or compare itself; the worker may
  answer with the texts it was sent or with new ones, and a job remembers what the text
  of the row before was made from. A frame is voiced or not, and the detector's timers
  are a choice. Every answer of a worker is a result or an error. Emission of an event
  hands it to the broker as the code does, and raises when the broker has evicted the
  session (`realtime.py:656`): a raise ends the handler of the socket, the stop, or
  the loop it comes out of, for all sessions. The outbox of a stream holds 64 events
  (`realtime.py:648`) and is emptied by the sender; `RealtimePipeline` gives it room
  for all events, while `RealtimeLease` has the one put that a lease depends on.
* *Lease.* A loop's end is a choice (`LoopEnds`): an exception (`realtime.py:519`,
  `:656`) or a put into an outbox nobody reads. `together` is a history variable: the
  sessions of which two handlers were there at once.
* *Sessions.* An event is its number, type and stage; a subscriber is sent one
  event per step. A provider answers or raises. The four threads of the pool are
  not counted: a stage that waits for one is a stage that takes longer.
* *Pages.* Promises and callbacks: one step from one real suspension to the next.
  A permission prompt may stay open for ever. A click happens only when its
  button is enabled. Calls that may overlap are elements of a set; `None` is
  `undefined` or `null`. Audio samples, texts, pixels, particle geometry, model
  selection, sequence numbers and the unmounting of React components are left
  out; leaving a page resets its part of the state (that the browser ends the timers,
  callbacks and microphone of a page that is left is assumed). `redraw()` of the
  particle field (`particle-field.js:229`) has no caller and is left out; so is an
  avatar whose first draw throws or whose canvas has no 2D context.
* *Artifacts.* Ties of modification times are ordered by name, as in the code.

## 3. The runs

| Run | Instance | Shows |
|---|---|---|
| `supervisor_exclusive` | exclusive policy, 2 operations, 1 restart or crash of a container, any containers at boot, containers that load and starts that time out | an operation is active exactly while one thread runs, phases move forward, and the supervisor implements `OperationLedger`, with every docker command failing or not at every step; but for containers it passed over because they were loading (or found at boot), residency groups stay apart, rollbacks restore, resets restart and `ready` delivers |
| `supervisor_live` | concurrent policy, 1 operation, 2 restarts or crashes, containers that load, start timeouts, and a store that may fail | every thread ends |
| `supervisor_loading` | exclusive policy, 1 operation, no restart and no crash | *violated*: with a container of the other group still loading, both groups are resident |
| `asr_manager` | 3 models, 2 sessions, 1 restart | residency, snapshot, transcription, end of activations, and that the worker implements `ModelLease` |
| `session_broker` | 3 sessions for 2 places, 2 turns, 1 subscriber, 1 echo, a history of 3, a queue of 2; artifacts: 2 workers, 5 files, bound 2, 1 restart | admission, eviction, a turn's story and state, order and gaps of a feed; the newest files are kept |
| `realtime_pipeline` | 1 session, 3 utterances, 2 snapshots, queues of length 1, disconnects, an eviction of the broker's session | counter, event order (late partials among them), revision window |
| `realtime_lease` | 2 sessions, one with two sockets, at once or one after the other, 1 place, 1 failure (a request, an accept, a loop, the worker or the gateway) | gateway and worker agree about the lease, and it comes back unless a stop may hang |
| `realtime_studio` | 2 starts, 1 check, 1 utterance, 2 requests for the catalogue | no socket without capture, busy is at work, completed utterances stay, a switch ends |
| `clone_capture` | 2 starts, 1 stop beside the recorder's own, 1 check | the reference is one, checking and validating are at work |
| `clone_speak` | 2 syntheses, 2 plays, 2 checks, 2 status requests after a reset | what Play offers has audio, generating is at work, a reset ends |
| `site_tab` | 2 languages, 2 callbacks, 2 checks and 2 recordings, 3 avatar states, 6 manifests of which 4 are to be refused and one has fewer images than frames | one animation loop, the chosen language is kept, the recorder never sticks and the recording it shows ends, the avatar's picture, queued states are played |
| `realtime_loop_breach` | 2 utterances, no disconnects | *violated*: a final is lost because `accept_final` raises out of `_asr_loop`, which then is dead for every session |

A violated property states what a design document says; its finding in
`PROJECT.json` quotes it. The largest runs are `supervisor_exclusive` (2.6 million
distinct states, 2 minutes), `realtime_pipeline` (2.3 million), `session_broker`
(1.4 million), `supervisor_live` (0.8 million), `realtime_lease` (0.7 million) and
`site_tab` (0.24 million, with two liveness properties 3 minutes).

### Bounds, and why they are enough

* `supervisor_exclusive`: two operations are one, and one that works from what it
  left after it ended in any way; `MaxFaults` 1 is a restart in the middle of anything,
  or a healthy container that fails its health check. Failed commands, containers
  that load and start timeouts are not bounded. Its theorems hold for every policy and
  any number of operations and faults.
* `supervisor_loading`: a container that loads at boot is enough. The shortest trace is
  the rollback of an operation whose first probe failed; without failing commands TLC
  finds one through `_execute`.
* `supervisor_live` has 1 operation: threads only meet when the store fails, and
  without failing stores `Serialized` (checked with two) and the end of the thread together say that
  operations end.
* Three models let a third be asked for while one is replaced and rolled back
  to; two sessions compete for a lease.
* Queues of length 1 are full as soon as they can be; three utterances let a
  row lie behind the revision window; two snapshots let one replace another.
  A run with two sessions and three utterances between them was made for the
  safety properties (1.6 million states) and found nothing more; it is not kept.
  The limits of the queues (`QueuesBounded`) were checked with two sessions of one
  utterance that share them (1.8 million states), and are proved.
* `session_broker`: three sessions for two places evict one with others in use;
  two turns meet in one session or run in two; a history and a queue that are
  smaller than a turn's events overflow. Requests for a turn are interchangeable
  (`SYMMETRY`); the run has no liveness property. The theorems have no bound.
  Of the artifacts, one worker's listing can be overtaken by several stores of the
  other. The two parts share no variable, so that moving only one of them in a
  behaviour loses nothing.
* `realtime_lease`: a second socket is enough to share, overwrite, restart and close
  the stream of the first, or to be opened after it; the other session competes for
  lease and place. One failure makes the lease astray, and the second socket shows how
  it is made up for. One model is served or not. That gateway and worker agree is
  proved without a bound.
* `realtime_studio`: two starts meet in every await of each other, and a switch
  may take either; a third would be held like the second. Two requests for the
  catalogue let the first fail. The theorems have no bound.
* `clone_capture`, `clone_speak`: the page has one recorder and one synthesis
  token, so two of a kind show an overtaken and an overtaking call; recording and
  speaking meet only in the reset, the device check and the reference, which both
  runs have in part. The invariants are proved for both together and any sizes.
  `clone_capture` has no liveness property and uses `SYMMETRY`.
* `site_tab`: a field never has more than one draw pending, so two callbacks
  show a second loop; two checks and two recordings overlap; a clip of four frames
  has one in the middle; the manifests violate one condition each.
* The other state spaces are small enough that symmetry is not used.

`CHECK_DEADLOCK FALSE` appears where the system may really stop: all operations
of the bound used up, all streams closed, or all requests made.

### Fairness

* *Supervisor:* weak fairness of each thread (the operating system runs it, and
  every command and every poll loop has a timeout) and of the second lock
  section of `reset`. Nothing says that commands fail or that containers become
  healthy.
* *Manager:* a transcription ends (weak fairness), and an activation that waits for
  the lock gets it if it is free again and again (strong fairness). A
  `threading.Lock` does not promise this in theory: it is the one assumption
  about the scheduler that goes beyond weak fairness.
* *Realtime:* in the run that shows a lost final, the loops take jobs while they live,
  the workers answer or time out, and an idle stream that is being stopped goes on;
  the client owes nothing: no fairness on frames, `stream.stop` or disconnects.
  `realtime_pipeline` checks no liveness. That a stop ends is not claimed: it waits for
  ever when a loop has ended (`realtime.py:519`, `:656`), when the outbox is full and
  nobody reads it (`:648`), or behind endpoint decisions, which are always taken before
  corrections (`realtime_queue.py:141`), so that a session that talks without end can
  hold back the correction another one's stop waits for.
* *Lease:* weak fairness of a handler's own steps (a request to the worker answers
  or times out) and of the loops *while they live*. A loop may end, after which nothing
  is assumed of it; a stop that waits for such a loop, for a job of a stream that was
  removed, or for room in the outbox may wait for ever (`StopHangs`), and
  `LeaseReturns` says what happens to the lease otherwise. That a live loop serves
  every stream assumes that no queue of higher priority starves it. Sockets may stay
  open for ever, and a request that the gateway gave up may never be executed.
* *Realtime page:* weak fairness of the answers a switch waits for (the browser's
  requests have no timeout of their own, but the gateway answers them within its own,
  and polls are counted), of the closing of audio contexts, and
  of the resuming start except at its permission prompt. `SwitchEnds` therefore
  says "unless the reader leaves the prompt open". Nothing is assumed of clicks,
  devices or the socket.
* *Clone page:* weak fairness of the steps of a reset and of the discard it
  waits for, no other.
* *Site:* weak fairness of each recording's timer, stop event and processing (the
  gateway answers the two requests or they fail), and of the animation callbacks with time between
  them. Nothing of permission prompts, clicks and devices.

## 4. What is proved

For every value of the constants that satisfies the named assumptions:

| Theorem | Assumes | Rests on |
|---|---|---|
| `TypeCorrect` | | `TypeOK`, inductive as it stands |
| `OperationsSerialized` | the store does not fail | `SerialInv` |
| `PhasesForward` | the store does not fail | `SerialInv` |
| `ImplementsLedger` | the store does not fail | `SerialInv`, a step per action |
| `ExclusiveGroups`, `RollbackIsExact`, `ReadyIsExact` | the store does not fail | `SerialInv`, `ResidencyInv` |
| `ResetsRestart` | the store does not fail | `SerialInv`, `ResidencyInv`, `ResetInv` |
| `ManagerTypeCorrect`, `LeasePinned`, `OneResident`, `HonestSnapshot`, `TranscriptionsPinned` | | `ManagerInv` |
| `ImplementsLease` | | `ManagerInv`, a step per action |
| `OneTurnPerSession`, `SessionsInUseKept` | | `BrokerInv` |
| `FeedsAreInOrder`, `StoriesAreTold`, `StatesAreHonest` | | `EventsInv` |
| `BrokerTypeCorrect` | | `EventsInv`, `SizeInv` |
| `NewestArtifactsKept`, `StoreTypeCorrect` | | `StoreInv` |
| `WorkIsCounted`, `RevisionReachesOneBack` | | `WorkInv` |
| `EventsKeepOrder` | | `WorkInv`, `OrderInv` |
| `QueuesStayBounded` | | `WorkInv` |
| `LeaseTypeCorrect` | | `TypeOK`, inductive as it stands |
| `LeaseAgreed` | | `UserInv`, `HolderInv` |
| `SocketNeverAlone`, `BusyNeverStuck`, `TranscriptKept` | | `StudioInv` |
| `ReferenceIsHeld`, `PlayIsHonest`, `SynthesisNeverStuck`, `CaptureNeverStuck` | recordings and syntheses have different blobs | `CloneInv` |
| `ChoiceIsKept`, `OneLoop`, `RecorderNeverStuck`, `PictureIsHonest`, `SiteTyped` | the clips of a manifest are finite | `SiteInv` |

* `SerialInv` says that the published operation and the only live thread are
  the same, and which phases go with which statement. `Serialized` alone is not
  inductive: that a new operation finds no thread needs "a finished operation
  has none", and that a phase moves forward needs to know where the thread is.
* `ResidencyInv` adds, for each statement of the thread, what it has established
  about the containers so far (`Progress`), leaving out those that were passed over
  (`Up`): while it stops, what it must still
  stop; when it starts, that nothing undesired is up; while it rolls back, the
  same for the previous set. A container that was healthy when it was needed may
  crash later, so after a crash "serves" is only "runs". With it, the groups stay apart because the
  desired and the previous set are each one group and nothing outside of them
  is up when anything is started.
* `ResetInv` follows a reset through the thread: its target is wanted, by the
  request that was computed before the operation was submitted too; while the
  thread stops things, a target that is up is still to be stopped; afterwards it is
  up only if it was started anew or was passed over while it loaded. At the end `Progress` says that the target, being
  desired, is up, so it was started anew. That the target is forced (`args.force`)
  is what keeps the fast path of `reconcile` and the reuse of a healthy container
  away from it.
* `ManagerInv` says what is loaded, served and published at each statement of
  `activate`, and that a lease or a transcription excludes it.
* `BrokerInv` is the two properties together with the types they need: that
  the end of one turn takes away no other turn's admission needs that the
  running turns have different sessions.
* `EventsInv` adds what histories, feeds and stories need. A history is cut at its
  old end at any time, and a subscriber's feed consists of the history it replays and
  a queue that may lose its oldest events, so both are described from their newest
  end: the numbers of a sequence run up to the session's counter (`RunsTo`), and the
  gap between what a subscriber was sent and what waits for it is what its queue has
  dropped (`FeedTold`). The event that closes a story agrees with the stage of the
  running turn or, when none runs, with the state of the session (`Standing`); that is
  what makes the next event follow it, also after the story's beginning was cut, and
  realtime events in between are passed over (`Told`).
* `SizeInv` is the limits of the broker. It needs `EventsInv` for the types of what
  is cut, and that an eviction takes a session that is there.
* `StoreInv` adds that a listing holds only stored files and that what a worker
  is about to unlink has enough newer files *in its listing*; listings are parts
  of what was ever stored, and newer files only become more.
* `WorkInv` is the counter with the types of streams and queues. Each helper of a
  handler is shown once to add to the counter what it adds to the queues
  (`Counts`), and handlers are compositions of helpers; an answer takes one off,
  which is never missing because what runs is counted.
* `OrderInv` says, per stream, that the utterances whose final is still to come
  (queued or in the hand of the loop) follow all whose events are out or whose
  correction is to come, that the one being heard follows those, and that each
  queue holds a stream's jobs in that order. That nothing follows
  `stream.stopped` needs `WorkInv`: a stream whose job still runs has something
  pending and is not stopped.
* The limits of the schedulers need the types of `WorkInv` only: each helper is shown
  to keep them (`Fits`), and handlers are compositions of helpers. That one utterance
  has one queued snapshot is why a sequence models the code's dictionary.
* `UserInv` says who will give a lease back. `LeaseHasUser` alone is not inductive: a
  stop skips the release of a stream that was released before, and a socket may drive
  a stream that another has replaced. So the handler must drive the stream that is
  registered, or wait for it, and no release may have gone out for that stream
  (`Attended`, `Fresh`); a stream that is not registered yet is driven by nobody
  (`Linked`); a request that is still to be executed is one that its session gave up
  (`LateAstray`). `HolderInv` is for `StreamHoldsLease`: while nothing fails there are
  no late requests, and the only handler of a session that is there goes from acquire
  to release in order (`Orderly`), with the lease from the one to the other, and leaves
  nothing behind for the next. The worker of `RealtimeLease` is made of the actions of
  `ModelLease`; that the real manager does nothing else is `ImplementsLease`.
* `StudioInv` adds, to the two invariants of the page, which starts have closed
  what (`ClosedOnce`), that a start in its late steps keeps its place in the
  client or was handed to a stop (`ReservedKept`), and that a switch that waits for
  a stop has one (`SwitchStops`). A socket is set only after a check that the
  start's own capture is still held, which is why it never stands alone.
* `CloneInv` adds that the recorder's pending stop is one of those closing: a stop
  that joins another waits for a blob that somebody makes.
* `SiteInv` is the conjunction of one invariant per part. `FieldInv` adds that a
  field that may not draw keeps no handle, without which a resize of a hidden
  page could bring a second loop; `CodexInv` adds that a recording is marked for
  discarding only when no recorder runs; `AvatarInv` that a manifest in use was
  accepted, so that its clips start and end on the shared frame. Steps of one part
  leave the others alone, and unloading a page establishes all of them.
* The assumption about the store is needed: if `store.write` fails at `resource_supervisor.py:307`, the
  operation has been published and no thread will ever run it.

`ResidencyInv`, `ResetInv`, `EventsInv`, `UserInv`, `HolderInv` and the other invariants were
checked by TLC as invariants of the runs' instances before they were proved.

Only model-checked: liveness (`ThreadTerminates`, `ActivationEnds`,
`LeaseReturns`, `SwitchEnds`, `ResetEnds`, `RecordingEnds`, `QueuedPlays`), which is beyond
TLAPS. Every safety property and action property that a passing run checks is a
theorem. `LeasePinned`, `QueuesStayBounded` and the type invariants are proved and in
no run. What theorems leave out is said in the property: containers that were passed
over (`overlooked`), sessions whose handlers were two at once and leases left by a
failure or a hanging stop (`LeaseAgrees`), an avatar whose drawing fails and manifests in
which two frames have one source (`PictureMatches`), a language that /docs replaced
(`ChoiceKept`), a play that awaits (`PlayHasAudio`).

## 5. What does not hold

Two disagreements of documents and code have a run (section 3):

* *A loading container is not stopped* (`resource_supervisor.py:408`, `:495`): what
  to stop is decided from health, so the other residency group is started beside a
  container that is slow to become healthy, or that the supervisor found loading at
  boot. The design says "ASR/correction and TTS are mutually exclusive residency
  groups". `GroupsStayApart` in `ResourceSupervisor`, run `supervisor_loading`. The
  same blindness is why a rollback after a start timeout may leave the container that
  timed out, why `ready` may leave one of the other group, and why a reset of a target
  that loads ends `ready` without a restart (`:414`); `ExclusiveResidency`,
  `RollbackRestores`, `ReadyDelivers` and `ResetRestartsTarget` say what is promised of
  all other containers.
* *A final is lost and the loop ends* (`realtime.py:519`): `FinalsAnswered` in
  `RealtimePipeline`, run `realtime_loop_breach`.

These others were met as well; the formula is in the module named, in no run. TLC finds
each violated on the instance of its module's run (`RollbackToLastReady` needs a third
operation, `CloseStops` the fair specification with disconnects):

* *A rollback that fails keeps the flags last published* (`:540`): a workload may
  stay reported ready after it was stopped. `FailedReportsUnavailable`.
* *A rollback goes back to what was desired, not to what was last ready* (`:491`):
  after a failed operation the two differ. `RollbackToLastReady`.
* *A partial that is transcribed after the final of its utterance overwrites it*
  (`realtime.py:513`): finals overtake queued partials. `FinalReplacesPartial` in
  `RealtimePipeline`.
* *A socket that closes during an utterance never stops its stream*
  (`realtime.py:170`): the stream is forgotten first, its queued jobs are then
  dropped without being counted as done, `wait_idle` waits for ever and the lease is
  never released. `CloseStops` in `RealtimePipeline`.
* *A session that is opened again while its last stop is not through can listen
  without a lease* (`realtime.py:129`, `:145`, `:334`). A client that closes its socket
  and opens another one does not know whether `close_stream` is done: the stream is
  removed first and its lease released last (`:170`, `:377`), so the new handler acquires
  the lease again, which the worker grants to the same session, and then the old stop
  releases it. Or it joins the stream that is still registered while a `stream.stop`
  waits, and starts it again before the release. A model switch under the stream is then
  accepted. The design says that "An active realtime stream holds a lease for its
  frozen ASR model". `ReopenedHoldsLease` in `RealtimeLease`. The realtime page makes a
  session for each start and is not concerned.
* *A lost acquire leaves the lease with nobody* (`realtime.py:145`): if the gateway gives
  up after the worker has executed the request, or while the request waits for the manager's
  lock, `open` raises before there is a stream whose end would release it. The
  same holds for a release that fails (`_lease_released` stays false, but a second
  `stop` returns at once), for a crash of the gateway, and for a client that has gone
  before `websocket.accept()` (`realtime_routes.py:35`), which stands outside the `try`
  whose `finally` closes the stream. Every other session and
  model is then refused until the worker restarts; a session of the same id could free
  it. `LeaseAttended` in `RealtimeLease`.
* *A device change during the permission prompt* revokes the gate of the realtime
  page and finds nothing to stop; the start goes on and captures behind it
  (`realtimeClient.ts:67`). The design says "On `devicechange`, stop any active stream and
  revoke Ready until rechecked". `CaptureIsChecked` in `RealtimeStudio`.
* */docs does not read the language contract* (`docs-locale.js:4-7`): the server renders
  it in the language of its parameter or in English, and its script stores that
  language. The multilingual design orders parameter, stored choice, English for every
  page (lines 36-42) and says "Swagger UI at `/docs` reads the same locale contract"
  (line 106). A reader who chose Japanese and opens /docs without a parameter finds it,
  and after it the whole site, in English. `DocsReadsContract` in `SiteLocale`;
  `ChoiceKept` is checked and proved up to such a visit. After an unsupported parameter
  the clone page tries the stored choice (lines 38-40), the portal and the studio show
  English (line 42); the design can be read either way.
* *A recording that a second start has replaced never ends* (`codex.js:277-296`): Start
  stays enabled during the permission prompt, the second start overwrites stream,
  recorder and timers, and the first recorder and its microphone run on while the page
  shows ready. `spec/UI.md:45` says "Recording stops automatically at 30 seconds", the
  recorder design (line 45) the same. `EveryRecordingEnds` in `SiteTab`; `RecordingEnds`
  is checked for the phase the page shows and the recorder it holds.

## 6. Behaviour seen while modelling that no document speaks of

* A container that crashes after it was published ready stays published, and the
  fast path of `reconcile` (`resource_supervisor.py:259`) answers `ready` from it.
* `reset` computes the desired set before it submits
  (`resource_supervisor.py:209-225`): it may undo what an operation in between
  has changed.
* An endpoint decision that arrives late is applied to the candidate that is open
  then, even of a later utterance (`realtime.py:563`).
* A correction refused as stale returns without `utterance.completed`
  (`realtime.py:584`).
* `open` looks at the capacity before it awaits the lease (`realtime.py:136`): a stream
  that has released its lease and is not yet removed counts with the next one, and
  `max_sessions` may be exceeded for a moment.
* Two sockets of a session that open at once get a stream each; the second replaces
  the first in `_streams`, and the first is never stopped (`realtime.py:153`).
* `RealtimeCoordinator.close` (`realtime.py:183`) is called by nothing but tests.
* A full final queue pauses the stream, and the completion that follows
  resumes it at once.
* The transcript of a snapshot that is answered late is announced as `asr.partial`
  after the `utterance.completed` of its utterance (`realtime.py:516`); `EventsInOrder`
  leaves room for it.
* The events route never reads from its socket (`app.py:638`): a client that leaves
  while its session is quiet stays registered, its session is never evicted, and
  after `max_sessions` of them `create` refuses everybody.
* A session with a live realtime stream but no subscriber may be evicted; the
  next echo then raises out of `_emit` (`realtime.py:656`) and ends the loop.
* A failed endpoint stage of the text worker is reported by `stage.failed` as
  `endpoint` and by `pipeline.failed` as `correction` (`text_inference.py:163`).
* A file that another worker unlinks between listing and `stat`
  (`pipeline.py:186`) fails the turn although its audio was stored; a worker that is
  overtaken by enough newer files prunes its own and answers its URL.
* A stop that is awaited while a model switch resumes capture sets `active` to
  false afterwards (`App.tsx:196`): the page shows a live capture as inactive. A
  socket that closes by itself never clears `active` (`App.tsx:119`).
* Late messages of an old socket raise `lastSequence` (`reducer.ts:42`): early
  messages of a new one may be dropped.
* A reset that ends during a switch overwrites the selection (`App.tsx:282`).
* A synthesis of the clone page that fails after another was asked for shows an error
  and ends the newer one's generating state (`ttsClone/App.tsx:326`). A play that awaits
  while a new audio revokes its URL fails or plays the new one (`:323`, `:332`).
* Two starts of the clone page's recorder during one permission prompt leave the
  first microphone open (`ttsClone/audio.ts:159`); the late validation of an older
  recording replaces a newer reference (`ttsClone/App.tsx:272`).
* On /codex a second start behind the first one's prompt makes two recorders share
  one set of chunks (`codex.js:277`); a device check that ends during a recording
  enables the buttons.
* Where `localStorage` is blocked the clone page does not render: its module reads it
  without a guard.
* A manifest in which two frames have one source is accepted, and the avatar
  stops at the second of them: images are kept by source. The manifest of the
  repository has no such frames.

## 7. Plan

Done, in this order: supervisor and ledger, manager and lease, realtime pipeline,
session broker, artifact store, realtime page, realtime lease, clone page, the tab with language,
particle field, recorder and avatar. Left, should the project go on:

1. The bounded event queue of a stream in `RealtimePipeline`; `RealtimeLease`
   composed with `SessionBroker`.
2. `RevisionGuard`: the protected tokens and the edit distance of
   `text_inference.py`, against a reference definition; the endpoint
   detector's timers.
3. Speakers' two-step storage, beside `ArtifactStore`.
4. `ResourcePoll` composed with `ResourceSupervisor`: a poll of an operation that
   was replaced or lost in a restart.
5. Proofs: the helpers of `ResourcePoll` and `RealtimeClient` on their own; the
   pages' modules have no type invariant apart from the tab's.

### Not modelled

* Inference, routing, wording, rendering, scripts and asset tools: they keep no
  state that two actors share.
* The supervisor's socket server and command line client: one request at a time.
* Of the pages: unmounting, the analyser and the graph, WAV samples and their
  encoding, amplitudes, the geometry and colours of the field, visemes, the event
  bus and `setStateAvailable`, which no page uses.
* The speaker registry: item 3. The TTS proxy: it forwards and streams, and keeps
  no state.
