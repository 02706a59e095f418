# A verification project for swift-tor

TLA+ models of the Swift code of this repository (`src/Sources/Tor`), the TLC
runs that check them on small instances, and TLAPS proofs of their main
invariants for every value of the constants.  `src/Sources/libtor` is the
vendored C Tor 0.4.8.21; it appears only as what the Swift code can observe of
it.

Contents: [the system](#1-the-system), [the modules](#2-the-modules),
[the runs](#3-the-runs), [fairness](#4-fairness), [the proofs](#5-the-proofs),
[where the documentation and the code differ](#6-where-the-documentation-and-the-code-differ),
[what is abstracted or left out](#7-what-is-abstracted-or-left-out),
[the plan](#8-the-plan).

## 1. The system

An application makes a `TorClient`, calls `start()`, may wait for the bootstrap,
reads the SOCKS endpoint, and calls `stop()`; it may start again.  `start()`
runs `tor_run_main()` on a thread inside the process and talks to it over a
socket pair, the *control connection*.  An application may also open a
`TorControlClient` of its own over TCP to any Tor.  Over either it may add and
delete onion services.

```
 tasks of the application           threads
   | start / stop / wait              |
   v                                  v
 TorClient (actor) --- Thread{} --> tor_run_main (libtor)
   |  eventContinuations               ^
   |    `--> AsyncStream x n           |  control connection
   v                                   |  (socket pair, or TCP)
 TorControlClient --> ControlSocket ---'
                        |  one Mutex, one byte buffer
                        `-- concurrent DispatchQueue: one job for each call
                              |
                              v   bytes in pieces -> lines -> replies
                        ControlProtocolParser --> OnionService, ...
```

| component | state | operations | what is hard | what makes it correct |
|---|---|---|---|---|
| `TorClient` (actor), `TorClient.swift` | `state`, `torThread`, `controlSocketFD`, `controlClient`, `socksEndpoint`, `eventContinuations` | `start`, `stop`, `waitUntilBootstrapped`, `events`, `control`, `makeURLSession` | the actor is reentrant: at each `await` another handler may run; handles read after an `await` may be another run's; Tor may exit, hang, or not answer; every step of `start()` may fail | one Tor in the process; `.stopped` means Tor has gone; no handle of another run; calls end; the transitions `TorState.swift` draws |
| event fan-out (part of `TorClient`) | dictionary of continuations | `events`, `addEventContinuation`, `removeEventContinuation`, `broadcastEvent`, the end of `cleanup()` | registration and removal are two unordered Tasks | a registered subscriber knows the current state; `stop()` ends the streams |
| `TorState` | six cases | – | – | the documented state machine |
| `ControlSocket`, its calls | descriptor, `readTimeout`, Mutex | `sendCommand`, `readReply` | calls run on a concurrent queue, writes are outside the Mutex, the Mutex is free between two lines of a reply; timeouts leave a reply on the connection | each call is answered by its own reply, whole; every call ends |
| `ControlSocket`, its bytes | read buffer, `SO_RCVTIMEO` | `readLine`, `extractLine`, `setSocketTimeout`, `connectTCP` | a `recv` may return half a line or three; a line may not be UTF-8; the time left is truncated | replies are received as they were sent; no wait with a line in hand; every read ends |
| `TorControlClient` | `isAuthenticated` | `authenticate`, `subscribe`, typed commands, `shutdown` | two clients of the socket at once; the loop of `subscribe` reads every line | `isAuthenticated` agrees with Tor; streams end with the connection |
| `OnionService`, `OnionKeySpec` | an ID and perhaps a private key; the services themselves are Tor's | `addOnion`, `delOnion` | services outlive calls that time out and, detached, connections; a key comes back in another spelling | each service is accounted for; an ID has its own key; a call that returns did what it returns, once |
| `ControlProtocolParser` | – | replies, attributes, events | a data block may hold lines that look like its end, or like a reply's | inverse of what Tor formats |
| Tor's end of a control connection | the commands taken, services and their owners | takes commands in order, answers each | what the Swift side may rely on | – (environment) |
| `TorConfiguration`, `OnionPortMapping`, `HostPort`, `TorEvent`, `TorError`, `TorSession`, `URLSession+Tor`, `Tor.swift` | values | formatting, protocols | – | – |
| TorDemo, Snippets | – | example programs | – | – |
| libtor | – | third-party | – | – |

`PROJECT.json` says for each whether it is modelled, and lists the hazards of
this code at their lines with the properties that cover them.

## 2. The modules

`TorClient` family:

- **`EventStreams`** – the dictionary `eventContinuations` and the streams.  One
  action for each of: reading `events`, the posted registration, a consumer
  that leaves, the posted removal; `Broadcast` and `FinishAll` are the parts of
  the actor's actions that touch streams (`broadcastEvent`, end of `cleanup`).
- **`TorClient`** (extends it) – the actor.  An action is one *job*: the code of
  a handler between two suspension points, with all it changes.  `pc[c]` is the
  suspension point at which task `c` waits.

  | label | waits in | next job |
  |---|---|---|
  | `launching` | `withCheckedThrowingContinuation` (209) | `StartResumes` |
  | `settling` | the 500 ms sleep (278) | `StartSettles`, `StartCancelled` |
  | `asking`, `answered` | `getInfo` in `discoverSocksPort` (496) | `DiscoverAddress`, `DiscoverUnix`, `DiscoverFails` |
  | `pausing` | the 250 ms sleep (510) | `DiscoverAgain`, `DiscoverGivesUp` |
  | `signalling`, `signalled` | `controlClient.shutdown()` (335) | `WriteShutdown`, then `StopJoins` or `ThreadJoined` |
  | `joining` | a 100 ms sleep of the polling (341) | `ThreadJoined`, `StopWindowExpires` |
  | `polling`, `reported`, `complete` | `getBootstrapStatus` (396) | `WaitBroadcasts`, `WaitPollFails` |
  | `resting` | the sleep between polls (408) | `WaitPollsAgain`, `WaitThrows` |

  A *run* is one thread with its socket pair; every handle of the actor holds a
  run or `Nil`, and `loc[c]` the run a task has captured in a local variable
  across an `await`.  `thread[r]` goes `none, launched, setup, main, exited`;
  `Executing` is `Thread.isExecuting`, false both before `setup` and after
  `main`.
- **`TorStateMachine`** – the abstract specification: the six states, the
  transitions that `TorState.swift` (19–28) draws, when a Tor may run, and that
  a start and a stop end.
- **`TorClientProperties`** – the properties, the inductive invariants, the
  refinement mapping (`st <- state`, `tor <-` some thread executes) and the
  documentation's claims.
- **`MCTorClient`** – who calls what, for TLC.
- Proofs: **`TorClientProofs`** (the client), **`TorStateProofs`** (the refinement
  of `TorStateMachine`), **`EventStreamProofs`** (the streams),
  **`SequenceLemmas`**.

Control connection family:

- **`ControlPeer`** – Tor's end: takes commands in order, answers each with one
  reply of one or more lines, emits events once subscribed, ends the connection
  on a refused command before the authentication (`control.c` 510–517,
  `control_auth.c` 413–416).
- **`ControlSocket`** (extends it) – the socket: one command in flight for each
  task, the Mutex, the collection of a reply line by line, its failures.
- **`TorControlClient`** (extends it) – `authenticate`, `subscribe` and the loop
  it leaves behind, and the typed commands, each of which is one `sendCommand`
  and a look at its status.  Its properties are at its end.
- **`MCTorControlClient`**, **`TorControlProofs`**.

Reply framing family, the same connection seen below the level of lines:

- **`ReplyGrammar`** – pure: how Tor writes a reply (`Format`, with stuffed data
  blocks; `control_proto.c`), how `readReply` finds its end (`GoesOn`,
  `InDataAfter`) and how `parseReply` reads it (`ParseReply`).
- **`ReplyChannel`** – the abstract specification: a queue of replies, each
  received once, in order, with its meaning, unless one is given up; and a reply
  that was sent is received or given up.
- **`ReplyFraming`** (extends `ReplyGrammar`) – one task reads: the bytes on their
  way, the read buffer, `extractLine`, the loop of `readLine` with its deadline,
  `setSocketTimeout`, `recv` of any number of bytes.
- **`MCReplyFraming`**, **`ReplyFramingProofs`**.

Onion family:

- **`OnionTypes`** – keys, clients, the three requests and how a call can end.
- **`OnionRegistry`** – the abstract specification: whose the service of each key
  is; a call takes effect once between its begin and its return, and returns
  what it did; of a client one of whose calls has timed out only the effects are
  constrained.
- **`OnionServices`** – `addOnion` and `delOnion` of several clients of one Tor,
  the replies left behind by timeouts, the end of a connection (a client over
  TCP that is released; the embedded one does not own its descriptor) and of
  Tor.  Its properties are at its end.
- **`MCOnionServices`**, **`OnionProofs`**, **`OnionRefinementProofs`**.

How the families meet.  `TorClient` does not extend the control family: to the
actor a call on its client is a suspension that ends with an answer or fails,
and it must bear both at any moment, which includes everything a disturbed
connection can do to it.  `ControlSocket` takes a line for a unit, which
`ReplyFraming` justifies for each reader: whatever the cuts, a line is taken out
of the buffer whole and in order.  `OnionServices` takes a reply for a sequence of
lines and a timeout for the loss of any of its first ones, which is what
`ControlSocket` leaves behind for a single task.

Definitions introduced by `\* mutant:` are wrong variants of the operator that
follows.  They are not used by any specification; each shows that a property
can tell the code from a plausible bug.

## 3. The runs

| run | instance | states | shows |
|---|---|---|---|
| `client_serial` | one driver, a waiter, Tor may exit by itself, 3 runs | 16 651 | `AtMostOneTor`, `StoppedMeansExited`, `DirectoryOutlivesTor`, their strengthening `SerialInv`; `StopEndsTor`; the refinement of `TorStateMachine` with its liveness |
| `client_faulty` | the same, all faults, 3 runs, no assumption on Tor | 519 307 | no handle of an earlier run is held (`HandlesAreCurrent`); every call ends (`EveryCallReturns`) |
| `client_overlap` | two tasks start and stop at will, all faults, 2 runs, one subscriber | 3 534 696 | what holds even then: `StoppingHasOwner`, `NoThreadOutsideSession`, `ThreadNeverReplaced`, `StoppedIsClean`, `SubscriberUpToDate`, `StopEndsRegistered` |
| `control_shared` | one task that authenticates, one that subscribes, both send commands; replies of one line and of two; timeouts, close | 471 451 | `AnsweredOwn`, `NoneWaitsInVain`, `AuthenticatedByTor`, `CallsReturn`, `CloseEndsStreams` |
| `control_framing` | one task, 2 commands, 3 replies (a refusal of two lines; two data blocks whose lines look final and like the block's end; a line that is not UTF-8), every cut by `recv`, deadlines, close | 155 827 | `NothingLost`, `WaitsForMore`, `ReadEnds`; the refinement of `ReplyChannel` with its liveness |
| `onion_registry` | the embedded client and one over TCP, a generated key and one of the application's own, 3 calls, timeouts, exit | 119 218 | `Accounted`, `KeyBelongs`, `Vanish`; the refinement of `OnionRegistry` |
| `v_transitions`, `v_stopped_thread`, `v_starting`, `v_swapped`, `v_stream_ends`, `v_readopt` | small | – | six claims of the documentation that the code violates (section 6) |

Bounds, and why they are enough.  `MaxRuns = 3` lets a client be started,
stopped, started, stopped and started: a leftover of run 1 meets run 2, and one
of both meets run 3; with two drivers 2 runs suffice for one `start()` to be
overtaken by a `stop()` and another `start()`.  `DiscoverTries` is 20 in the
code; with 2 there is a first attempt, a repeated one and a last one.
`PollLimit` bounds the polls of one wait, whose only memory is the captured
client.  In `client_overlap` both are 1: a discovery that has begun can still
be overtaken at each of its suspensions, and the repeated attempt is left to
the serial runs.  One stream suffices there, because streams do not interact, and the data
directory is not owned there, so that `stop()` keeps it: no property of that run
is about it.
In `control_shared` `MaxCalls` (commands of a task) is 2 for each of two tasks:
a reply can be late for one command and meet the next, and two calls can take
each other's lines; replies have one line or two, so that a reply can be torn.
`MaxPending` bounds the lines on their way only at the moment Tor emits an event.
In `control_framing` two commands let what one `recv` brings too much, or a
deadline leaves behind, meet the next reply.  In `onion_registry` three calls in
all are an add, a late reply and a call that meets it, or an add, a removal and
a second add, by the same client or by two; `k1` is a key Tor generates and `k2`
one that is provided, so that a collision of the two clients occurs on `k2`.
These bounds limit the runs only: the safety properties of these runs are proved
for any bounds (section 5).

`CHECK_DEADLOCK FALSE`: callers may stop calling, the number of runs and of
commands is bounded, and a connection may be closed; all of these are states in
which the system really may rest.  That no call is stuck is what
`EveryCallReturns`, `CallsReturn` and `ReadEnds` say.

## 4. Fairness

- `FairSpec` of `TorClient`: `WF(Job(c))`, each job of a handler that can run
  does (the Swift runtime schedules an actor's jobs; a `Task.sleep`, the 10 s
  window of `stop()` and the deadline of a poll end); `WF(ThreadStep(r))`, a
  thread that was started begins and gets through its setup.  A call to Tor
  ends with or without an answer (`DiscoverFails`, `WaitPollFails`), because a
  `recv` has a deadline.  Nothing is assumed of Tor: it need not answer, not
  bootstrap, and not exit.
- `ObedientSpec` adds that a Tor that was sent `SIGNAL SHUTDOWN` exits; used only
  for `client_serial`, where `StopEndsTor` and the abstract specification's
  liveness need it.
- `FairSpec` of `TorControlClient`: the steps of a call and of a subscription's
  loop are fair, for each task; a `recv` returns at its deadline at the latest.
  Nothing is assumed of Tor.  Calls compete for the Mutex: weak fairness of a
  task's steps together suffices in the bounded instances because each command
  and each line is used up.  The lock itself does not promise it: against a loop
  of `subscribe` that runs for ever a call may starve (see the hazards).
- `FairSpec` of `ReplyFraming`: `WF(Reader)`, the thread in `readLine` runs and a
  `recv` returns at its timeout; `WF(TimePasses)`, the deadline passes.  Nothing is
  assumed of Tor, nor of the signals that may interrupt a `recv`.  `ReadEnds` therefore has an exception, and claims nothing of a
  `recv` whose timeout `setSocketTimeout` has truncated to zero
  (`ControlSocket.swift:411`): that one waits for Tor.
- `FairSpec` of `OnionServices`: `WF(TorStep(c))` for each connection, Tor gets to
  what is on it.  `Vanish` needs that Tor sees the end of a connection.

## 5. The proofs

For any set of tasks or clients, any bounds, any faults, any replies; where a
theorem needs more it says so in its `ASSUME`, and the section names it.  The
assumptions on constants are the named `ASSUME`s of the modules: types and
ranges.

### The client (`TorClientProofs`, `TorStateProofs`)

For **any** callers and faults:

- `TypeCorrect` (`TypeOK`).
- `SessionInvariant`: `StoppingHasOwner /\ NoThreadOutsideSession /\
  StoppedIsClean` is inductive relative to `TypeOK`.  The parts need each other
  not for their own sake but to be carried through the same case analysis; the
  first says the guard of `stop()` and the one place that leaves `.stopping`
  match even when handlers overlap.  Corollaries `StoppingAlwaysHasOwner`,
  `NoThreadLeftOver`, `StoppedAlwaysClean`; from the second part `NoThreadReplaced`
  (`ThreadNeverReplaced`): `start()` is let in only from states where no thread
  is held.

For **one driver** (`OneDriverOnly`: at most one task calls `start`/`stop`) and
any faults:

- `HandlesCurrent` (`HandlesAreCurrent`).  `CurrentInv` adds `CallsOwnState`, the
  call under way is the only one and accounts for the state, and `ClearedBetween`,
  the handles are empty when a `start()` is let in.  The second is what
  `cleanup()` at the end of `stop()` is for, and the first is what keeps it true
  until `start()` resumes.

For one driver with a **controllable** Tor (`TorControllable`: no fault `socket`,
`cancel`, `late`, each of which takes from the driver its means to end Tor):

- `SerialInvariant` (`SerialInv`): only the latest run can be alive
  (`RunsInOrder`), the continuation is resumed exactly when the thread leaves its
  setup (`ResumedBySetup`), the start or stop in flight owns the state and the
  handles (`StartOwnsRun`, `StopOwnsRun`), and what the actor holds in each state
  (`HandlesByState`).  It is needed because what `stop()` relies on when it polls
  the thread (that this thread is the only one, and has been told to shut down)
  was established several jobs earlier, in `start()`.
- Hence `OneTorAtATime`, `StoppedThreadsExited`, `DirectoryKept`.

For one driver and no fault but Tor ending by itself (`OnlyExits`):

- `StateMachineFollowed`: the client implements the safety part of
  `TorStateMachine`, each step a documented transition or none.  `MachineInv` adds
  to `SerialInv` that `.starting` has a `start()` under way and that no
  continuation was resumed with an error.  Every other fault breaks it: a
  `start()` that throws leaves `.starting`, from where `stop()` goes to `.stopped`;
  a Tor that outlives `stop()` runs in `.stopped`.

These assumptions are not decoration: without the first, `v_stopped_thread` is
the counterexample to `StoppedThreadsExited`; without the second, a thread left
by a cancelled `start()` is.

### The streams (`EventStreamProofs`), any callers and faults

`SubscribersUpToDate` and `StopEndsStreams`.  `StreamInv` adds to the property
that a stream in use is waiting for its registration, registered, or ended
(`Kept`), and that before its registration it has been told nothing (`Untold`).
Seen from the streams each step of the client is one of four: quiet, a
broadcast, a broadcast with an assignment of `state`, the end of `cleanup()`;
the proof shows this classification first and works with it.

### The control connection (`TorControlProofs`)

- `TypeCorrect`.
- `AuthenticationSound` (`AuthenticatedByTor`).  By itself it is not inductive:
  `isAuthenticated` is set from an `outcome`, which comes from collected lines,
  which come off the connection.  `AuthInv` says that until Tor has accepted an
  `AUTHENTICATE`, all of these hold nothing but refusals, so even a reply stolen
  from another task, or late, cannot be taken for a success.

For finitely many tasks (`TasksFinite`) and replies without data blocks
(`PlainReplies`: lines that go on and then one that does not), which the
properties are about anyway (a data block that two readers share has no reader
that knows where it ends):

- `NoCallForgotten` (`NoneWaitsInVain`), a counting argument: on an open connection
  where no subscription reads along, there are no more calls reading than commands
  with Tor and final lines on their way, taken together.  Each final line ends
  one read, whosever it is; a timeout ends a read without taking one.  `WaitInv`
  adds that no data block is on its way, in which a final line would not count.
- `RepliesBelong` (`AnsweredOwn`).  `OwnInv` says that a call which was alone when
  it wrote and has stayed alone is the only one reading (`SoloAlone`), and that,
  as long as nothing has timed out and no events were asked for, what is on its
  way ends with a final line, final lines and commands are no more than the calls
  reading (`Counted`, the opposite bound to that of `NoneWaitsInVain`), and either
  such a call's command is all that Tor has, or the lines it has collected and
  those on their way are its own reply (`SoloServed`).  `Counted` is what rules a
  leftover out: when a call begins alone, nothing is on its way.

Of a data block that two calls share neither gets the whole, so the two theorems
end where such replies begin.  For **one caller** (`OneCaller`: the others never
call) they are let in:

- `OneCallerAnswered` (`AnsweredOwn`): for replies of any form that ends where
  `readReply` stops (`WellFormedReplies`; `ReplyIsReadBack` below says that all
  replies Tor formats do).  `AloneInv` says that the call's command is with Tor and
  nothing on its way (`Asked`), or the lines collected and those on their way are
  its reply, with `inData` where that reply has a block (`Answered`), and that
  between calls nothing is on its way.  A `SETEVENTS` that was accepted is not calm
  any more, so no loop of `subscribe` takes a line.

### Framing (`ReplyFramingProofs`), any texts, replies, faults and number of commands

- `DataIsTransparent`: whatever line Tor puts into a data block, however many dots
  it begins with, `readReply` stays in the block and `parseReply` gives that line
  back.
- `ReplyIsReadBack`: of whatever reply Tor formats, any number of items with bodies
  of any length, `readReply` asks for another line after each but the last, and
  `parseReply` accepts the lines and reads the reply's `Meaning`.  `Reads(raw, acc)`
  says that the lines `raw` leave `parseReply` with `acc` and `readReply` asking for
  more; it is extended by a body line (`ReadsBody`), an item (`ReadsItem`) and the
  items (`ReadsItems`), each by induction.
- `NeverWaitsNeedlessly` (`WaitsForMore`): wherever `recv` cuts, `readLine` never
  waits with a whole line in its buffer, as long as every line was UTF-8.
- `FramingTypeCorrect` (`TypeOK`), `NothingIsLost` (`NothingLost`) and
  `FramingImplementsChannel` (the safety part of `ImplementsChannel`), all from one
  invariant, `IInv`.  `NothingLost` is not inductive: it compares bytes, and says
  nothing of where a line begins or where the call stands in its reply, which is
  what `extractLine` and `readReply` decide by.  `Framed` says that buffer, wire and
  what Tor's end has cut off are the bytes of whole lines `ls`, and that these
  complete the collected ones to the lines of the replies that were sent; what
  was cut off is a witness, not a variable.  `Collected` says that `inData` of
  `readReply` is what `parseReply` would compute from the collected lines, and that
  these are not yet the whole of the first reply.  `FirstLine` shows that the
  first CR LF ends the first of `ls`; `NextLine` that it is the next line of the
  first reply, and by `ReplyIsReadBack` that the call ends just when it is the last.

What the sequences of lines and bytes are for every input is proved by induction
after all, with sets in the place of predicates: `NatSetInduction` of
`SequenceLemmas` (a set that holds 0 and the successors of its members is `Nat`)
comes from the library's `WFMin`, `RecursionExists` from it, and the facts about
`FlattenSeq` from that.  This is why `ParseReply` is a recursive function and not a
fold.

### Onion services (`OnionProofs`, `OnionRefinementProofs`)

- `TypeCorrect`.
- `KeysBelong` (`KeyBelongs`): `KeysInv` says that every reply on its way, cut or
  not, tells of one key only; a cut keeps it true.
- `ServicesAccounted` (`Accounted`): `AccountInv` adds that a connection that has
  ended holds no request and no service (`Connected`), that a client none of whose
  calls timed out has one request or one reply, its own (`InTurn`), that what is
  asked for is known (`KeysKnown`), and that a service whose ID the application
  does not have is about to be read (`NewOnesKnown`).
- `RegistryImplemented` (`ImplementsRegistry`): `OnionServices` implements
  `OnionRegistry`, the initial states and each action, from `AccountInv`.  The
  linearisation point of a call is the step in which Tor takes its request; the
  abstract call is asked, done, lost or over according to where the request or
  its reply is.

### Only model-checked

Liveness (`EveryCallReturns`, `StopEndsTor`, `CallsReturn`, `CloseEndsStreams`,
`ReadEnds`, `Vanish`, and the liveness of `ImplementsStateMachine` and
`ImplementsChannel`), which is out of the prover's reach.  Every invariant and
action property of the passing runs, and the safety part of each refinement, is a
theorem, some under the assumptions named above.

## 6. Where the documentation and the code differ

Each of the first six is a run TLC ends with a counterexample.

1. `v_transitions` – `TorState.swift:19-28` lists the legal transitions.  A
   `stop()` during a `start()` is accepted (`TorClient.swift:326`), and `start()`
   assigns `.running` after its awaits without looking at the state again (294):
   `.starting -> .stopping` and `.stopped -> .running` occur.
2. `v_stopped_thread` – `TorState.swift:97`: in `.stopped` the thread has
   returned.  `stop()` asks `isExecuting` (340), which is also false of a thread
   that has not begun.
3. `v_starting` – `TorState.swift:106-107`, `TorError.swift:91`: a failed start
   surfaces as `.failed`.  Nothing assigns `.failed`; the state stays
   `.starting`, and later starts throw `alreadyStarted` until a `stop()`.
4. `v_swapped` – `ControlSocket.swift:515-517`, `TorControlClient.swift:44-45`:
   concurrent commands are serialised.  The write is outside the Mutex and the
   Mutex is taken anew for each line: replies are swapped.
5. `v_stream_ends` – `TorControlClient.swift:383-385`: an event stream lasts until
   the connection closes or the consumer cancels.  The read timeout of a quiet
   connection ends it, too.
6. `v_readopt` – `OnionService.swift:58-59`, `README.md:174-180`: the private key of
   an earlier reply brings the service back.  `providedV3` puts `ED25519-V3:` before
   the string it is given (74), the key that `addOnion` returned has that prefix
   already, and Tor answers 512.  A bare blob works; no API hands one out.

Others, seen while modelling, that need no model to see:

- `cleanup()` (`TorClient.swift:481`) drops the control descriptor without closing
  it; `TorState.swift:97-98` says it is closed.
- `.running` without an endpoint or client is possible (`TorClient.swift:294`);
  `TorState.swift:77-78` says both are there.
- `.stopped` is broadcast (358) after `cleanup()` has finished and forgotten the
  subscribers: none is told, against `TorClient.swift:451`.
- A registration that runs after `stop()` keeps its stream open (466), against
  `TorSession.swift:100-101`.
- A late subscriber may see bootstrap 100 without `.starting` (397, 463), against
  `TorSession.swift:133-135`; two waiters reorder their progress reports (396),
  against 374–375.
- After a Tor that outlived the 10 s window, a restart runs `tor_run_main` twice
  at once (345), against `tor_api.h:102-103`.
- After a refused cookie `authenticate()` tries the next method on a connection Tor
  has closed: `ioError`, not the documented `controlAuthFailed`
  (`TorControlClient.swift:217-259`).
- The setter of `readTimeout` waits for the Mutex, so for a read under way
  (`ControlSocket.swift:95-98` says it is safe to call at any time).
- `addOnion` says it echoes a provided key; Tor does not repeat a key it was given,
  and the result has `privateKey == nil`.  A key already on the air ends in
  `controlProtocolError` with 550, no error of its own.
- `OnionService.swift:59` takes `GETINFO onions/current` for a source of keys; it
  lists service IDs.
- An `addOnion` that times out may have made its service: nobody has its ID, and a
  retry makes another (`Accounted` excuses just these).  A service of a released
  client that does not own its descriptor stays until Tor exits, and no other
  client may delete it.
- `getInfo` of a key whose value comes as a data block returns the empty string;
  of two data blocks in a reply the last is kept (`ControlProtocolParser`).
- A line that is not UTF-8 is dropped, and the call then times out
  (`ControlSocket.swift:399`).
- A time left below a microsecond makes a zero timeval, that is no timeout
  (`ControlSocket.swift:411`).
- `authenticate(password:)` (`TorControlClient.swift:239`) and `setConf` (351) escape
  quotes but not backslashes, and Tor takes a backslash for an escape
  (`qstring.c:38, 82`): a password with a backslash, supplied as 199–201 describe,
  is not the one Tor hears, or has no closing quote.
- `parseAttributes` undoes the escapes of quotes and backslashes; `esc_for_log` also
  escapes an apostrophe, line ends, tabs and what is not printable
  (`escape.c:65-93`), so a `SOCKS_USERNAME` with an apostrophe keeps its backslash.
- Of an event of several lines the final `650 OK` is delivered as an event
  (`TorControlClient.swift:409`).
- A write to a connection that has ended raises SIGPIPE, which nothing under
  `src/Sources/Tor` suppresses; `ioError` is documented.
- The loop of `subscribe()` keeps client and socket alive, so that dropping the
  client does not close a connection it reads.
- Cancelling the consumer does not end the loop of `subscribe()`: the loop is an
  unstructured Task of its own (`TorControlClient.swift:405`).

## 7. What is abstracted or left out

- `TorClient`: early returns that change nothing (`start()` in a wrong state,
  `stop()` in `.idle`) are stutters.  `Thread.cancel()` sets a flag nothing
  reads.  Time is abstract: a sleep ends at some moment.  Two concurrent
  `tor_run_main` are undefined in libtor; the model flags them (`AtMostOneTor`)
  and goes on as if they did not disturb each other.  How a call on the
  connection fails is not told apart.  `sanitizeFileDescriptorLimit()` changes a
  process limit only.  `stop()`'s outcome `.failed` is in the guards, as in the
  code, although nothing assigns it.
- Streams: a stream is unbounded, its consumer is not modelled beyond leaving.
- Control connection: a write and a line are atomic (a torn write of two
  concurrent commands is not modelled); an event is one line; a reply's text is
  its kinds of lines; at most one subscription for each task; SIGPIPE on a write
  to a closed socket is taken for a lost write.  `AuthenticatedByTor` concerns a client whose
  callers do not send `PROTOCOLINFO` with `sendRaw`.
- Framing: a byte is a token, the text of a line, CR or LF; a recv may split
  between tokens, so a line's text is never cut in itself, which `extractLine`
  could not tell from a line not yet complete.  One reader; the Mutex and other
  readers are those of `ControlSocket`.
- Onion services: one task for each client, replies whole but for a timeout; the
  key Tor will generate is drawn when the call is made, which no other client can
  tell.  Ports, client authorisation and `MaxStreams` are left out.  A client that
  is released has no call under way.
- `ControlPeer` models the checked-in Tor as far as the Swift code can tell; its
  `TorEmits` and `TorCloses`, like `TorAnswers`, `TorReports`, `TorBootstraps` of
  `TorClient`, and Tor's side of `ReplyGrammar`, `ReplyFraming` and
  `OnionServices`, are external or mapped to the lines of libtor they stand for.
- Not modelled, because they are functions of one text or value without state:
  `parseAttributes`, `parseGetInfoResponse`, `parseBootstrapStatus` and
  `parseAsyncEvent` of `ControlProtocolParser`; how commands are written out;
  `TorConfiguration`, `OnionPortMapping`, `HostPort`, `TorEvent`, the texts of
  `TorError`; `URLSession+Tor` and `makeURLSession`, which read the client.  A model
  of these would be their code over again.
- Not modelled, because no state of theirs survives and nothing runs along:
  `connectTCP` and the other initialisers of `ControlSocket`.  The setter of
  `readTimeout` waits for the Mutex and then assigns.
- The examples.
- libtor.  Of the lines of C, C++ and Swift in this repository nearly all are the
  vendored Tor, third-party code; the Swift package is its client.  The share of
  all lines that the models stand for is therefore small by nature, and of libtor
  only what the Swift code depends on is here: the control protocol's replies,
  the authentication, the services of `ADD_ONION`, the entry and exit of
  `tor_run_main`.

## 8. The plan

Done, in this order: `EventStreams`, `TorClient`, its abstract specification and
proofs; `ControlPeer`, `ControlSocket`, `TorControlClient` and their proofs;
`ReplyGrammar`, `ReplyFraming` and its channel; `OnionServices` and its registry
with the proof of the refinement; the proofs about streams, current handles, the
state machine, the calls of a connection, and the framing of replies.

What could follow:

1. Two `TorControlClient`s of one Tor composed with `TorClient`, so that the end of
   a run ends connections whose calls are under way.
2. The setter of `readTimeout` as a third user of the Mutex in `ControlSocket`.
3. The tokenizer for quoted strings of `parseAttributes` against a reference
   definition, over bounded inputs.
4. Torn writes: `write` in pieces by two tasks (`ControlSocket.swift:204-251`).
