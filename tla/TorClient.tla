------------------------------ MODULE TorClient ------------------------------
(***************************************************************************)
(* The actor TorClient: start(), stop() and waitUntilBootstrapped(), the   *)
(* threads that run Tor, and the tasks of the application that call it.    *)
(*                                                                         *)
(* An actor runs one job at a time, but it is reentrant: a handler gives   *)
(* the actor up at each `await` and finds it later in whatever state the   *)
(* other tasks left it.  An action is therefore one job: the code between  *)
(* two suspension points of a handler.  pc[c] says where task c waits.     *)
(*                                                                         *)
(* A run is one Thread{...} made by start(), with the control socket pair  *)
(* it creates; runs are numbered in the order they are made.  A handle of  *)
(* the actor (torThread, controlClient, controlSocketFD) holds the run it  *)
(* belongs to, or Nil.                                                     *)
(***************************************************************************)
EXTENDS Integers, EventStreams

CONSTANTS
    Callers,             \* tasks of the application
    May,                 \* May[c]: the operations task c calls
    Faults,              \* what may go wrong, a subset of FaultKinds
    OwnsDataDirectory,   \* configuration.ownsDataDirectory
    SocksFixed,          \* configuration.socksPort is .fixed
    SocksAnswers,        \* what GETINFO net/listeners/socks may name
    MaxRuns,             \* bound: how often start() may get as far as a thread
    DiscoverTries,       \* attempts of discoverSocksPort (20 in the code)
    PollLimit            \* bound: polls of one waitUntilBootstrapped

(* "dir"       createDirectory throws, or the removal in stop() fails      *)
(* "config"    tor_main_configuration_new returns NULL                     *)
(* "socket"    the control socket pair cannot be made: the descriptor is -1*)
(* "cancel"    the task that called start() is cancelled                   *)
(* "exit"      tor_run_main returns by itself: bad argv, port in use       *)
(* "late"      Tor is still running 10 s after it was sent SHUTDOWN        *)
FaultKinds == {"dir", "config", "socket", "cancel", "exit", "late"}

Operations == {"start", "stop", "wait"}

ASSUME CallersMay == May \in [Callers -> SUBSET Operations]
ASSUME FaultsKnown == Faults \subseteq FaultKinds
ASSUME FlagsBoolean == OwnsDataDirectory \in BOOLEAN /\ SocksFixed \in BOOLEAN
ASSUME AnswersKnown == SocksAnswers \subseteq {"tcp", "unix", "other"}
ASSUME BoundsNat ==
    MaxRuns \in Nat /\ DiscoverTries \in Nat \ {0} /\ PollLimit \in Nat \ {0}

Runs == 1 .. MaxRuns
Nil == 0                \* no thread, no client, descriptor -1
NoEndpoint == -1        \* socksEndpoint = nil
Configured == 0         \* socksEndpoint taken from the configuration
\* any other value of socksEndpoint is the run that answered the query

StartLabels == {"launching", "settling", "asking", "answered", "pausing"}
StopLabels == {"signalling", "signalled", "joining"}
WaitLabels == {"polling", "reported", "complete", "resting"}
\* where a task works with the run it captured
AtRun == {"launching", "settling", "asking", "answered", "signalling",
          "signalled"} \cup WaitLabels
Labels == {"idle"} \cup StartLabels \cup StopLabels \cup WaitLabels

Phases == {"none", "launched", "setup", "main", "exited"}
Resumptions == {"pending", "fd", "nofd", "error"}

VARIABLES
    state, socksEndpoint, controlSocketFD, torThread, controlClient,
    run,           \* runs made so far
    thread,        \* thread[r]: how far the thread of run r is
    contin,        \* contin[r]: what start()'s continuation was resumed with
    shutdowns,     \* runs whose Tor was written SIGNAL SHUTDOWN
    bootstrapped,  \* runs whose Tor reached 100 %
    dataDir,       \* the data directory exists
    pc, loc, tries \* per task: where it is, the run it captured, its attempts

actorVars == <<state, socksEndpoint, controlSocketFD, torThread, controlClient>>
torVars == <<run, thread, contin, shutdowns, bootstrapped>>
taskVars == <<pc, loc, tries>>
vars == <<actorVars, torVars, dataDir, taskVars, streamVars>>

TypeOK ==
    /\ state \in StateNames
    /\ socksEndpoint \in {NoEndpoint, Configured} \cup Runs
    /\ controlSocketFD \in {Nil} \cup Runs
    /\ torThread \in {Nil} \cup Runs
    /\ controlClient \in {Nil} \cup Runs
    /\ run \in 0 .. MaxRuns
    /\ thread \in [Runs -> Phases]
    /\ contin \in [Runs -> Resumptions]
    /\ shutdowns \subseteq Runs
    /\ bootstrapped \subseteq Runs
    /\ dataDir \in BOOLEAN
    /\ pc \in [Callers -> Labels]
    /\ loc \in [Callers -> {Nil} \cup Runs]
    /\ tries \in [Callers -> Nat]
    /\ \A c \in Callers : pc[c] \in AtRun => loc[c] # Nil
    /\ StreamsTypeOK

Init ==
    /\ state = "idle"
    /\ socksEndpoint = NoEndpoint
    /\ controlSocketFD = Nil
    /\ torThread = Nil
    /\ controlClient = Nil
    /\ run = 0
    /\ thread = [r \in Runs |-> "none"]
    /\ contin = [r \in Runs |-> "pending"]
    /\ shutdowns = {}
    /\ bootstrapped = {}
    /\ dataDir = FALSE
    /\ pc = [c \in Callers |-> "idle"]
    /\ loc = [c \in Callers |-> Nil]
    /\ tries = [c \in Callers |-> 0]
    /\ StreamsInit

Fault(f) == f \in Faults
Goto(c, label) == pc' = [pc EXCEPT ![c] = label]
Calls(c, op) == pc[c] = "idle" /\ op \in May[c]

\* mutant: stop() takes no thread for an executing one
NotExecuting(t) == FALSE

(* Thread.isExecuting: false before the thread has begun and once its      *)
(* block has returned; `torThread?.isExecuting == true` is false for nil.  *)
Executing(t) == t # Nil /\ thread[t] \in {"setup", "main"}

-----------------------------------------------------------------------------
(* start()                                                                 *)

StartEnters(c) ==
    /\ Calls(c, "start")
    /\ state \in {"idle", "stopped", "failed"}
    /\ state' = "starting"
    /\ Broadcast("starting")
    /\ UNCHANGED <<socksEndpoint, controlSocketFD, controlClient,
                   contin, shutdowns, bootstrapped, tries,
                   opened, adding, removing, eventContinuations, ended>>

(* Up to the suspension on the continuation.                               *)
StartLaunches(c) ==
    /\ StartEnters(c)
    /\ run < MaxRuns
    /\ dataDir' = TRUE
    /\ run' = run + 1
    /\ torThread' = run + 1
    /\ thread' = [thread EXCEPT ![run + 1] = "launched"]
    /\ loc' = [loc EXCEPT ![c] = run + 1]
    /\ Goto(c, "launching")

(* createDirectory throws, so start() does, and leaves the rest as it is.  *)
StartLacksDirectory(c) ==
    /\ StartEnters(c)
    /\ Fault("dir")
    /\ UNCHANGED <<torThread, run, thread, dataDir, pc, loc>>

(* The continuation is resumed: with an error start() throws, else it      *)
(* stores the descriptor and sleeps 500 ms.                                *)
StartResumes(c) ==
    /\ pc[c] = "launching"
    /\ contin[loc[c]] # "pending"
    /\ \/ /\ contin[loc[c]] = "error"
          /\ Goto(c, "idle")
          /\ UNCHANGED controlSocketFD
       \/ /\ contin[loc[c]] # "error"
          /\ controlSocketFD' = IF contin[loc[c]] = "fd" THEN loc[c] ELSE Nil
          /\ Goto(c, "settling")
    /\ UNCHANGED <<state, socksEndpoint, torThread, controlClient,
                   torVars, dataDir, loc, tries, streamVars>>

(* Task.sleep throws because the calling task is cancelled.                *)
StartCancelled(c) ==
    /\ Fault("cancel")
    /\ pc[c] = "settling"
    /\ Goto(c, "idle")
    /\ UNCHANGED <<actorVars, torVars, dataDir, loc, tries, streamVars>>

\* mutant: the attempts are not counted
AttemptUncounted(c, client, n) ==
    /\ UNCHANGED tries
    /\ IF client # Nil
       THEN Goto(c, "asking") /\ loc' = [loc EXCEPT ![c] = client]
       ELSE Goto(c, "pausing") /\ UNCHANGED loc

(* One iteration of discoverSocksPort's loop with the client in hand: ask  *)
(* it and wait for the answer, or without a client sleep 250 ms.           *)
Attempt(c, client, n) ==
    /\ tries' = [tries EXCEPT ![c] = n]
    /\ IF client # Nil
       THEN Goto(c, "asking") /\ loc' = [loc EXCEPT ![c] = client]
       ELSE Goto(c, "pausing") /\ UNCHANGED loc

(* After the sleep: bind a client to the descriptor the actor holds now,   *)
(* and begin the discovery.                                                *)
StartSettles(c) ==
    /\ pc[c] = "settling"
    /\ controlClient' = IF controlSocketFD # Nil THEN controlSocketFD
                                                 ELSE controlClient
    /\ Attempt(c, controlClient', 1)
    /\ UNCHANGED <<state, socksEndpoint, controlSocketFD, torThread,
                   torVars, dataDir, streamVars>>

(* Tor answers the GETINFO of a task; the task's job runs later.           *)
TorAnswers(c) ==
    /\ pc[c] = "asking"
    /\ thread[loc[c]] = "main"
    /\ SocksAnswers # {}
    /\ Goto(c, "answered")
    /\ UNCHANGED <<actorVars, torVars, dataDir, loc, tries, streamVars>>

\* mutant: .running is not broadcast
BecomeRunningSilently(c) ==
    /\ state' = "running"
    /\ Goto(c, "idle")
    /\ UNCHANGED <<controlSocketFD, torThread, controlClient, torVars, dataDir,
                   loc, tries, streamVars>>

(* The end of start(), whatever the discovery found.                       *)
BecomeRunning(c) ==
    /\ state' = "running"
    /\ Broadcast("running")
    /\ Goto(c, "idle")
    /\ UNCHANGED <<controlSocketFD, torThread, controlClient, torVars, dataDir,
                   loc, tries, opened, adding, removing, eventContinuations,
                   ended>>

(* An address host:port is stored and ends the discovery.                  *)
DiscoverAddress(c) ==
    /\ pc[c] = "answered"
    /\ "tcp" \in SocksAnswers
    /\ socksEndpoint' = loc[c]
    /\ BecomeRunning(c)

\* mutant: start() throws when no endpoint was found
FallBackThrows(c) ==
    /\ Goto(c, "idle")
    /\ UNCHANGED <<actorVars, torVars, dataDir, loc, tries, streamVars>>

(* After the loop: the configured port is used if there is one.            *)
FallBack(c) ==
    /\ socksEndpoint' = IF SocksFixed THEN Configured ELSE socksEndpoint
    /\ BecomeRunning(c)

(* A unix: address breaks out of the loop.                                 *)
DiscoverUnix(c) ==
    /\ pc[c] = "answered"
    /\ "unix" \in SocksAnswers
    /\ FallBack(c)

(* No usable answer: the call failed or timed out, or the value is neither *)
(* (no listener, several, IPv6).  Sleep 250 ms.                            *)
DiscoverFails(c) ==
    /\ \/ pc[c] = "asking"
       \/ pc[c] = "answered" /\ "other" \in SocksAnswers
    /\ Goto(c, "pausing")
    /\ UNCHANGED <<actorVars, torVars, dataDir, loc, tries, streamVars>>

DiscoverAgain(c) ==
    /\ pc[c] = "pausing"
    /\ tries[c] < DiscoverTries
    /\ Attempt(c, controlClient, tries[c] + 1)
    /\ UNCHANGED <<actorVars, torVars, dataDir, streamVars>>

DiscoverGivesUp(c) ==
    /\ pc[c] = "pausing"
    /\ tries[c] >= DiscoverTries
    /\ FallBack(c)

StartJob(c) ==
    \/ StartResumes(c)
    \/ StartSettles(c)
    \/ DiscoverAddress(c)
    \/ DiscoverUnix(c)
    \/ DiscoverFails(c)
    \/ DiscoverAgain(c)
    \/ DiscoverGivesUp(c)

-----------------------------------------------------------------------------
(* stop()                                                                  *)

\* mutant: stop() leaves the client bound
CleanupKeepsClient ==
    /\ UNCHANGED controlClient
    /\ controlSocketFD' = Nil /\ torThread' = Nil /\ socksEndpoint' = NoEndpoint
    /\ FinishAll

\* mutant: stop() forgets the thread
CleanupKeepsThread ==
    /\ UNCHANGED torThread
    /\ controlClient' = Nil /\ controlSocketFD' = Nil /\ socksEndpoint' = NoEndpoint
    /\ FinishAll

(* The handles are dropped (the descriptor is not closed) and the streams  *)
(* finished.                                                               *)
Cleanup ==
    /\ controlClient' = Nil
    /\ controlSocketFD' = Nil
    /\ torThread' = Nil
    /\ socksEndpoint' = NoEndpoint
    /\ FinishAll

(* From the end of the polling to the end of stop().  Thread.cancel() only *)
(* sets a flag that nothing reads, and broadcastEvent(.stopped) finds no   *)
(* continuation left.                                                      *)
FinishStop(c) ==
    /\ Cleanup
    /\ \/ dataDir' = (dataDir /\ ~OwnsDataDirectory)
       \/ Fault("dir") /\ dataDir' = dataDir
    /\ state' = "stopped"
    /\ Goto(c, "idle")
    /\ UNCHANGED <<torVars, loc, tries>>

StopEnters(c) ==
    /\ Calls(c, "stop")
    /\ state \in {"running", "starting"}
    /\ Broadcast("stopping")

(* With a client: up to the await of shutdown().                           *)
StopSignals(c) ==
    /\ StopEnters(c)
    /\ controlClient # Nil
    /\ state' = "stopping"
    /\ loc' = [loc EXCEPT ![c] = controlClient]
    /\ Goto(c, "signalling")
    /\ UNCHANGED <<socksEndpoint, controlSocketFD, torThread, controlClient,
                   torVars, dataDir, tries, opened, adding, removing,
                   eventContinuations, ended>>

(* Without a client: up to the first sleep of the polling.                 *)
StopPolls(c) ==
    /\ StopEnters(c)
    /\ controlClient = Nil
    /\ Executing(torThread)
    /\ state' = "stopping"
    /\ Goto(c, "joining")
    /\ UNCHANGED <<socksEndpoint, controlSocketFD, torThread, controlClient,
                   torVars, dataDir, loc, tries, opened, adding, removing,
                   eventContinuations, ended>>

(* Without a client and without an executing thread: never suspended.      *)
StopAtOnce(c) ==
    /\ StopEnters(c)
    /\ controlClient = Nil
    /\ ~Executing(torThread)
    /\ FinishStop(c)

\* mutant: the client is read again after the suspension
WriteShutdownToCurrent(c) ==
    /\ pc[c] = "signalling"
    /\ shutdowns' = shutdowns \cup {controlClient}
    /\ Goto(c, "signalled")
    /\ UNCHANGED <<actorVars, run, thread, contin, bootstrapped,
                   dataDir, loc, tries, streamVars>>

(* SIGNAL SHUTDOWN is written to the socket by another thread.             *)
WriteShutdown(c) ==
    /\ pc[c] = "signalling"
    /\ shutdowns' = shutdowns \cup {loc[c]}
    /\ Goto(c, "signalled")
    /\ UNCHANGED <<actorVars, run, thread, contin, bootstrapped,
                   dataDir, loc, tries, streamVars>>

\* mutant: stop() returns at once when Tor still executes
StopReturns(c) ==
    /\ pc[c] = "signalled"
    /\ Executing(torThread)
    /\ Goto(c, "idle")
    /\ UNCHANGED <<actorVars, torVars, dataDir, loc, tries, streamVars>>

(* shutdown() returned or failed, its error ignored, and the thread that   *)
(* the actor holds now is executing: sleep 100 ms.                         *)
StopJoins(c) ==
    /\ pc[c] = "signalled"
    /\ Executing(torThread)
    /\ Goto(c, "joining")
    /\ UNCHANGED <<actorVars, torVars, dataDir, loc, tries, streamVars>>

ThreadJoined(c) ==
    /\ pc[c] \in {"signalled", "joining"}
    /\ ~Executing(torThread)
    /\ FinishStop(c)
    /\ UNCHANGED got

(* The 10 s are over.  Unless Faults has "late", a Tor that was told to    *)
(* shut down exits before that.                                            *)
StopWindowExpires(c) ==
    /\ pc[c] = "joining"
    /\ Executing(torThread)
    /\ torThread \in shutdowns => Fault("late")
    /\ FinishStop(c)
    /\ UNCHANGED got

StopJob(c) ==
    \/ WriteShutdown(c)
    \/ StopJoins(c)
    \/ ThreadJoined(c)
    \/ StopWindowExpires(c)

-----------------------------------------------------------------------------
(* waitUntilBootstrapped(): the client is captured once; the state is not  *)
(* looked at again.                                                        *)

WaitCall(c) ==
    /\ Calls(c, "wait")
    /\ state \in {"running", "starting"}
    /\ controlClient # Nil
    /\ loc' = [loc EXCEPT ![c] = controlClient]
    /\ tries' = [tries EXCEPT ![c] = 1]
    /\ Goto(c, "polling")
    /\ UNCHANGED <<actorVars, torVars, dataDir, streamVars>>

(* Tor answers getBootstrapStatus(); the task's job runs later.            *)
TorReports(c) ==
    /\ pc[c] = "polling"
    /\ thread[loc[c]] = "main"
    /\ Goto(c, IF loc[c] \in bootstrapped THEN "complete" ELSE "reported")
    /\ UNCHANGED <<actorVars, torVars, dataDir, loc, tries, streamVars>>

(* The phase is broadcast; at 100 % the call returns.                      *)
WaitBroadcasts(c) ==
    /\ \/ pc[c] = "complete" /\ Broadcast("bootstrap100") /\ Goto(c, "idle")
       \/ pc[c] = "reported" /\ Broadcast("bootstrap") /\ Goto(c, "resting")
    /\ UNCHANGED <<actorVars, torVars, dataDir, loc, tries, opened, adding,
                   removing, eventContinuations, ended>>

WaitPollFails(c) ==
    /\ pc[c] = "polling"
    /\ Goto(c, "resting")
    /\ UNCHANGED <<actorVars, torVars, dataDir, loc, tries, streamVars>>

WaitPollsAgain(c) ==
    /\ pc[c] = "resting"
    /\ tries[c] < PollLimit
    /\ tries' = [tries EXCEPT ![c] = @ + 1]
    /\ Goto(c, "polling")
    /\ UNCHANGED <<actorVars, torVars, dataDir, loc, streamVars>>

(* The deadline has passed, or the sleep is cancelled: the call throws.    *)
WaitThrows(c) ==
    /\ pc[c] = "resting"
    /\ Goto(c, "idle")
    /\ UNCHANGED <<actorVars, torVars, dataDir, loc, tries, streamVars>>

WaitJob(c) ==
    \/ WaitBroadcasts(c)
    \/ WaitPollFails(c)
    \/ WaitPollsAgain(c)
    \/ WaitThrows(c)

-----------------------------------------------------------------------------
(* The thread of run r, and the Tor it runs.                               *)

ThreadBegins(r) ==
    /\ thread[r] = "launched"
    /\ thread' = [thread EXCEPT ![r] = "setup"]
    /\ UNCHANGED <<actorVars, run, contin, shutdowns, bootstrapped,
                   dataDir, taskVars, streamVars>>

(* Up to the call of tor_run_main.  The continuation is resumed once, with *)
(* the descriptor (which may be -1) or, without a configuration, an error. *)
ThreadSetsUp(r) ==
    /\ thread[r] = "setup"
    /\ \/ /\ thread' = [thread EXCEPT ![r] = "main"]
          /\ contin' = [contin EXCEPT ![r] = "fd"]
       \/ /\ Fault("socket")
          /\ thread' = [thread EXCEPT ![r] = "main"]
          /\ contin' = [contin EXCEPT ![r] = "nofd"]
       \/ /\ Fault("config")
          /\ thread' = [thread EXCEPT ![r] = "exited"]
          /\ contin' = [contin EXCEPT ![r] = "error"]
    /\ UNCHANGED <<actorVars, run, shutdowns, bootstrapped,
                   dataDir, taskVars, streamVars>>

(* tor_run_main returns: its exit code is stored and never read.           *)
TorReturns(r) ==
    /\ thread[r] = "main"
    /\ thread' = [thread EXCEPT ![r] = "exited"]
    /\ UNCHANGED <<actorVars, run, contin, shutdowns, bootstrapped,
                   dataDir, taskVars, streamVars>>

TorShutsDown(r) == r \in shutdowns /\ TorReturns(r)
TorExits(r) == Fault("exit") /\ TorReturns(r)

TorBootstraps(r) ==
    /\ thread[r] = "main"
    /\ r \notin bootstrapped
    /\ bootstrapped' = bootstrapped \cup {r}
    /\ UNCHANGED <<actorVars, run, thread, contin, shutdowns,
                   dataDir, taskVars, streamVars>>

ThreadStep(r) == ThreadBegins(r) \/ ThreadSetsUp(r)

TorStep(r) == TorShutsDown(r) \/ TorExits(r) \/ TorBootstraps(r)

-----------------------------------------------------------------------------
CallStep(c) ==
    \/ StartLaunches(c)
    \/ StartLacksDirectory(c)
    \/ StopSignals(c)
    \/ StopPolls(c)
    \/ StopAtOnce(c)
    \/ WaitCall(c)

Job(c) == StartJob(c) \/ StopJob(c) \/ WaitJob(c)

OuterStep(c) == StartCancelled(c) \/ TorAnswers(c) \/ TorReports(c)

(* What the consumers of the events do, and the Tasks posted for them.      *)
ConsumerStep(s) ==
    /\ OpenEvents(s) \/ ConsumerLeaves(s)
    /\ UNCHANGED <<actorVars, torVars, dataDir, taskVars>>

PostedTask(s) ==
    /\ AddContinuation(s) \/ RemoveContinuation(s)
    /\ UNCHANGED <<actorVars, torVars, dataDir, taskVars>>

Next ==
    \/ \E c \in Callers : CallStep(c) \/ Job(c) \/ OuterStep(c)
    \/ \E r \in Runs : ThreadStep(r) \/ TorStep(r)
    \/ \E s \in Streams : ConsumerStep(s) \/ PostedTask(s)

Spec == Init /\ [][Next]_vars

(* What the runtime and the clock ensure: a job that can run does, every   *)
(* sleep and every 10 s or 30 s limit ends, a thread that was started      *)
(* begins and gets to tor_run_main.  Nothing is assumed of Tor: it need    *)
(* answer nothing, and not exit.                                           *)
FairSpec ==
    /\ Spec
    /\ \A c \in Callers : WF_vars(Job(c))
    /\ \A r \in Runs : WF_vars(ThreadStep(r))

(* Moreover, a Tor that was sent SIGNAL SHUTDOWN exits.                    *)
ObedientSpec == FairSpec /\ \A r \in Runs : WF_vars(TorShutsDown(r))
=============================================================================
