------------------------ MODULE TorClientProperties ------------------------
(***************************************************************************)
(* What is claimed of the actor TorClient: first what the code ensures,    *)
(* then what its documentation says and the code does not.                 *)
(***************************************************************************)
EXTENDS TorClient

(* Properties that hold whatever the callers do and whatever fails.        *)

(* The client is never left in .stopping by itself: state is .stopping     *)
(* only while some stop() is between its first line and its last, even     *)
(* when other stop() and start() calls overlap it.                         *)
StoppingHasOwner ==
    state = "stopping" => \E c \in Callers : pc[c] \in StopLabels

(* A thread handle is held only between a start() and the next end of a    *)
(* stop(): whenever start() lets a caller in, there is none to overwrite.  *)
NoThreadOutsideSession ==
    state \in {"idle", "stopped", "failed"} => torThread = Nil

(* So no step replaces the handle of one thread by that of another.        *)
ThreadNeverReplaced ==
    [][torThread # Nil => torThread' \in {torThread, Nil}]_vars

(* Once the client is stopped it holds neither client nor endpoint, except *)
(* while a start() that the stop() overtook is in its discovery: that one  *)
(* has bound a client again, and will say .running when it ends.           *)
Discovering(c) == pc[c] \in {"asking", "answered", "pausing"}

StoppedIsClean ==
    state \in {"idle", "stopped"} /\ (\A c \in Callers : ~Discovering(c))
        => controlClient = Nil /\ socksEndpoint = NoEndpoint

(* A registered subscriber has been told of the current state: the last    *)
(* stateChanged it was yielded is `state`, at every point where another    *)
(* job can run.                                                            *)
LastState(log) ==
    LET told == {i \in DOMAIN log : log[i] \in StateNames}
    IN  log[CHOOSE i \in told : \A j \in told : j <= i]

SubscriberUpToDate ==
    \A s \in eventContinuations \ ended :
        (\E i \in DOMAIN got[s] : got[s][i] \in StateNames)
            => LastState(got[s]) = state

(* A stop() ends every stream that was opened before, except one whose     *)
(* registration is still on its way to the actor.                          *)
StopEndsRegistered ==
    [][state' = "stopped" /\ state # "stopped" => opened \ ended' \subseteq adding]_vars

(* Every start(), stop() and waitUntilBootstrapped() returns or throws,    *)
(* also when Tor answers nothing and never exits.                          *)
EveryCallReturns ==
    \A c \in Callers : pc[c] # "idle" ~> pc[c] = "idle"

-----------------------------------------------------------------------------
(* Properties of a client driven by one task, one call after another.      *)

(* A thread of a run is alive from start() on until its block returns.     *)
Alive(r) == thread[r] \in {"launched", "setup", "main"}

(* Two Tors never run in the process at once, which tor_api.h forbids.     *)
AtMostOneTor ==
    \A q, r \in Runs : Alive(q) /\ Alive(r) => q = r

(* When stop() has brought the client to .stopped, no thread is left.      *)
StoppedMeansExited ==
    state = "stopped" => \A r \in Runs : ~Alive(r)

(* The data directory is not removed under a Tor that may still use it.    *)
DirectoryOutlivesTor ==
    \A r \in Runs : Alive(r) => dataDir

(* The inductive invariant behind the three properties above.  It is about *)
(* one driver: at most one task calls start() or stop() (others may wait); *)
(* and about faults that leave the driver the means to end its Tor.        *)
Drivers == {c \in Callers : May[c] \cap {"start", "stop"} # {}}

OneDriverOnly == \A c, d \in Drivers : c = d
TorControllable == Faults \cap {"socket", "cancel", "late"} = {}

Starting(c) == pc[c] \in StartLabels
Stopping(c) == pc[c] \in StopLabels
NoneAlive == \A r \in Runs : ~Alive(r)

(* Only the latest run can be alive.                                       *)
RunsInOrder ==
    \A r \in Runs :
        /\ r > run => thread[r] = "none"
        /\ r = run => thread[r] # "none"
        /\ r < run => thread[r] = "exited"

(* start()'s continuation is resumed exactly when the thread leaves its    *)
(* setup.                                                                  *)
ResumedBySetup ==
    \A r \in Runs :
        /\ contin[r] = "pending" <=> thread[r] \in {"none", "launched", "setup"}
        /\ contin[r] # "nofd"
        /\ contin[r] = "error" => thread[r] = "exited"

(* A start() in flight owns .starting, the latest run and the handles it   *)
(* has made so far.                                                        *)
StartOwnsRun ==
    \A c \in Callers : Starting(c) =>
        /\ c \in Drivers
        /\ state = "starting"
        /\ run # 0
        /\ torThread = run
        /\ dataDir
        /\ pc[c] = "launching" => loc[c] = run /\ controlClient = Nil
        /\ pc[c] # "launching" => controlSocketFD = run /\ contin[run] = "fd"
        /\ pc[c] \in {"asking", "answered", "pausing"} => controlClient = run

(* A stop() in flight owns .stopping and has the latest run shut down.     *)
StopOwnsRun ==
    \A c \in Callers : Stopping(c) =>
        /\ c \in Drivers
        /\ state = "stopping"
        /\ pc[c] = "signalling" => loc[c] = run
        /\ pc[c] # "signalling" => run \in shutdowns

(* What the actor holds in each state.                                     *)
HandlesByState ==
    /\ state \in {"idle", "stopped", "failed"} =>
            NoneAlive /\ torThread = Nil /\ controlClient = Nil
    /\ state = "starting" =>
            \/ \E c \in Callers : Starting(c)
            \/ NoneAlive /\ controlClient = Nil
    /\ state \in {"running", "stopping"} =>
            /\ run # 0
            /\ torThread = run
            /\ controlClient = run
            /\ contin[run] = "fd"
            /\ dataDir

SerialInv ==
    /\ RunsInOrder
    /\ ResumedBySetup
    /\ StartOwnsRun
    /\ StopOwnsRun
    /\ HandlesByState

(* Every handle belongs to the latest run, so control commands and the     *)
(* SOCKS endpoint concern the Tor whose thread stop() waits for.           *)
HandlesAreCurrent ==
    /\ torThread \in {Nil, run}
    /\ controlSocketFD \in {Nil, run}
    /\ controlClient \in {Nil, run}
    /\ socksEndpoint \in {NoEndpoint, Configured, run}

(* A stop() that is under way ends with the client stopped and Tor gone.   *)
StopEndsTor ==
    state = "stopping" ~> (state = "stopped" /\ \A r \in Runs : ~Alive(r))

(* The client implements the state machine of TorState.swift.              *)
TorState == INSTANCE TorStateMachine
    WITH st <- state, tor <- \E r \in Runs : Executing(r)

ImplementsStateMachine == TorState!SMSpec

-----------------------------------------------------------------------------
(* What the documentation says.                                            *)

(* TorState.swift, lines 19-28: the only transitions of state.             *)
LegalTransitions == {
    <<"idle", "starting">>, <<"starting", "running">>, <<"starting", "failed">>,
    <<"running", "stopping">>, <<"running", "failed">>,
    <<"stopping", "stopped">>, <<"stopping", "failed">>,
    <<"stopped", "starting">>, <<"failed", "starting">> }

OnlyLegalTransitions == [][(<<state, state'>> \in LegalTransitions)]_state

(* TorState.swift, lines 106-107: when start() throws, the state is        *)
(* .failed; so .starting means that a start() is under way.                *)
StartingHasOwner ==
    state = "starting" => \E c \in Callers : pc[c] \in StartLabels
=============================================================================
