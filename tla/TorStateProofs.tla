---------------------------- MODULE TorStateProofs ----------------------------
(***************************************************************************)
(* The client moves through its states as TorState.swift says, for every   *)
(* value of the constants, if one task drives it and nothing but an exit   *)
(* of Tor goes wrong.                                                      *)
(***************************************************************************)
EXTENDS TorClientProofs

(* What can go wrong: Tor exits by itself.  Each other fault breaks the    *)
(* state machine: a start() that throws leaves .starting, from which       *)
(* stop() goes to .stopped; a Tor that outlives stop() runs in .stopped.   *)
OnlyExits == Faults \subseteq {"exit"}

LEMMA ExitsControllable == OnlyExits => TorControllable
BY DEF OnlyExits, TorControllable

(* .starting means that a start() is under way, and none was resumed with  *)
(* an error.                                                               *)
NoErrors == \A r \in Runs : contin[r] # "error"

MachineInv == SerialInv /\ StartingHasOwner /\ NoErrors

tor == \E r \in Runs : Executing(r)

-----------------------------------------------------------------------------
(* Only the latest run executes, and only the one driver acts.             *)
LEMMA OneExecutes ==
    ASSUME TypeOK, SerialInv
    PROVE  /\ \A r \in Runs : Executing(r) => r = run /\ run # 0
           /\ tor <=> Executing(run)
           /\ torThread = run => (tor <=> Executing(torThread))
<1>1. \A r \in Runs : Executing(r) => r = run /\ run # 0
  BY DEF Executing, SerialInv, RunsInOrder, Runs, Nil, TypeOK
<1>2. Executing(run) => run \in Runs
  BY BoundsNat DEF Executing, Runs, Nil, TypeOK
<1> QED
  BY <1>1, <1>2 DEF tor

LEMMA DriverAlone ==
    ASSUME OneDriverOnly, SerialInv, NEW c \in Drivers, pc[c] = "idle"
    PROVE  \A e \in Callers : ~Starting(e) /\ ~Stopping(e)
BY OnlyActive DEF Starting, Stopping, StartLabels, StopLabels, Drivers

LEMMA StopFindsRunning ==
    ASSUME OneDriverOnly, MachineInv, NEW c \in Callers, StopEnters(c)
    PROVE  state = "running" /\ controlClient # Nil
<1>1. c \in Drivers /\ pc[c] = "idle" /\ state \in {"running", "starting"}
  BY DEF StopEnters, Calls, Drivers
<1>2. \A e \in Callers : ~Starting(e)
  BY <1>1, DriverAlone DEF MachineInv
<1>3. state # "starting"
  BY <1>2 DEF MachineInv, StartingHasOwner, Starting
<1> QED
  BY <1>1, <1>3 DEF MachineInv, SerialInv, HandlesByState, Nil

(* Where a step leaves state and the threads alone.                        *)
LEMMA Stutters ==
    ASSUME UNCHANGED <<state, thread>>
    PROVE  UNCHANGED <<state, tor>>
BY DEF tor, Executing

-----------------------------------------------------------------------------
(* The strengthened invariant.                                             *)
LEMMA MachineInitially == Init => StartingHasOwner /\ NoErrors
BY DEF Init, StartingHasOwner, NoErrors

LEMMA MachineInductive ==
    ASSUME OneDriverOnly, OnlyExits, TypeOK, MachineInv, [Next]_vars
    PROVE  MachineInv'
<1>1. SerialInv'
  BY ExitsControllable, SerialStep DEF MachineInv
<1>2. NoErrors'
  <2>1. ASSUME NEW r \in Runs, ThreadSetsUp(r) PROVE NoErrors'
    <3>1. contin' = [contin EXCEPT ![r] = "fd"]
      BY <2>1 DEF ThreadSetsUp, OnlyExits, Fault
    <3>2. QED
      BY <3>1 DEF MachineInv, NoErrors, TypeOK
  <2>2. ASSUME contin' = contin PROVE NoErrors'
    BY <2>2 DEF MachineInv, NoErrors
  <2>3. contin' = contin \/ \E r \in Runs : ThreadSetsUp(r)
    BY DEF Next, vars, torVars, CallStep, Job, StartJob, StopJob, WaitJob,
       OuterStep, ThreadStep, TorStep, StartLaunches, StartLacksDirectory,
       StartEnters, StopSignals, StopPolls, StopAtOnce, FinishStop, WaitCall,
       StartResumes, StartSettles, DiscoverAddress, DiscoverUnix, FallBack,
       BecomeRunning, DiscoverFails, DiscoverAgain, DiscoverGivesUp,
       WriteShutdown, StopJoins, ThreadJoined, StopWindowExpires,
       WaitBroadcasts, WaitPollFails, WaitPollsAgain, WaitThrows,
       StartCancelled, TorAnswers, TorReports, ThreadBegins, TorShutsDown,
       TorExits, TorReturns, TorBootstraps, ConsumerStep, PostedTask
  <2> QED
    BY <2>1, <2>2, <2>3
<1>3. StartingHasOwner'
  <2>1. ASSUME NEW c \in Callers, pc'[c] \in StartLabels PROVE StartingHasOwner'
    BY <2>1 DEF StartingHasOwner
  <2>2. ASSUME NEW c \in Callers, StartLaunches(c) PROVE StartingHasOwner'
    BY <2>2 DEF StartLaunches, Goto, StartLabels, TypeOK, StartingHasOwner
  <2>3. \A c \in Callers : ~StartLacksDirectory(c) /\ ~StartCancelled(c)
    BY DEF StartLacksDirectory, StartCancelled, OnlyExits, Fault
  <2>4. ASSUME NEW c \in Callers, state' # "starting" PROVE StartingHasOwner'
    BY <2>4 DEF StartingHasOwner
  <2>5. ASSUME state' = state, \A c \in Callers :
                   pc[c] \in StartLabels => pc'[c] \in StartLabels
        PROVE  StartingHasOwner'
    BY <2>5 DEF MachineInv, StartingHasOwner
  <2>6. ASSUME NEW c \in Callers, StopSignals(c) \/ StopPolls(c) \/ StopAtOnce(c)
        PROVE  StartingHasOwner'
    BY <2>4, <2>6 DEF StopSignals, StopPolls, StopAtOnce, FinishStop
  <2>7. ASSUME NEW c \in Callers, StartResumes(c) PROVE StartingHasOwner'
    <3>1. contin[loc[c]] # "error"
      BY <2>7 DEF StartResumes, MachineInv, NoErrors, TypeOK, AtRun, Nil
    <3>2. pc' = [pc EXCEPT ![c] = "settling"] /\ state' = state
      BY <2>7, <3>1 DEF StartResumes, Goto
    <3>3. QED
      BY <2>5, <3>2 DEF StartLabels, TypeOK
  <2>8. ASSUME NEW c \in Callers,
               \/ StartSettles(c) \/ DiscoverFails(c) \/ DiscoverAgain(c)
               \/ TorAnswers(c)
        PROVE  StartingHasOwner'
    <3>1. /\ state' = state
          /\ \E l \in {"asking", "pausing", "answered"} :
                 pc' = [pc EXCEPT ![c] = l]
      BY <2>8 DEF StartSettles, DiscoverFails, DiscoverAgain, TorAnswers, Attempt,
         Goto, actorVars
    <3>2. QED
      BY <2>5, <3>1 DEF StartLabels, TypeOK
  <2>9. ASSUME NEW c \in Callers,
               DiscoverAddress(c) \/ DiscoverUnix(c) \/ DiscoverGivesUp(c)
        PROVE  StartingHasOwner'
    BY <2>4, <2>9 DEF DiscoverAddress, DiscoverUnix, DiscoverGivesUp, FallBack,
       BecomeRunning
  <2>10. ASSUME NEW c \in Callers, WriteShutdown(c) \/ StopJoins(c)
         PROVE  StartingHasOwner'
    <3>1. /\ state' = state /\ pc[c] \in {"signalling", "signalled"}
          /\ \E l \in {"signalled", "joining"} : pc' = [pc EXCEPT ![c] = l]
      BY <2>10 DEF WriteShutdown, StopJoins, Goto, actorVars
    <3>2. QED
      BY <2>5, <3>1 DEF StartLabels, TypeOK
  <2>11. ASSUME NEW c \in Callers, ThreadJoined(c) \/ StopWindowExpires(c)
         PROVE  StartingHasOwner'
    BY <2>4, <2>11 DEF ThreadJoined, StopWindowExpires, FinishStop
  <2>12. ASSUME NEW c \in Callers, WaitCall(c) \/ WaitJob(c) \/ TorReports(c)
         PROVE  StartingHasOwner'
    <3>1. /\ state' = state /\ pc[c] \in {"idle"} \cup WaitLabels
          /\ \E l \in {"idle"} \cup WaitLabels : pc' = [pc EXCEPT ![c] = l]
      BY <2>12 DEF WaitCall, Calls, WaitJob, WaitBroadcasts, WaitPollFails,
         WaitPollsAgain, WaitThrows, TorReports, Goto, actorVars, WaitLabels
    <3>2. \A d \in Callers : pc[d] \in StartLabels => pc'[d] \in StartLabels
      BY <3>1 DEF StartLabels, WaitLabels, TypeOK
    <3>3. QED
      BY <2>5, <3>1, <3>2
  <2>13. ASSUME UNCHANGED <<state, pc>> PROVE StartingHasOwner'
    BY <2>5, <2>13
  <2>14. ASSUME NEW r \in Runs, ThreadStep(r) \/ TorStep(r)
         PROVE  StartingHasOwner'
    BY <2>13, <2>14 DEF ThreadStep, TorStep, ThreadBegins, ThreadSetsUp,
       TorShutsDown, TorExits, TorReturns, TorBootstraps, actorVars, taskVars
  <2>15. ASSUME NEW s \in Streams, ConsumerStep(s) \/ PostedTask(s)
         PROVE  StartingHasOwner'
    BY <2>13, <2>15 DEF ConsumerStep, PostedTask, actorVars, taskVars
  <2>16. CASE UNCHANGED vars
    BY <2>13, <2>16 DEF vars, actorVars, taskVars
  <2> QED
    BY <2>2, <2>3, <2>6, <2>7, <2>8, <2>9, <2>10, <2>11, <2>12, <2>14, <2>15,
       <2>16 DEF Next, CallStep, Job, StartJob, StopJob, OuterStep
<1> QED
  BY <1>1, <1>2, <1>3 DEF MachineInv

-----------------------------------------------------------------------------
LEMMA InitRefines == Init => TorState!SMInit
BY DEF Init, TorState!SMInit, Executing

LEMMA CallRefines ==
    ASSUME OneDriverOnly, OnlyExits, TypeOK, MachineInv, NEW c \in Callers,
           CallStep(c)
    PROVE  [TorState!SMNext]_<<state, tor>>
<1>1. CASE StartLaunches(c)
  <2>1. /\ state \in {"idle", "stopped", "failed"} /\ state' = "starting"
        /\ thread' = [thread EXCEPT ![run + 1] = "launched"]
    BY <1>1 DEF StartLaunches, StartEnters
  <2>2. NoneAlive
    BY <2>1 DEF MachineInv, SerialInv, HandlesByState
  <2>3. ~tor
    BY <2>2 DEF tor, NoneAlive, Alive, Executing
  <2>4. \A r \in Runs : thread'[r] \notin {"setup", "main"}
    BY <2>1, <2>2 DEF NoneAlive, Alive, TypeOK
  <2>5. ~tor'
    BY <2>4 DEF tor, Executing
  <2>6. TorState!Begin
    BY <2>1, <2>3, <2>5 DEF TorState!Begin, tor
  <2>7. QED
    BY <2>6 DEF TorState!SMNext
<1>2. CASE StopSignals(c)
  <2>1. state = "running" /\ state' = "stopping" /\ thread' = thread
    BY <1>2, StopFindsRunning DEF StopSignals, torVars
  <2>2. tor' = tor
    BY <2>1 DEF tor, Executing
  <2>3. TorState!StopBegins
    BY <2>1, <2>2 DEF TorState!StopBegins, tor
  <2>4. QED
    BY <2>3 DEF TorState!SMNext
<1>3. ~StopPolls(c) /\ ~StopAtOnce(c)
  BY StopFindsRunning DEF StopPolls, StopAtOnce
<1>4. ~StartLacksDirectory(c)
  BY DEF StartLacksDirectory, OnlyExits, Fault
<1>5. CASE WaitCall(c)
  BY <1>5, Stutters DEF WaitCall, actorVars, torVars
<1> QED
  BY <1>1, <1>2, <1>3, <1>4, <1>5 DEF CallStep

LEMMA JobRefines ==
    ASSUME OneDriverOnly, OnlyExits, TypeOK, MachineInv, NEW c \in Callers,
           Job(c) \/ OuterStep(c)
    PROVE  [TorState!SMNext]_<<state, tor>>
<1>1. CASE DiscoverAddress(c) \/ DiscoverUnix(c) \/ DiscoverGivesUp(c)
  <2>1. /\ Starting(c) /\ state' = "running" /\ thread' = thread
    BY <1>1 DEF DiscoverAddress, DiscoverUnix, DiscoverGivesUp, FallBack,
       BecomeRunning, torVars, Starting, StartLabels
  <2>2. state = "starting"
    BY <2>1 DEF MachineInv, SerialInv, StartOwnsRun
  <2>3. tor' = tor
    BY <2>1 DEF tor, Executing
  <2>4. TorState!Up
    BY <2>1, <2>2, <2>3 DEF TorState!Up, tor
  <2>5. QED
    BY <2>4 DEF TorState!SMNext
<1>2. CASE ThreadJoined(c)
  <2>1. /\ Stopping(c) /\ ~Executing(torThread) /\ state' = "stopped"
        /\ thread' = thread
    BY <1>2 DEF ThreadJoined, FinishStop, torVars, Stopping, StopLabels
  <2>2. state = "stopping" /\ torThread = run
    BY <2>1 DEF MachineInv, SerialInv, StopOwnsRun, HandlesByState
  <2>3. ~tor /\ tor' = tor
    BY <2>1, <2>2, OneExecutes DEF MachineInv, tor, Executing
  <2>4. TorState!StopEnds
    BY <2>1, <2>2, <2>3 DEF TorState!StopEnds, tor
  <2>5. QED
    BY <2>4 DEF TorState!SMNext
<1>3. ~StopWindowExpires(c)
  <2>1. SUFFICES ASSUME StopWindowExpires(c) PROVE FALSE
    OBVIOUS
  <2>2. pc[c] = "joining" /\ (torThread \in shutdowns => "late" \in Faults)
    BY <2>1 DEF StopWindowExpires, Fault
  <2>3. run \in shutdowns /\ torThread = run
    BY <2>2 DEF MachineInv, SerialInv, StopOwnsRun, HandlesByState, Stopping,
       StopLabels
  <2>4. QED
    BY <2>2, <2>3 DEF OnlyExits
<1>4. CASE UNCHANGED <<state, thread>>
  BY <1>4, Stutters
<1> QED
  BY <1>1, <1>2, <1>3, <1>4 DEF Job, StartJob, StopJob, WaitJob, OuterStep,
     StartResumes, StartSettles, DiscoverFails, DiscoverAgain, WriteShutdown,
     StopJoins, WaitBroadcasts, WaitPollFails, WaitPollsAgain, WaitThrows,
     StartCancelled, TorAnswers, TorReports, actorVars, torVars

LEMMA ThreadRefines ==
    ASSUME OneDriverOnly, OnlyExits, TypeOK, MachineInv, NEW r \in Runs,
           ThreadStep(r) \/ TorStep(r)
    PROVE  [TorState!SMNext]_<<state, tor>>
<1>1. state' = state /\ r # Nil /\ thread \in [Runs -> Phases]
  BY BoundsNat DEF ThreadStep, TorStep, ThreadBegins, ThreadSetsUp, TorShutsDown,
     TorExits, TorReturns, TorBootstraps, actorVars, TypeOK, Runs, Nil
<1>2. CASE ThreadBegins(r)
  <2>1. /\ thread[r] = "launched"
        /\ thread' = [thread EXCEPT ![r] = "setup"]
    BY <1>2 DEF ThreadBegins
  <2>2. r = run /\ Alive(r)
    BY <2>1 DEF MachineInv, SerialInv, RunsInOrder, Alive, TypeOK, Runs
  <2>3. ~tor
    BY <2>1, <2>2, OneExecutes DEF MachineInv, Executing
  <2>4. contin[run] # "fd"
    BY <2>1, <2>2 DEF MachineInv, SerialInv, ResumedBySetup
  <2>5. state = "starting"
    BY <2>2, <2>4 DEF MachineInv, SerialInv, HandlesByState, NoneAlive, TypeOK,
       StateNames
  <2>6. Executing(r)'
    BY <1>1, <2>1 DEF Executing
  <2>7. tor' = TRUE
    BY <2>6 DEF tor
  <2>8. TorState!TorBegins
    BY <1>1, <2>3, <2>5, <2>7 DEF TorState!TorBegins, tor
  <2>9. QED
    BY <2>8 DEF TorState!SMNext
<1>3. CASE ThreadSetsUp(r)
  <2>1. thread[r] = "setup" /\ thread' = [thread EXCEPT ![r] = "main"]
    BY <1>3 DEF ThreadSetsUp, OnlyExits, Fault
  <2>2. Executing(r) /\ Executing(r)'
    BY <1>1, <2>1 DEF Executing
  <2>3. tor' = tor
    BY <2>2 DEF tor
  <2>4. QED
    BY <1>1, <2>3
<1>4. CASE TorReturns(r)
  <2>1. thread[r] = "main" /\ thread' = [thread EXCEPT ![r] = "exited"]
    BY <1>4 DEF TorReturns
  <2>2. Executing(r)
    BY <1>1, <2>1 DEF Executing
  <2>3. \A q \in Runs : Executing(q) => q = r
    BY <2>2, OneExecutes DEF MachineInv
  <2>4. \A q \in Runs : ~Executing(q)'
    BY <1>1, <2>1, <2>3 DEF Executing
  <2>5. tor /\ tor' = FALSE
    BY <2>2, <2>4 DEF tor
  <2>6. TorState!TorEnds
    BY <1>1, <2>5 DEF TorState!TorEnds, tor
  <2>7. QED
    BY <2>6 DEF TorState!SMNext
<1>5. CASE TorBootstraps(r)
  BY <1>1, <1>5, Stutters DEF TorBootstraps
<1> QED
  BY <1>2, <1>3, <1>4, <1>5 DEF ThreadStep, TorStep, TorShutsDown, TorExits

(* The safety part of TorClientProperties.ImplementsStateMachine: with one *)
(* driver, and if nothing but an exit of Tor goes wrong, the client takes  *)
(* only the transitions TorState.swift draws, a Tor begins only in         *)
(* .starting, and .stopped is reached only when it has ended               *)
(* (TorClient.start, TorClient.stop).                                      *)
THEOREM StateMachineFollowed ==
    ASSUME OneDriverOnly, OnlyExits
    PROVE  Spec => TorState!SMInit /\ [][TorState!SMNext]_<<state, tor>>
<1>1. Init => StartingHasOwner /\ NoErrors
  BY MachineInitially
<1>2. TypeOK /\ MachineInv /\ [Next]_vars => MachineInv'
  BY MachineInductive
<1>3. TypeOK /\ MachineInv /\ [Next]_vars => [TorState!SMNext]_<<state, tor>>
  <2> SUFFICES ASSUME TypeOK, MachineInv, [Next]_vars
               PROVE  [TorState!SMNext]_<<state, tor>>
    OBVIOUS
  <2>1. ASSUME NEW c \in Callers, CallStep(c) \/ Job(c) \/ OuterStep(c)
        PROVE  [TorState!SMNext]_<<state, tor>>
    BY <2>1, CallRefines, JobRefines
  <2>2. ASSUME NEW r \in Runs, ThreadStep(r) \/ TorStep(r)
        PROVE  [TorState!SMNext]_<<state, tor>>
    BY <2>2, ThreadRefines
  <2>3. ASSUME UNCHANGED <<state, thread>>
        PROVE  [TorState!SMNext]_<<state, tor>>
    BY <2>3, Stutters
  <2> QED
    BY <2>1, <2>2, <2>3 DEF Next, ConsumerStep, PostedTask, actorVars, torVars,
       vars
<1>4. Init => TorState!SMInit
  BY InitRefines
<1>5. Spec => []SerialInv
  BY ExitsControllable, SerialInvariant
<1> QED
  BY <1>1, <1>2, <1>3, <1>4, <1>5, TypeCorrect, PTL DEF Spec, MachineInv
=============================================================================
