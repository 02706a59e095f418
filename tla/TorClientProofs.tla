--------------------------- MODULE TorClientProofs ---------------------------
(***************************************************************************)
(* Proofs about TorClient for every value of its constants.                *)
(***************************************************************************)
EXTENDS TorClientProperties, TLAPS

LEMMA BroadcastType ==
    ASSUME NEW e \in Events, StreamsTypeOK, Broadcast(e)
    PROVE  got' \in [Streams -> Seq(Events)]
BY DEF StreamsTypeOK, Broadcast, Yielded

(* The pieces of the state are of the types TypeOK gives them.             *)
THEOREM TypeCorrect == Spec => []TypeOK
<1> USE CallersMay, BoundsNat DEF Runs, Nil, NoEndpoint, Configured, Labels,
        AtRun, StartLabels, StopLabels, WaitLabels, Phases, Resumptions,
        StateNames
<1>1. Init => TypeOK
  <2> SUFFICES ASSUME Init
               PROVE  TypeOK
    OBVIOUS
  <2>1. StreamsTypeOK
    BY DEF Init, StreamsInit, StreamsTypeOK
  <2>2. \A c \in Callers : pc[c] \in AtRun => loc[c] # Nil
    BY DEF Init
  <2>3. pc \in [Callers -> Labels] /\ loc \in [Callers -> {Nil} \cup Runs]
    BY DEF Init
  <2>4. run \in 0 .. MaxRuns /\ thread \in [Runs -> Phases]
    BY DEF Init
  <2>5. QED
    BY <2>1, <2>2, <2>3, <2>4 DEF Init, TypeOK
<1>2. TypeOK /\ [Next]_vars => TypeOK'
  <2> SUFFICES ASSUME TypeOK, [Next]_vars
               PROVE  TypeOK'
    OBVIOUS
  <2> USE DEF TypeOK, StreamsTypeOK, actorVars, torVars, taskVars, streamVars
  <2>1. ASSUME NEW c \in Callers, StartLaunches(c)
        PROVE  TypeOK'
    <3>1. got' \in [Streams -> Seq(Events)]
      BY <2>1, BroadcastType DEF StartLaunches, StartEnters, Events
    <3>2. QED
      BY <2>1, <3>1 DEF StartLaunches, StartEnters, Calls, Goto
  <2>2. ASSUME NEW c \in Callers, StartLacksDirectory(c)
        PROVE  TypeOK'
    <3>1. got' \in [Streams -> Seq(Events)]
      BY <2>2, BroadcastType DEF StartLacksDirectory, StartEnters, Events
    <3>2. QED
      BY <2>2, <3>1 DEF StartLacksDirectory, StartEnters, Calls
  <2>3. ASSUME NEW c \in Callers, StopSignals(c)
        PROVE  TypeOK'
    <3>1. got' \in [Streams -> Seq(Events)]
      BY <2>3, BroadcastType DEF StopSignals, StopEnters, Events
    <3>2. QED
      BY <2>3, <3>1 DEF StopSignals, StopEnters, Calls, Goto
  <2>4. ASSUME NEW c \in Callers, StopPolls(c)
        PROVE  TypeOK'
    <3>1. got' \in [Streams -> Seq(Events)]
      BY <2>4, BroadcastType DEF StopPolls, StopEnters, Events
    <3>2. QED
      BY <2>4, <3>1 DEF StopPolls, StopEnters, Calls, Goto
  <2>5. ASSUME NEW c \in Callers, StopAtOnce(c)
        PROVE  TypeOK'
    <3>1. got' \in [Streams -> Seq(Events)]
      BY <2>5, BroadcastType DEF StopAtOnce, StopEnters, Events
    <3>2. QED
      BY <2>5, <3>1 DEF StopAtOnce, StopEnters, Calls, FinishStop, Cleanup,
           FinishAll, Goto
  <2>6. ASSUME NEW c \in Callers, WaitCall(c)
        PROVE  TypeOK'
    BY <2>6 DEF WaitCall, Calls, Goto
  <2>7. ASSUME NEW c \in Callers, StartResumes(c)
        PROVE  TypeOK'
    <3>1. CASE contin[loc[c]] = "error"
      BY <2>7, <3>1 DEF StartResumes, Goto
    <3>2. CASE contin[loc[c]] = "fd"
      <4>1. /\ pc' = [pc EXCEPT ![c] = "settling"]
            /\ controlSocketFD' = loc[c]
            /\ pc[c] = "launching"
        BY <2>7, <3>2 DEF StartResumes, Goto
      <4>2. QED
        BY <2>7, <4>1 DEF StartResumes
    <3>3. CASE contin[loc[c]] \notin {"error", "fd"}
      <4>1. pc' = [pc EXCEPT ![c] = "settling"] /\ controlSocketFD' = Nil
        BY <2>7, <3>3 DEF StartResumes, Goto
      <4>2. QED
        BY <2>7, <4>1 DEF StartResumes
    <3>4. QED
      BY <3>1, <3>2, <3>3
  <2>8. ASSUME NEW c \in Callers, StartSettles(c)
        PROVE  TypeOK'
    <3>1. CASE controlClient' # Nil
      BY <2>8, <3>1 DEF StartSettles, Attempt, Goto
    <3>2. CASE controlClient' = Nil
      BY <2>8, <3>2 DEF StartSettles, Attempt, Goto
    <3>3. QED
      BY <3>1, <3>2
  <2>9. ASSUME NEW c \in Callers, DiscoverAddress(c)
        PROVE  TypeOK'
    <3>1. got' \in [Streams -> Seq(Events)]
      BY <2>9, BroadcastType DEF DiscoverAddress, BecomeRunning, Events
    <3>2. QED
      BY <2>9, <3>1 DEF DiscoverAddress, BecomeRunning, Goto
  <2>10. ASSUME NEW c \in Callers, DiscoverUnix(c)
        PROVE  TypeOK'
    <3>1. got' \in [Streams -> Seq(Events)]
      BY <2>10, BroadcastType DEF DiscoverUnix, FallBack, BecomeRunning, Events
    <3>2. QED
      BY <2>10, <3>1 DEF DiscoverUnix, FallBack, BecomeRunning, Goto
  <2>11. ASSUME NEW c \in Callers, DiscoverFails(c)
        PROVE  TypeOK'
    BY <2>11 DEF DiscoverFails, Goto
  <2>12. ASSUME NEW c \in Callers, DiscoverAgain(c)
        PROVE  TypeOK'
    <3>1. tries' \in [Callers -> Nat]
      BY <2>12 DEF DiscoverAgain, Attempt
    <3>2. CASE controlClient # Nil
      <4>1. /\ loc' = [loc EXCEPT ![c] = controlClient]
            /\ pc' = [pc EXCEPT ![c] = "asking"]
        BY <2>12, <3>2 DEF DiscoverAgain, Attempt, Goto
      <4>2. /\ \A d \in Callers : pc'[d] \in AtRun => loc'[d] # Nil
            /\ pc' \in [Callers -> Labels]
            /\ loc' \in [Callers -> {Nil} \cup Runs]
        BY <3>2, <4>1
      <4>3. QED
        BY <2>12, <3>1, <4>2 DEF DiscoverAgain
    <3>3. CASE controlClient = Nil
      <4>1. UNCHANGED loc /\ pc' = [pc EXCEPT ![c] = "pausing"]
        BY <2>12, <3>3 DEF DiscoverAgain, Attempt, Goto
      <4>2. QED
        BY <2>12, <3>1, <4>1 DEF DiscoverAgain
    <3>4. QED
      BY <3>2, <3>3
  <2>13. ASSUME NEW c \in Callers, DiscoverGivesUp(c)
        PROVE  TypeOK'
    <3>1. got' \in [Streams -> Seq(Events)]
      BY <2>13, BroadcastType DEF DiscoverGivesUp, FallBack, BecomeRunning,
           Events
    <3>2. QED
      BY <2>13, <3>1 DEF DiscoverGivesUp, FallBack, BecomeRunning, Goto
  <2>14. ASSUME NEW c \in Callers, WriteShutdown(c)
        PROVE  TypeOK'
    BY <2>14 DEF WriteShutdown, Goto
  <2>15. ASSUME NEW c \in Callers, StopJoins(c)
        PROVE  TypeOK'
    BY <2>15 DEF StopJoins, Goto
  <2>16. ASSUME NEW c \in Callers, ThreadJoined(c)
        PROVE  TypeOK'
    BY <2>16 DEF ThreadJoined, FinishStop, Cleanup, FinishAll, Goto
  <2>17. ASSUME NEW c \in Callers, StopWindowExpires(c)
        PROVE  TypeOK'
    BY <2>17 DEF StopWindowExpires, FinishStop, Cleanup, FinishAll, Goto
  <2>18. ASSUME NEW c \in Callers, WaitBroadcasts(c)
        PROVE  TypeOK'
    <3>1. got' \in [Streams -> Seq(Events)]
      BY <2>18, BroadcastType DEF WaitBroadcasts, Events
    <3>2. CASE pc[c] = "complete"
      BY <2>18, <3>1, <3>2 DEF WaitBroadcasts, Goto
    <3>3. CASE pc[c] # "complete"
      BY <2>18, <3>1, <3>3 DEF WaitBroadcasts, Goto
    <3>4. QED
      BY <3>2, <3>3
  <2>19. ASSUME NEW c \in Callers, WaitPollFails(c)
        PROVE  TypeOK'
    BY <2>19 DEF WaitPollFails, Goto
  <2>20. ASSUME NEW c \in Callers, WaitPollsAgain(c)
        PROVE  TypeOK'
    BY <2>20 DEF WaitPollsAgain, Goto
  <2>21. ASSUME NEW c \in Callers, WaitThrows(c)
        PROVE  TypeOK'
    BY <2>21 DEF WaitThrows, Goto
  <2>22. ASSUME NEW c \in Callers, StartCancelled(c)
        PROVE  TypeOK'
    BY <2>22 DEF StartCancelled, Goto
  <2>23. ASSUME NEW c \in Callers, TorAnswers(c)
        PROVE  TypeOK'
    BY <2>23 DEF TorAnswers, Goto
  <2>24. ASSUME NEW c \in Callers, TorReports(c)
        PROVE  TypeOK'
    <3>1. CASE loc[c] \in bootstrapped
      BY <2>24, <3>1 DEF TorReports, Goto
    <3>2. CASE loc[c] \notin bootstrapped
      BY <2>24, <3>2 DEF TorReports, Goto
    <3>3. QED
      BY <3>1, <3>2
  <2>25. ASSUME NEW r \in Runs, ThreadBegins(r)
        PROVE  TypeOK'
    BY <2>25 DEF ThreadBegins
  <2>26. ASSUME NEW r \in Runs, ThreadSetsUp(r)
        PROVE  TypeOK'
    BY <2>26 DEF ThreadSetsUp
  <2>27. ASSUME NEW r \in Runs, TorShutsDown(r)
        PROVE  TypeOK'
    BY <2>27 DEF TorShutsDown, TorReturns
  <2>28. ASSUME NEW r \in Runs, TorExits(r)
        PROVE  TypeOK'
    BY <2>28 DEF TorExits, TorReturns
  <2>29. ASSUME NEW r \in Runs, TorBootstraps(r)
        PROVE  TypeOK'
    BY <2>29 DEF TorBootstraps
  <2>30. ASSUME NEW s \in Streams, ConsumerStep(s)
        PROVE  TypeOK'
    BY <2>30 DEF ConsumerStep, OpenEvents, ConsumerLeaves
  <2>31. ASSUME NEW s \in Streams, PostedTask(s)
        PROVE  TypeOK'
    BY <2>31 DEF PostedTask, AddContinuation, RemoveContinuation
  <2>32. CASE UNCHANGED vars
    BY <2>32 DEF vars
  <2> QED
    BY <2>1, <2>2, <2>3, <2>4, <2>5, <2>6, <2>7, <2>8, <2>9, <2>10, <2>11,
         <2>12, <2>13, <2>14, <2>15, <2>16, <2>17, <2>18, <2>19, <2>20, <2>21,
         <2>22, <2>23, <2>24, <2>25, <2>26, <2>27, <2>28, <2>29, <2>30, <2>31,
         <2>32
       DEF Next, CallStep, Job, StartJob, StopJob, WaitJob, OuterStep,
           ThreadStep, TorStep
<1> QED
  BY <1>1, <1>2, PTL DEF Spec

(***************************************************************************)
(* Whatever the callers do and whatever fails: .stopping has an owner, no  *)
(* thread is held outside a session, and a stopped client is clean.        *)
(***************************************************************************)
SessionInv == StoppingHasOwner /\ NoThreadOutsideSession /\ StoppedIsClean

(* Every step keeps the three.                                            *)
LEMMA SessionStep == TypeOK /\ SessionInv /\ [Next]_vars => SessionInv'
<1> SUFFICES ASSUME TypeOK, SessionInv, [Next]_vars
             PROVE  SessionInv'
  OBVIOUS
<1> USE DEF SessionInv, StoppingHasOwner, NoThreadOutsideSession,
        StoppedIsClean,
        Discovering, StopLabels, TypeOK, actorVars, torVars, taskVars
<1>1. ASSUME NEW c \in Callers, StartLaunches(c)
      PROVE  SessionInv'
  BY <1>1 DEF StartLaunches, StartEnters, Calls, Goto
<1>2. ASSUME NEW c \in Callers, StartLacksDirectory(c)
      PROVE  SessionInv'
  BY <1>2 DEF StartLacksDirectory, StartEnters, Calls
<1>3. ASSUME NEW c \in Callers, StopSignals(c)
      PROVE  SessionInv'
  BY <1>3 DEF StopSignals, StopEnters, Calls, Goto
<1>4. ASSUME NEW c \in Callers, StopPolls(c)
      PROVE  SessionInv'
  BY <1>4 DEF StopPolls, StopEnters, Calls, Goto
<1>5. ASSUME NEW c \in Callers, StopAtOnce(c)
      PROVE  SessionInv'
  BY <1>5 DEF StopAtOnce, StopEnters, Calls, FinishStop, Cleanup, Goto
<1>6. ASSUME NEW c \in Callers, WaitCall(c)
      PROVE  SessionInv'
  BY <1>6 DEF WaitCall, Calls, Goto
<1>7. ASSUME NEW c \in Callers, StartResumes(c)
      PROVE  SessionInv'
  BY <1>7 DEF StartResumes, Goto
<1>8. ASSUME NEW c \in Callers, StartSettles(c)
      PROVE  SessionInv'
  BY <1>8 DEF StartSettles, Attempt, Goto
<1>9. ASSUME NEW c \in Callers, DiscoverAddress(c)
      PROVE  SessionInv'
  BY <1>9 DEF DiscoverAddress, BecomeRunning, Goto
<1>10. ASSUME NEW c \in Callers, DiscoverUnix(c)
      PROVE  SessionInv'
  BY <1>10 DEF DiscoverUnix, FallBack, BecomeRunning, Goto
<1>11. ASSUME NEW c \in Callers, DiscoverFails(c)
      PROVE  SessionInv'
  BY <1>11 DEF DiscoverFails, Goto
<1>12. ASSUME NEW c \in Callers, DiscoverAgain(c)
      PROVE  SessionInv'
  BY <1>12 DEF DiscoverAgain, Attempt, Goto
<1>13. ASSUME NEW c \in Callers, DiscoverGivesUp(c)
      PROVE  SessionInv'
  BY <1>13 DEF DiscoverGivesUp, FallBack, BecomeRunning, Goto
<1>14. ASSUME NEW c \in Callers, WriteShutdown(c)
      PROVE  SessionInv'
  BY <1>14 DEF WriteShutdown, Goto
<1>15. ASSUME NEW c \in Callers, StopJoins(c)
      PROVE  SessionInv'
  BY <1>15 DEF StopJoins, Goto
<1>16. ASSUME NEW c \in Callers, ThreadJoined(c)
      PROVE  SessionInv'
  BY <1>16 DEF ThreadJoined, FinishStop, Cleanup, Goto
<1>17. ASSUME NEW c \in Callers, StopWindowExpires(c)
      PROVE  SessionInv'
  BY <1>17 DEF StopWindowExpires, FinishStop, Cleanup, Goto
<1>18. ASSUME NEW c \in Callers, WaitBroadcasts(c)
      PROVE  SessionInv'
  BY <1>18 DEF WaitBroadcasts, Goto
<1>19. ASSUME NEW c \in Callers, WaitPollFails(c)
      PROVE  SessionInv'
  BY <1>19 DEF WaitPollFails, Goto
<1>20. ASSUME NEW c \in Callers, WaitPollsAgain(c)
      PROVE  SessionInv'
  BY <1>20 DEF WaitPollsAgain, Goto
<1>21. ASSUME NEW c \in Callers, WaitThrows(c)
      PROVE  SessionInv'
  BY <1>21 DEF WaitThrows, Goto
<1>22. ASSUME NEW c \in Callers, StartCancelled(c)
      PROVE  SessionInv'
  BY <1>22 DEF StartCancelled, Goto
<1>23. ASSUME NEW c \in Callers, TorAnswers(c)
      PROVE  SessionInv'
  BY <1>23 DEF TorAnswers, Goto
<1>24. ASSUME NEW c \in Callers, TorReports(c)
      PROVE  SessionInv'
  BY <1>24 DEF TorReports, Goto
<1>25. ASSUME NEW r \in Runs, ThreadBegins(r)
      PROVE  SessionInv'
  BY <1>25 DEF ThreadBegins
<1>26. ASSUME NEW r \in Runs, ThreadSetsUp(r)
      PROVE  SessionInv'
  BY <1>26 DEF ThreadSetsUp
<1>27. ASSUME NEW r \in Runs, TorShutsDown(r)
      PROVE  SessionInv'
  BY <1>27 DEF TorShutsDown, TorReturns
<1>28. ASSUME NEW r \in Runs, TorExits(r)
      PROVE  SessionInv'
  BY <1>28 DEF TorExits, TorReturns
<1>29. ASSUME NEW r \in Runs, TorBootstraps(r)
      PROVE  SessionInv'
  BY <1>29 DEF TorBootstraps
<1>30. ASSUME NEW s \in Streams, ConsumerStep(s)
      PROVE  SessionInv'
  BY <1>30 DEF ConsumerStep, OpenEvents, ConsumerLeaves
<1>31. ASSUME NEW s \in Streams, PostedTask(s)
      PROVE  SessionInv'
  BY <1>31 DEF PostedTask, AddContinuation, RemoveContinuation
<1>32. CASE UNCHANGED vars
  BY <1>32 DEF vars
<1> QED
  BY <1>1, <1>2, <1>3, <1>4, <1>5, <1>6, <1>7, <1>8, <1>9, <1>10, <1>11, <1>12,
       <1>13, <1>14, <1>15, <1>16, <1>17, <1>18, <1>19, <1>20, <1>21, <1>22,
       <1>23, <1>24, <1>25, <1>26, <1>27, <1>28, <1>29, <1>30, <1>31, <1>32
     DEF Next, CallStep, Job, StartJob, StopJob, WaitJob, OuterStep,
         ThreadStep, TorStep

(* So all three hold of every behaviour.                                   *)
THEOREM SessionInvariant == Spec => []SessionInv
<1>1. Init => SessionInv
  BY DEF Init, SessionInv, StoppingHasOwner, NoThreadOutsideSession,
       StoppedIsClean
<1> QED
  BY <1>1, SessionStep, TypeCorrect, PTL DEF Spec

(* The client is never left in .stopping without a stop() to end it.       *)
COROLLARY StoppingAlwaysHasOwner == Spec => []StoppingHasOwner
<1>1. SessionInv => StoppingHasOwner
  BY DEF SessionInv
<1> QED
  BY <1>1, SessionInvariant, PTL

(* A stopped client holds no client and no endpoint, unless a start() that *)
(* was overtaken is still in its discovery.                                *)
COROLLARY StoppedAlwaysClean == Spec => []StoppedIsClean
<1>1. SessionInv => StoppedIsClean
  BY DEF SessionInv
<1> QED
  BY <1>1, SessionInvariant, PTL

(* No thread of Tor is held in a state from which start() would launch     *)
(* another.                                                                *)
COROLLARY NoThreadLeftOver == Spec => []NoThreadOutsideSession
<1>1. SessionInv => NoThreadOutsideSession
  BY DEF SessionInv
<1> QED
  BY <1>1, SessionInvariant, PTL

(* start() is let in only without a session, so it overwrites no handle.   *)
THEOREM NoThreadReplaced == Spec => ThreadNeverReplaced
<1>1. SessionInv /\ [Next]_vars
        => [torThread # Nil => torThread' \in {torThread, Nil}]_vars
  <2> SUFFICES ASSUME SessionInv, [Next]_vars, torThread # Nil
               PROVE  torThread' \in {torThread, Nil}
    OBVIOUS
  <2> USE DEF SessionInv, NoThreadOutsideSession, actorVars
  <2>1. ASSUME NEW c \in Callers, StartLaunches(c)
        PROVE  torThread' \in {torThread, Nil}
    BY <2>1 DEF StartLaunches, StartEnters, Calls
  <2>2. ASSUME NEW c \in Callers, StartLacksDirectory(c)
        PROVE  torThread' \in {torThread, Nil}
    BY <2>2 DEF StartLacksDirectory, StartEnters, Calls
  <2>3. ASSUME NEW c \in Callers, StopSignals(c)
        PROVE  torThread' \in {torThread, Nil}
    BY <2>3 DEF StopSignals, StopEnters, Calls
  <2>4. ASSUME NEW c \in Callers, StopPolls(c)
        PROVE  torThread' \in {torThread, Nil}
    BY <2>4 DEF StopPolls, StopEnters, Calls
  <2>5. ASSUME NEW c \in Callers, StopAtOnce(c)
        PROVE  torThread' \in {torThread, Nil}
    BY <2>5 DEF StopAtOnce, StopEnters, Calls, FinishStop, Cleanup
  <2>6. ASSUME NEW c \in Callers, WaitCall(c)
        PROVE  torThread' \in {torThread, Nil}
    BY <2>6 DEF WaitCall, Calls
  <2>7. ASSUME NEW c \in Callers, StartResumes(c)
        PROVE  torThread' \in {torThread, Nil}
    BY <2>7 DEF StartResumes
  <2>8. ASSUME NEW c \in Callers, StartSettles(c)
        PROVE  torThread' \in {torThread, Nil}
    BY <2>8 DEF StartSettles, Attempt
  <2>9. ASSUME NEW c \in Callers, DiscoverAddress(c)
        PROVE  torThread' \in {torThread, Nil}
    BY <2>9 DEF DiscoverAddress, BecomeRunning
  <2>10. ASSUME NEW c \in Callers, DiscoverUnix(c)
        PROVE  torThread' \in {torThread, Nil}
    BY <2>10 DEF DiscoverUnix, FallBack, BecomeRunning
  <2>11. ASSUME NEW c \in Callers, DiscoverFails(c)
        PROVE  torThread' \in {torThread, Nil}
    BY <2>11 DEF DiscoverFails
  <2>12. ASSUME NEW c \in Callers, DiscoverAgain(c)
        PROVE  torThread' \in {torThread, Nil}
    BY <2>12 DEF DiscoverAgain, Attempt
  <2>13. ASSUME NEW c \in Callers, DiscoverGivesUp(c)
        PROVE  torThread' \in {torThread, Nil}
    BY <2>13 DEF DiscoverGivesUp, FallBack, BecomeRunning
  <2>14. ASSUME NEW c \in Callers, WriteShutdown(c)
        PROVE  torThread' \in {torThread, Nil}
    BY <2>14 DEF WriteShutdown
  <2>15. ASSUME NEW c \in Callers, StopJoins(c)
        PROVE  torThread' \in {torThread, Nil}
    BY <2>15 DEF StopJoins
  <2>16. ASSUME NEW c \in Callers, ThreadJoined(c)
        PROVE  torThread' \in {torThread, Nil}
    BY <2>16 DEF ThreadJoined, FinishStop, Cleanup
  <2>17. ASSUME NEW c \in Callers, StopWindowExpires(c)
        PROVE  torThread' \in {torThread, Nil}
    BY <2>17 DEF StopWindowExpires, FinishStop, Cleanup
  <2>18. ASSUME NEW c \in Callers, WaitBroadcasts(c)
        PROVE  torThread' \in {torThread, Nil}
    BY <2>18 DEF WaitBroadcasts
  <2>19. ASSUME NEW c \in Callers, WaitPollFails(c)
        PROVE  torThread' \in {torThread, Nil}
    BY <2>19 DEF WaitPollFails
  <2>20. ASSUME NEW c \in Callers, WaitPollsAgain(c)
        PROVE  torThread' \in {torThread, Nil}
    BY <2>20 DEF WaitPollsAgain
  <2>21. ASSUME NEW c \in Callers, WaitThrows(c)
        PROVE  torThread' \in {torThread, Nil}
    BY <2>21 DEF WaitThrows
  <2>22. ASSUME NEW c \in Callers, StartCancelled(c)
        PROVE  torThread' \in {torThread, Nil}
    BY <2>22 DEF StartCancelled
  <2>23. ASSUME NEW c \in Callers, TorAnswers(c)
        PROVE  torThread' \in {torThread, Nil}
    BY <2>23 DEF TorAnswers
  <2>24. ASSUME NEW c \in Callers, TorReports(c)
        PROVE  torThread' \in {torThread, Nil}
    BY <2>24 DEF TorReports
  <2>25. ASSUME NEW r \in Runs, ThreadBegins(r)
        PROVE  torThread' \in {torThread, Nil}
    BY <2>25 DEF ThreadBegins
  <2>26. ASSUME NEW r \in Runs, ThreadSetsUp(r)
        PROVE  torThread' \in {torThread, Nil}
    BY <2>26 DEF ThreadSetsUp
  <2>27. ASSUME NEW r \in Runs, TorShutsDown(r)
        PROVE  torThread' \in {torThread, Nil}
    BY <2>27 DEF TorShutsDown, TorReturns
  <2>28. ASSUME NEW r \in Runs, TorExits(r)
        PROVE  torThread' \in {torThread, Nil}
    BY <2>28 DEF TorExits, TorReturns
  <2>29. ASSUME NEW r \in Runs, TorBootstraps(r)
        PROVE  torThread' \in {torThread, Nil}
    BY <2>29 DEF TorBootstraps
  <2>30. ASSUME NEW s \in Streams, ConsumerStep(s)
        PROVE  torThread' \in {torThread, Nil}
    BY <2>30 DEF ConsumerStep, OpenEvents, ConsumerLeaves
  <2>31. ASSUME NEW s \in Streams, PostedTask(s)
        PROVE  torThread' \in {torThread, Nil}
    BY <2>31 DEF PostedTask, AddContinuation, RemoveContinuation
  <2>32. CASE UNCHANGED vars
    BY <2>32 DEF vars
  <2> QED
    BY <2>1, <2>2, <2>3, <2>4, <2>5, <2>6, <2>7, <2>8, <2>9, <2>10, <2>11,
         <2>12, <2>13, <2>14, <2>15, <2>16, <2>17, <2>18, <2>19, <2>20, <2>21,
         <2>22, <2>23, <2>24, <2>25, <2>26, <2>27, <2>28, <2>29, <2>30, <2>31,
         <2>32
       DEF Next, CallStep, Job, StartJob, StopJob, WaitJob, OuterStep,
           ThreadStep, TorStep
<1> QED
  BY <1>1, SessionInvariant, PTL DEF Spec, ThreadNeverReplaced

(* A driver is the only task that can have a start() or stop() in flight.  *)
LEMMA OnlyActive ==
    ASSUME OneDriverOnly, SerialInv, NEW c \in Drivers,
           NEW e \in Callers, Starting(e) \/ Stopping(e)
    PROVE  e = c
BY DEF OneDriverOnly, SerialInv, StartOwnsRun, StopOwnsRun

(***************************************************************************)
(* One driver, whose Tor obeys: by induction, only the latest run is ever  *)
(* alive, and a stopped client has none.                                   *)
(***************************************************************************)
LEMMA SerialStep ==
    ASSUME OneDriverOnly, TorControllable, TypeOK, SerialInv, [Next]_vars
    PROVE  SerialInv'
<1> USE CallersMay, BoundsNat DEF SerialInv, RunsInOrder, ResumedBySetup,
        StartOwnsRun, StopOwnsRun, HandlesByState, Starting, Stopping, NoneAlive,
        Alive, StartLabels, StopLabels, WaitLabels, Nil, Runs, TypeOK, actorVars, torVars, taskVars
<1>1. ASSUME NEW c \in Callers, StartLaunches(c)
      PROVE  SerialInv'
  <2> USE <1>1 DEF StartLaunches, StartEnters, Calls, Goto, OneDriverOnly,
          Drivers
  <2>0. c \in Drivers
    OBVIOUS
  <2>1. \A e \in Callers : Starting(e) \/ Stopping(e) => e = c
    BY <2>0, OnlyActive
  <2>2. RunsInOrder' /\ ResumedBySetup'
    <3>1. run + 1 \in Runs /\ thread[run + 1] = "none"
      OBVIOUS
    <3>2. \A r \in Runs : r <= run => thread[r] = "exited"
      BY DEF Phases
    <3>3. QED
      BY <3>1, <3>2
  <2>3. StartOwnsRun'
    BY <2>1
  <2>4. StopOwnsRun'
    BY <2>1
  <2>5. HandlesByState'
    BY <2>1
  <2> QED
    BY <2>2, <2>3, <2>4, <2>5
<1>2. ASSUME NEW c \in Callers, StartLacksDirectory(c)
      PROVE  SerialInv'
  BY <1>2 DEF StartLacksDirectory, StartEnters, Calls, OneDriverOnly, Drivers
<1>3. ASSUME NEW c \in Callers, StopSignals(c)
      PROVE  SerialInv'
  <2> USE <1>3 DEF StopSignals, StopEnters, Calls, Goto, OneDriverOnly, Drivers
  <2>0. c \in Drivers
    OBVIOUS
  <2>1. \A e \in Callers : Starting(e) \/ Stopping(e) => e = c
    BY <2>0, OnlyActive
  <2>2. RunsInOrder' /\ ResumedBySetup'
    BY <2>1
  <2>3. StartOwnsRun'
    BY <2>1
  <2>4. StopOwnsRun'
    BY <2>1
  <2>5. HandlesByState'
    BY <2>1
  <2> QED
    BY <2>2, <2>3, <2>4, <2>5
<1>4. ASSUME NEW c \in Callers, StopPolls(c)
      PROVE  SerialInv'
  <2> USE <1>4 DEF StopPolls, StopEnters, Calls, Goto, OneDriverOnly, Drivers,
          Executing
  <2>0. c \in Drivers
    OBVIOUS
  <2>1. \A e \in Callers : Starting(e) \/ Stopping(e) => e = c
    BY <2>0, OnlyActive
  <2>2. RunsInOrder' /\ ResumedBySetup'
    BY <2>1
  <2>3. StartOwnsRun'
    BY <2>1
  <2>4. StopOwnsRun'
    BY <2>1
  <2>5. HandlesByState'
    BY <2>1
  <2> QED
    BY <2>2, <2>3, <2>4, <2>5
<1>5. ASSUME NEW c \in Callers, StopAtOnce(c)
      PROVE  SerialInv'
  <2> USE <1>5 DEF StopAtOnce, StopEnters, Calls, FinishStop, Cleanup, Goto,
          Executing
  <2>0. c \in Drivers
    BY DEF Drivers
  <2>1. \A e \in Callers : Starting(e) \/ Stopping(e) => e = c
    BY <2>0, OnlyActive
  <2>2. RunsInOrder' /\ ResumedBySetup'
    BY <2>1
  <2>3. StartOwnsRun'
    BY <2>1
  <2>4. StopOwnsRun'
    BY <2>1
  <2>5. HandlesByState'
    BY <2>1
  <2> QED
    BY <2>2, <2>3, <2>4, <2>5
<1>6. ASSUME NEW c \in Callers, WaitCall(c)
      PROVE  SerialInv'
  BY <1>6 DEF WaitCall, Calls, Goto, OneDriverOnly, Drivers
<1>7. ASSUME NEW c \in Callers, StartResumes(c)
      PROVE  SerialInv'
  <2> USE <1>7 DEF StartResumes, Goto
  <2>0. c \in Drivers
    OBVIOUS
  <2>1. \A e \in Callers : Starting(e) \/ Stopping(e) => e = c
    BY <2>0, OnlyActive
  <2>2. RunsInOrder' /\ ResumedBySetup'
    BY <2>1
  <2>3. StartOwnsRun'
    <3>1. Starting(c) /\ loc[c] = run /\ run # 0
      OBVIOUS
    <3>2. CASE contin[run] = "error"
      <4>1. pc' = [pc EXCEPT ![c] = "idle"]
        BY <3>1, <3>2
      <4>2. QED
        BY <2>1, <4>1
    <3>3. CASE contin[run] # "error"
      <4>1. /\ contin[run] = "fd"
            /\ controlSocketFD' = run
            /\ pc' = [pc EXCEPT ![c] = "settling"]
        BY <3>1, <3>3 DEF Resumptions
      <4>2. QED
        BY <2>1, <3>1, <4>1
    <3>4. QED
      BY <3>2, <3>3
  <2>4. StopOwnsRun'
    BY <2>1
  <2>5. HandlesByState'
    BY <2>1
  <2> QED
    BY <2>2, <2>3, <2>4, <2>5
<1>8. ASSUME NEW c \in Callers, StartSettles(c)
      PROVE  SerialInv'
  <2> USE <1>8 DEF StartSettles, Attempt, Goto
  <2>0. c \in Drivers
    OBVIOUS
  <2>1. \A e \in Callers : Starting(e) \/ Stopping(e) => e = c
    BY <2>0, OnlyActive
  <2>2. RunsInOrder' /\ ResumedBySetup'
    BY <2>1
  <2>3. StartOwnsRun'
    <3>1. Starting(c) /\ controlClient' = run
      OBVIOUS
    <3>2. pc' \in {[pc EXCEPT ![c] = "asking"], [pc EXCEPT ![c] = "pausing"]}
      OBVIOUS
    <3>3. QED
      BY <2>1, <3>1, <3>2
  <2>4. StopOwnsRun'
    BY <2>1
  <2>5. HandlesByState'
    BY <2>1
  <2> QED
    BY <2>2, <2>3, <2>4, <2>5
<1>9. ASSUME NEW c \in Callers, DiscoverAddress(c)
      PROVE  SerialInv'
  <2> USE <1>9 DEF DiscoverAddress, BecomeRunning, Goto
  <2>0. c \in Drivers
    OBVIOUS
  <2>1. \A e \in Callers : Starting(e) \/ Stopping(e) => e = c
    BY <2>0, OnlyActive
  <2>2. RunsInOrder' /\ ResumedBySetup'
    BY <2>1
  <2>3. StartOwnsRun'
    BY <2>1
  <2>4. StopOwnsRun'
    BY <2>1
  <2>5. HandlesByState'
    BY <2>1
  <2> QED
    BY <2>2, <2>3, <2>4, <2>5
<1>10. ASSUME NEW c \in Callers, DiscoverUnix(c)
      PROVE  SerialInv'
  <2> USE <1>10 DEF DiscoverUnix, FallBack, BecomeRunning, Goto
  <2>0. c \in Drivers
    OBVIOUS
  <2>1. \A e \in Callers : Starting(e) \/ Stopping(e) => e = c
    BY <2>0, OnlyActive
  <2>2. RunsInOrder' /\ ResumedBySetup'
    BY <2>1
  <2>3. StartOwnsRun'
    BY <2>1
  <2>4. StopOwnsRun'
    BY <2>1
  <2>5. HandlesByState'
    BY <2>1
  <2> QED
    BY <2>2, <2>3, <2>4, <2>5
<1>11. ASSUME NEW c \in Callers, DiscoverFails(c)
      PROVE  SerialInv'
  BY <1>11 DEF DiscoverFails, Goto, OneDriverOnly, Drivers
<1>12. ASSUME NEW c \in Callers, DiscoverAgain(c)
      PROVE  SerialInv'
  <2> USE <1>12 DEF DiscoverAgain, Attempt, Goto
  <2>0. c \in Drivers
    OBVIOUS
  <2>1. \A e \in Callers : Starting(e) \/ Stopping(e) => e = c
    BY <2>0, OnlyActive
  <2>2. RunsInOrder' /\ ResumedBySetup'
    BY <2>1
  <2>3. StartOwnsRun'
    BY <2>1
  <2>4. StopOwnsRun'
    BY <2>1
  <2>5. HandlesByState'
    BY <2>1
  <2> QED
    BY <2>2, <2>3, <2>4, <2>5
<1>13. ASSUME NEW c \in Callers, DiscoverGivesUp(c)
      PROVE  SerialInv'
  <2> USE <1>13 DEF DiscoverGivesUp, FallBack, BecomeRunning, Goto
  <2>0. c \in Drivers
    OBVIOUS
  <2>1. \A e \in Callers : Starting(e) \/ Stopping(e) => e = c
    BY <2>0, OnlyActive
  <2>2. RunsInOrder' /\ ResumedBySetup'
    BY <2>1
  <2>3. StartOwnsRun'
    BY <2>1
  <2>4. StopOwnsRun'
    BY <2>1
  <2>5. HandlesByState'
    BY <2>1
  <2> QED
    BY <2>2, <2>3, <2>4, <2>5
<1>14. ASSUME NEW c \in Callers, WriteShutdown(c)
      PROVE  SerialInv'
  BY <1>14 DEF WriteShutdown, Goto, OneDriverOnly, Drivers
<1>15. ASSUME NEW c \in Callers, StopJoins(c)
      PROVE  SerialInv'
  BY <1>15 DEF StopJoins, Goto, OneDriverOnly, Drivers, Executing
<1>16. ASSUME NEW c \in Callers, ThreadJoined(c)
      PROVE  SerialInv'
  <2> USE <1>16 DEF ThreadJoined, FinishStop, Cleanup, Goto
  <2>0. c \in Drivers /\ state = "stopping"
    OBVIOUS
  <2>1. \A e \in Callers : Starting(e) \/ Stopping(e) => e = c
    BY <2>0, OnlyActive
  <2>2. RunsInOrder' /\ ResumedBySetup'
    OBVIOUS
  <2>3. StartOwnsRun' /\ StopOwnsRun'
    BY <2>1
  <2>4. HandlesByState'
    <3>1. thread[run] = "exited"
      BY <2>0 DEF Executing, Phases
    <3>2. \A r \in Runs : thread[r] \in {"none", "exited"}
      BY <3>1
    <3>3. state' = "stopped" /\ torThread' = Nil /\ controlClient' = Nil
      OBVIOUS
    <3>4. NoneAlive'
      BY <3>2
    <3>5. QED
      BY <3>3, <3>4
  <2> QED
    BY <2>2, <2>3, <2>4
<1>17. ASSUME NEW c \in Callers, StopWindowExpires(c)
      PROVE  SerialInv'
  BY <1>17 DEF StopWindowExpires, FinishStop, Cleanup, Goto, TorControllable,
       Fault, OneDriverOnly, Drivers, Executing
<1>18. ASSUME NEW c \in Callers, WaitBroadcasts(c)
      PROVE  SerialInv'
  <2> USE <1>18 DEF WaitBroadcasts, Goto, OneDriverOnly, Drivers
  <2>1. \A e \in Callers : (Starting(e)' <=> Starting(e)) /\ (Stopping(e)' <=> Stopping(e))
    OBVIOUS
  <2>2. RunsInOrder' /\ ResumedBySetup'
    BY <2>1
  <2>3. StartOwnsRun'
    BY <2>1
  <2>4. StopOwnsRun'
    BY <2>1
  <2>5. HandlesByState'
    BY <2>1
  <2> QED
    BY <2>2, <2>3, <2>4, <2>5
<1>19. ASSUME NEW c \in Callers, WaitPollFails(c)
      PROVE  SerialInv'
  BY <1>19 DEF WaitPollFails, Goto, OneDriverOnly, Drivers
<1>20. ASSUME NEW c \in Callers, WaitPollsAgain(c)
      PROVE  SerialInv'
  BY <1>20 DEF WaitPollsAgain, Goto, OneDriverOnly, Drivers
<1>21. ASSUME NEW c \in Callers, WaitThrows(c)
      PROVE  SerialInv'
  BY <1>21 DEF WaitThrows, Goto, OneDriverOnly, Drivers
<1>22. ASSUME NEW c \in Callers, StartCancelled(c)
      PROVE  SerialInv'
  BY <1>22 DEF StartCancelled, Goto, TorControllable, Fault, OneDriverOnly,
       Drivers
<1>23. ASSUME NEW c \in Callers, TorAnswers(c)
      PROVE  SerialInv'
  BY <1>23 DEF TorAnswers, Goto, OneDriverOnly, Drivers
<1>24. ASSUME NEW c \in Callers, TorReports(c)
      PROVE  SerialInv'
  BY <1>24 DEF TorReports, Goto, OneDriverOnly, Drivers
<1>25. ASSUME NEW r \in Runs, ThreadBegins(r)
      PROVE  SerialInv'
  BY <1>25 DEF ThreadBegins
<1>26. ASSUME NEW r \in Runs, ThreadSetsUp(r)
      PROVE  SerialInv'
  <2> USE <1>26 DEF ThreadSetsUp
  <2>1. /\ "socket" \notin Faults
        /\ thread[r] = "setup"
        /\ contin[r] = "pending"
        /\ r = run
        /\ state = "starting"
    <3>1. thread[r] = "setup" /\ contin[r] = "pending"
      OBVIOUS
    <3>2. r = run
      BY <3>1
    <3>3. state = "starting"
      BY <3>1, <3>2 DEF StateNames
    <3>4. QED
      BY <3>1, <3>2, <3>3 DEF TorControllable
  <2>2. RunsInOrder'
    BY <2>1
  <2>3. ResumedBySetup'
    <3>1. CASE contin' = [contin EXCEPT ![r] = "fd"]
      <4>1. thread' = [thread EXCEPT ![r] = "main"]
        BY <3>1
      <4>2. QED
        BY <3>1, <4>1, <2>1
    <3>2. CASE contin' = [contin EXCEPT ![r] = "error"]
      <4>1. thread' = [thread EXCEPT ![r] = "exited"]
        BY <3>2
      <4>2. QED
        BY <3>2, <4>1, <2>1
    <3>3. QED
      BY <2>1, <3>1, <3>2 DEF Fault
  <2>4. StartOwnsRun' /\ StopOwnsRun'
    BY <2>1
  <2>5. HandlesByState'
    BY <2>1
  <2> QED
    BY <2>2, <2>3, <2>4, <2>5
<1>27. ASSUME NEW r \in Runs, TorShutsDown(r)
      PROVE  SerialInv'
  BY <1>27 DEF TorShutsDown, TorReturns
<1>28. ASSUME NEW r \in Runs, TorExits(r)
      PROVE  SerialInv'
  BY <1>28 DEF TorExits, TorReturns
<1>29. ASSUME NEW r \in Runs, TorBootstraps(r)
      PROVE  SerialInv'
  BY <1>29 DEF TorBootstraps
<1>30. ASSUME NEW s \in Streams, ConsumerStep(s)
      PROVE  SerialInv'
  BY <1>30 DEF ConsumerStep, OpenEvents, ConsumerLeaves
<1>31. ASSUME NEW s \in Streams, PostedTask(s)
      PROVE  SerialInv'
  BY <1>31 DEF PostedTask, AddContinuation, RemoveContinuation
<1>32. CASE UNCHANGED vars
  BY <1>32 DEF vars
<1> QED
  BY <1>1, <1>2, <1>3, <1>4, <1>5, <1>6, <1>7, <1>8, <1>9, <1>10, <1>11, <1>12,
       <1>13, <1>14, <1>15, <1>16, <1>17, <1>18, <1>19, <1>20, <1>21, <1>22,
       <1>23, <1>24, <1>25, <1>26, <1>27, <1>28, <1>29, <1>30, <1>31, <1>32
     DEF Next, CallStep, Job, StartJob, StopJob, WaitJob, OuterStep,
         ThreadStep, TorStep

(* One driver and a controllable Tor: what a start() or stop() in flight   *)
(* owns, and what the actor holds in each state.                           *)
THEOREM SerialInvariant ==
    ASSUME OneDriverOnly, TorControllable
    PROVE  Spec => []SerialInv
<1>1. Init => SerialInv
  BY BoundsNat DEF Init, SerialInv, RunsInOrder, ResumedBySetup, StartOwnsRun,
     StopOwnsRun, HandlesByState, Starting, Stopping, NoneAlive, Alive,
     StartLabels, StopLabels, Runs
<1>2. TypeOK /\ SerialInv /\ [Next]_vars => SerialInv'
  BY SerialStep
<1> QED
  BY <1>1, <1>2, TypeCorrect, PTL DEF Spec

(* Two Tors never run at once, however often the client is restarted.      *)
THEOREM OneTorAtATime ==
    ASSUME OneDriverOnly, TorControllable
    PROVE  Spec => []AtMostOneTor
<1>1. TypeOK /\ SerialInv => AtMostOneTor
  <2> SUFFICES ASSUME TypeOK, SerialInv,
                      NEW q \in Runs, NEW r \in Runs, Alive(q), Alive(r)
               PROVE  q = r
    BY DEF AtMostOneTor
  <2>1. thread[q] \notin {"none", "exited"} /\ thread[r] \notin {"none", "exited"}
    BY DEF Alive
  <2>2. q = run /\ r = run
    BY <2>1, BoundsNat DEF SerialInv, RunsInOrder, TypeOK, Runs
  <2> QED
    BY <2>2
<1> QED
  BY <1>1, SerialInvariant, TypeCorrect, PTL

(* stop() leaves no thread of Tor behind.                                  *)
THEOREM StoppedThreadsExited ==
    ASSUME OneDriverOnly, TorControllable
    PROVE  Spec => []StoppedMeansExited
<1>1. SerialInv => StoppedMeansExited
  BY DEF SerialInv, HandlesByState, NoneAlive, StoppedMeansExited
<1> QED
  BY <1>1, SerialInvariant, PTL

(* An owned data directory is never removed under a Tor still alive.       *)
THEOREM DirectoryKept ==
    ASSUME OneDriverOnly, TorControllable
    PROVE  Spec => []DirectoryOutlivesTor
<1>1. TypeOK /\ SerialInv => DirectoryOutlivesTor
  BY DEF TypeOK, StateNames, SerialInv, HandlesByState, StartOwnsRun,
       NoneAlive,
     DirectoryOutlivesTor
<1> QED
  BY <1>1, SerialInvariant, TypeCorrect, PTL

-----------------------------------------------------------------------------
(* One driver, whatever goes wrong: a stop() clears the handles before     *)
(* there can be another run.                                               *)
CallsOwnState ==
    \A c \in Callers :
        /\ Starting(c) => c \in Drivers /\ state = "starting"
        /\ Stopping(c) => c \in Drivers /\ state = "stopping"
        /\ pc[c] \in {"launching", "asking", "answered"} => loc[c] = run

ClearedBetween ==
    state \in {"idle", "stopped", "failed"} =>
        /\ controlSocketFD = Nil /\ controlClient = Nil
        /\ socksEndpoint = NoEndpoint

CurrentInv == HandlesAreCurrent /\ CallsOwnState /\ ClearedBetween

(* The task that makes a call is the only one that has one under way.      *)
LEMMA OnlyCall ==
    ASSUME OneDriverOnly, CallsOwnState, NEW c \in Drivers,
           NEW d \in Callers, Starting(d) \/ Stopping(d)
    PROVE  d = c
BY DEF OneDriverOnly, CallsOwnState

(* No other task is in a start() or a stop(): what this one does to state  *)
(* and run is nobody else's concern.                                       *)
LEMMA CallKeepsOthers ==
    ASSUME OneDriverOnly, TypeOK, CallsOwnState, NEW c \in Drivers,
           NEW label \in Labels, Goto(c, label),
           \A d \in Callers \ {c} : loc'[d] = loc[d],
           label \in StartLabels => state' = "starting",
           label \in StopLabels => state' = "stopping",
           label \in {"launching", "asking", "answered"} => loc'[c] = run'
    PROVE  CallsOwnState'
<1>1. /\ pc'[c] = label /\ \A d \in Callers \ {c} : pc'[d] = pc[d]
      /\ c \in Callers
  BY DEF Goto, TypeOK, Drivers
<1>2. \A d \in Callers \ {c} : ~Starting(d) /\ ~Stopping(d)
  BY OnlyCall
<1>3. \A d \in Callers \ {c} : ~Starting(d)' /\ ~Stopping(d)'
  BY <1>1, <1>2 DEF Starting, Stopping
<1>4. /\ Starting(c)' => state' = "starting"
      /\ Stopping(c)' => state' = "stopping"
      /\ pc'[c] \in {"launching", "asking", "answered"} => loc'[c] = run'
  BY <1>1 DEF Starting, Stopping
<1>5. c \in Drivers'
  BY DEF Drivers
<1>6. \A d \in Callers \ {c} :
          pc'[d] \notin {"launching", "asking", "answered"}
  BY <1>3 DEF Starting, StartLabels
<1> QED
  BY <1>3, <1>4, <1>5, <1>6 DEF CallsOwnState

LEMMA CurrentInitially == Init => CurrentInv
BY DEF Init, CurrentInv, HandlesAreCurrent, CallsOwnState, ClearedBetween,
   Starting, Stopping, StartLabels, StopLabels

(* Neither state nor a handle changes, nor does a start() or stop() begin  *)
(* or go on.                                                               *)
LEMMA CurrentUnchanged ==
    ASSUME CurrentInv, UNCHANGED <<actorVars, run>>,
           \A d \in Callers :
               \/ UNCHANGED <<pc[d], loc[d]>>
               \/ pc'[d] \notin StartLabels \cup StopLabels
    PROVE  CurrentInv'
<1>1. UNCHANGED <<state, run, torThread, controlSocketFD, controlClient,
                  socksEndpoint>>
  BY DEF actorVars
<1>2. CallsOwnState'
  BY <1>1 DEF CurrentInv, CallsOwnState, Starting, Stopping, StartLabels, Drivers
<1> QED
  BY <1>1, <1>2 DEF CurrentInv, HandlesAreCurrent, ClearedBetween

LEMMA CurrentStart ==
    ASSUME OneDriverOnly, TypeOK, CurrentInv, NEW c \in Callers,
           \/ StartLaunches(c) \/ StartLacksDirectory(c) \/ StartCancelled(c)
           \/ StartJob(c) \/ TorAnswers(c)
    PROVE  CurrentInv'
<1> USE DEF StartLabels, StopLabels, Labels, Nil, NoEndpoint, Configured
<1>1. CASE StartLaunches(c) \/ StartLacksDirectory(c)
  <2>1. /\ c \in Drivers /\ pc[c] = "idle"
        /\ state \in {"idle", "stopped", "failed"} /\ state' = "starting"
        /\ UNCHANGED <<controlSocketFD, controlClient, socksEndpoint>>
    BY <1>1 DEF StartLaunches, StartLacksDirectory, StartEnters, Calls, Drivers
  <2>2. controlSocketFD = Nil /\ controlClient = Nil /\ socksEndpoint = NoEndpoint
    BY <2>1 DEF CurrentInv, ClearedBetween
  <2>3. CASE StartLaunches(c)
    <3>1. /\ run' = run + 1 /\ torThread' = run + 1
          /\ loc' = [loc EXCEPT ![c] = run + 1] /\ Goto(c, "launching")
      BY <2>3 DEF StartLaunches
    <3>2. loc'[c] = run' /\ \A d \in Callers \ {c} : loc'[d] = loc[d]
      BY <3>1 DEF TypeOK
    <3>3. CallsOwnState'
      BY <2>1, <3>1, <3>2, CallKeepsOthers DEF CurrentInv
    <3>4. QED
      BY <2>1, <2>2, <3>1, <3>3 DEF CurrentInv, HandlesAreCurrent, ClearedBetween
  <2>4. CASE StartLacksDirectory(c)
    <3>1. UNCHANGED <<torThread, run, pc, loc>>
      BY <2>4 DEF StartLacksDirectory
    <3>2. \A d \in Callers : ~Starting(d) /\ ~Stopping(d)
      BY <2>1, OnlyCall DEF CurrentInv, Starting, Stopping
    <3>3. CallsOwnState'
      BY <3>1, <3>2 DEF CallsOwnState, Starting, Stopping
    <3>4. QED
      BY <2>1, <2>2, <3>1, <3>3 DEF CurrentInv, HandlesAreCurrent, ClearedBetween
  <2> QED
    BY <1>1, <2>3, <2>4
<1>2. ASSUME Starting(c)
      PROVE  c \in Drivers /\ state = "starting"
  BY <1>2 DEF CurrentInv, CallsOwnState
<1>3. CASE StartResumes(c)
  <2>1. /\ pc[c] = "launching" /\ UNCHANGED <<state, run, loc, torThread,
                                              controlClient, socksEndpoint>>
        /\ \E l \in {"idle", "settling"} : Goto(c, l)
        /\ controlSocketFD' \in {controlSocketFD, loc[c], Nil}
    BY <1>3 DEF StartResumes, torVars
  <2>2. c \in Drivers /\ state = "starting" /\ loc[c] = run
    BY <1>2, <2>1 DEF Starting, CurrentInv, CallsOwnState
  <2>3. CallsOwnState'
    BY <2>1, <2>2, CallKeepsOthers DEF CurrentInv
  <2>4. QED
    BY <2>1, <2>2, <2>3 DEF CurrentInv, HandlesAreCurrent, ClearedBetween
<1>4. CASE StartSettles(c) \/ DiscoverAgain(c)
  <2>1. /\ pc[c] \in {"settling", "pausing"}
        /\ UNCHANGED <<state, run, torThread, controlSocketFD, socksEndpoint>>
        /\ controlClient' \in {controlClient, controlSocketFD}
        /\ \/ Goto(c, "asking") /\ controlClient' # Nil
              /\ loc' = [loc EXCEPT ![c] = controlClient']
           \/ Goto(c, "pausing") /\ loc' = loc
    BY <1>4 DEF StartSettles, DiscoverAgain, Attempt, actorVars, torVars
  <2>2. c \in Drivers /\ state = "starting"
    BY <1>2, <2>1 DEF Starting
  <2>3. controlClient' \in {Nil, run}
    BY <2>1 DEF CurrentInv, HandlesAreCurrent
  <2>4. CallsOwnState'
    <3>1. CASE Goto(c, "pausing") /\ loc' = loc
      BY <2>1, <2>2, <3>1, CallKeepsOthers DEF CurrentInv
    <3>2. CASE /\ Goto(c, "asking") /\ controlClient' # Nil
               /\ loc' = [loc EXCEPT ![c] = controlClient']
      <4>1. loc'[c] = run' /\ \A d \in Callers \ {c} : loc'[d] = loc[d]
        BY <2>1, <2>3, <3>2 DEF TypeOK
      <4>2. QED
        BY <2>1, <2>2, <3>2, <4>1, CallKeepsOthers DEF CurrentInv
    <3> QED
      BY <2>1, <3>1, <3>2
  <2>5. QED
    BY <2>1, <2>2, <2>3, <2>4 DEF CurrentInv, HandlesAreCurrent, ClearedBetween
<1>5. CASE DiscoverAddress(c) \/ DiscoverUnix(c) \/ DiscoverGivesUp(c)
  <2>1. /\ pc[c] \in {"answered", "pausing"} /\ state' = "running"
        /\ Goto(c, "idle")
        /\ UNCHANGED <<run, loc, torThread, controlSocketFD, controlClient>>
        /\ \/ socksEndpoint' \in {Configured, socksEndpoint}
           \/ pc[c] = "answered" /\ socksEndpoint' = loc[c]
    BY <1>5 DEF DiscoverAddress, DiscoverUnix, DiscoverGivesUp, FallBack,
       BecomeRunning, torVars
  <2>2. c \in Drivers /\ state = "starting"
    BY <1>2, <2>1 DEF Starting
  <2>3. socksEndpoint' \in {NoEndpoint, Configured, run}
    BY <2>1 DEF CurrentInv, HandlesAreCurrent, CallsOwnState
  <2>4. CallsOwnState'
    BY <2>1, <2>2, CallKeepsOthers DEF CurrentInv
  <2>5. QED
    BY <2>1, <2>3, <2>4 DEF CurrentInv, HandlesAreCurrent, ClearedBetween
<1>6. CASE StartCancelled(c) \/ DiscoverFails(c) \/ TorAnswers(c)
  <2>1. /\ Starting(c) /\ UNCHANGED <<actorVars, run, loc>>
        /\ \E l \in {"idle", "pausing", "answered"} :
               Goto(c, l) /\ (l = "answered" => pc[c] = "asking")
    BY <1>6 DEF StartCancelled, DiscoverFails, TorAnswers, torVars, Starting
  <2>2. c \in Drivers /\ state' = "starting"
    BY <1>2, <2>1 DEF actorVars
  <2>3. pc[c] = "asking" => loc'[c] = run'
    BY <2>1 DEF CurrentInv, CallsOwnState
  <2>4. CallsOwnState'
    BY <2>1, <2>2, <2>3, CallKeepsOthers DEF CurrentInv
  <2>5. QED
    BY <2>1, <2>4 DEF CurrentInv, HandlesAreCurrent, ClearedBetween, actorVars
<1> QED
  BY <1>1, <1>3, <1>4, <1>5, <1>6 DEF StartJob

LEMMA CurrentStop ==
    ASSUME OneDriverOnly, TypeOK, CurrentInv, NEW c \in Callers,
           \/ StopSignals(c) \/ StopPolls(c) \/ StopAtOnce(c) \/ StopJob(c)
    PROVE  CurrentInv'
<1> USE DEF StartLabels, StopLabels, Labels, Nil, NoEndpoint, Configured
<1>1. c \in Drivers
  BY DEF StopSignals, StopPolls, StopAtOnce, StopEnters, Calls, StopJob,
     WriteShutdown, StopJoins, ThreadJoined, StopWindowExpires, Drivers,
     CurrentInv, CallsOwnState, Stopping
<1>2. CASE StopSignals(c) \/ StopPolls(c)
  <2>1. /\ state' = "stopping"
        /\ UNCHANGED <<run, torThread, controlSocketFD, controlClient,
                       socksEndpoint>>
        /\ \E l \in {"signalling", "joining"} : Goto(c, l)
        /\ \A d \in Callers \ {c} : loc'[d] = loc[d]
    BY <1>2 DEF StopSignals, StopPolls, torVars, TypeOK
  <2>2. CallsOwnState'
    BY <1>1, <2>1, CallKeepsOthers DEF CurrentInv
  <2>3. QED
    BY <2>1, <2>2 DEF CurrentInv, HandlesAreCurrent, ClearedBetween
<1>3. CASE StopAtOnce(c) \/ ThreadJoined(c) \/ StopWindowExpires(c)
  <2>1. /\ state' = "stopped" /\ run' = run /\ loc' = loc /\ Goto(c, "idle")
        /\ torThread' = Nil /\ controlSocketFD' = Nil /\ controlClient' = Nil
        /\ socksEndpoint' = NoEndpoint
    BY <1>3 DEF StopAtOnce, ThreadJoined, StopWindowExpires, FinishStop, Cleanup,
       torVars
  <2>2. CallsOwnState'
    BY <1>1, <2>1, CallKeepsOthers DEF CurrentInv
  <2>3. QED
    BY <2>1, <2>2 DEF CurrentInv, HandlesAreCurrent, ClearedBetween
<1>4. CASE WriteShutdown(c) \/ StopJoins(c)
  <2>1. /\ Stopping(c) /\ UNCHANGED <<actorVars, run, loc>>
        /\ \E l \in {"signalled", "joining"} : Goto(c, l)
    BY <1>4 DEF WriteShutdown, StopJoins, torVars, Stopping
  <2>2. state' = "stopping"
    BY <2>1 DEF CurrentInv, CallsOwnState, actorVars
  <2>3. CallsOwnState'
    BY <1>1, <2>1, <2>2, CallKeepsOthers DEF CurrentInv
  <2>4. QED
    BY <2>1, <2>3 DEF CurrentInv, HandlesAreCurrent, ClearedBetween, actorVars
<1> QED
  BY <1>2, <1>3, <1>4 DEF StopJob

LEMMA CurrentInductive ==
    ASSUME OneDriverOnly, TypeOK, CurrentInv, [Next]_vars
    PROVE  CurrentInv'
<1>1. ASSUME NEW c \in Callers, WaitCall(c) \/ WaitJob(c) \/ TorReports(c)
      PROVE  CurrentInv'
  <2>1. /\ UNCHANGED <<actorVars, run>>
        /\ \E l \in {"idle"} \cup WaitLabels : Goto(c, l)
        /\ \A d \in Callers \ {c} : loc'[d] = loc[d]
    BY <1>1 DEF WaitCall, WaitJob, WaitBroadcasts, WaitPollFails, WaitPollsAgain,
       WaitThrows, TorReports, torVars, WaitLabels, TypeOK
  <2>2. ({"idle"} \cup WaitLabels) \cap (StartLabels \cup StopLabels) = {}
    BY DEF WaitLabels, StartLabels, StopLabels
  <2>3. \A d \in Callers :
            \/ UNCHANGED <<pc[d], loc[d]>>
            \/ pc'[d] \notin StartLabels \cup StopLabels
    BY <2>1, <2>2 DEF Goto, TypeOK
  <2>4. QED
    BY <2>1, <2>3, CurrentUnchanged
<1>2. CASE UNCHANGED <<actorVars, run, pc, loc>>
  BY <1>2, CurrentUnchanged
<1>3. ASSUME NEW c \in Callers, CallStep(c) \/ Job(c) \/ OuterStep(c)
      PROVE  CurrentInv'
  BY <1>1, <1>3, CurrentStart, CurrentStop DEF CallStep, Job, OuterStep
<1> QED
  BY <1>2, <1>3 DEF Next, ThreadStep, TorStep, ThreadBegins, ThreadSetsUp,
     TorShutsDown, TorExits, TorReturns, TorBootstraps, ConsumerStep, PostedTask,
     taskVars, torVars, vars

(* With one driver, whatever goes wrong, no handle is that of an earlier   *)
(* run: control commands and the SOCKS endpoint concern the Tor whose      *)
(* thread the client holds (TorClient.start, TorClient.cleanup).           *)
THEOREM HandlesCurrent ==
    ASSUME OneDriverOnly
    PROVE  Spec => []HandlesAreCurrent
<1>1. TypeOK /\ CurrentInv /\ [Next]_vars => CurrentInv'
  BY CurrentInductive
<1>2. CurrentInv => HandlesAreCurrent
  BY DEF CurrentInv
<1> QED
  BY <1>1, <1>2, CurrentInitially, TypeCorrect, PTL DEF Spec
=============================================================================
