-------------------------- MODULE EventStreamProofs --------------------------
(***************************************************************************)
(* Proofs about the event streams of TorClient for every value of its      *)
(* constants: what a subscriber is told, and whose stream a stop() ends.   *)
(***************************************************************************)
EXTENDS TorClientProofs, SequenceTheorems, SequenceLemmas

-----------------------------------------------------------------------------
(* A step of the client, to the streams, is one of four.                   *)

Told == {"starting", "running", "stopping", "bootstrap", "bootstrap100"}

Quiet == UNCHANGED <<state, streamVars>>
Subscribers == state' = state /\ \E s \in Streams : StreamStep(s)
Tells(e) ==
    /\ Broadcast(e)
    /\ UNCHANGED <<opened, adding, removing, eventContinuations, ended>>
    /\ state' = IF e \in StateNames THEN e ELSE state
Finishes ==
    /\ FinishAll
    /\ UNCHANGED got \/ Broadcast("stopping")
    /\ state' = "stopped"

LEMMA StreamSteps ==
    ASSUME [Next]_vars
    PROVE  Quiet \/ Subscribers \/ (\E e \in Told : Tells(e)) \/ Finishes
<1> USE DEF actorVars, streamVars
<1>1. CASE UNCHANGED vars
  BY <1>1 DEF vars, Quiet
<1>2. ASSUME NEW c \in Callers, StartLaunches(c) \/ StartLacksDirectory(c)
      PROVE  Tells("starting")
  BY <1>2 DEF StartLaunches, StartLacksDirectory, StartEnters, Tells, StateNames
<1>3. ASSUME NEW c \in Callers, StopSignals(c) \/ StopPolls(c)
      PROVE  Tells("stopping")
  BY <1>3 DEF StopSignals, StopPolls, StopEnters, Tells, StateNames
<1>4. ASSUME NEW c \in Callers,
             StopAtOnce(c) \/ ThreadJoined(c) \/ StopWindowExpires(c)
      PROVE  Finishes
  BY <1>4 DEF StopAtOnce, StopEnters, ThreadJoined, StopWindowExpires,
              FinishStop, Cleanup, Finishes
<1>5. ASSUME NEW c \in Callers,
             DiscoverAddress(c) \/ DiscoverUnix(c) \/ DiscoverGivesUp(c)
      PROVE  Tells("running")
  BY <1>5 DEF DiscoverAddress, DiscoverUnix, DiscoverGivesUp, FallBack,
              BecomeRunning, Tells, StateNames
<1>6. ASSUME NEW c \in Callers, WaitBroadcasts(c)
      PROVE  Tells("bootstrap") \/ Tells("bootstrap100")
  BY <1>6 DEF WaitBroadcasts, Tells, StateNames
<1>7. ASSUME NEW c \in Callers,
             \/ WaitCall(c) \/ WaitPollFails(c) \/ WaitPollsAgain(c)
             \/ WaitThrows(c) \/ StartResumes(c) \/ StartSettles(c)
             \/ DiscoverFails(c) \/ DiscoverAgain(c) \/ WriteShutdown(c)
             \/ StopJoins(c) \/ OuterStep(c)
      PROVE  Quiet
  BY <1>7 DEF WaitCall, WaitPollFails, WaitPollsAgain, WaitThrows,
     StartResumes, StartSettles, DiscoverFails, DiscoverAgain, WriteShutdown,
     StopJoins, OuterStep, StartCancelled, TorAnswers, TorReports, Quiet
<1>8. ASSUME NEW r \in Runs, ThreadStep(r) \/ TorStep(r)
      PROVE  Quiet
  BY <1>8 DEF ThreadStep, ThreadBegins, ThreadSetsUp, TorStep, TorShutsDown,
     TorExits, TorReturns, TorBootstraps, Quiet
<1>9. ASSUME NEW s \in Streams, ConsumerStep(s) \/ PostedTask(s)
      PROVE  Subscribers
  BY <1>9 DEF ConsumerStep, PostedTask, StreamStep, Subscribers
<1>10. {"starting", "stopping", "running", "bootstrap", "bootstrap100"}
          \subseteq Told
  BY DEF Told
<1> QED
  BY <1>1, <1>2, <1>3, <1>4, <1>5, <1>6, <1>7, <1>8, <1>9, <1>10
     DEF Next, CallStep, Job, StartJob, StopJob, WaitJob

-----------------------------------------------------------------------------
(* A log that grows.                                                       *)

LEMMA LastStateOfState ==
    ASSUME NEW log \in Seq(Events), NEW e \in StateNames
    PROVE  LastState(Append(log, e)) = e
<1> DEFINE more == Append(log, e)
           told == {i \in DOMAIN more : more[i] \in StateNames}
           n == Len(log) + 1
<1>1. /\ n \in Nat /\ DOMAIN more = 1 .. n /\ more[n] = e
  BY AppendProperties, LenProperties
<1> HIDE DEF more
<1>2. n \in told /\ \A j \in told : j <= n
  BY <1>1
<1>3. \A i \in told : (\A j \in told : j <= i) => i = n
  BY <1>1, <1>2
<1>4. (CHOOSE i \in told : \A j \in told : j <= i) = n
  BY <1>2, <1>3
<1>5. LastState(more) = more[CHOOSE i \in told : \A j \in told : j <= i]
  BY DEF LastState
<1> QED
  BY <1>1, <1>4, <1>5 DEF more

LEMMA LastStateOfOther ==
    ASSUME NEW log \in Seq(Events), NEW e \in Events \ StateNames
    PROVE  /\ (\E i \in DOMAIN Append(log, e) : Append(log, e)[i] \in StateNames)
                  => \E i \in DOMAIN log : log[i] \in StateNames
           /\ (\E i \in DOMAIN log : log[i] \in StateNames)
                  => LastState(Append(log, e)) = LastState(log)
<1> DEFINE more == Append(log, e)
           told == {i \in DOMAIN log : log[i] \in StateNames}
           last == CHOOSE i \in told : \A j \in told : j <= i
<1>1. /\ Len(log) \in Nat /\ DOMAIN log = 1 .. Len(log)
      /\ DOMAIN more = 1 .. Len(log) + 1
      /\ \A i \in 1 .. Len(log) : more[i] = log[i]
      /\ more[Len(log) + 1] = e
  BY AppendProperties, LenProperties
<1> HIDE DEF more
<1>2. {i \in DOMAIN more : more[i] \in StateNames} = told
  BY <1>1
<1>3. LastState(more) = more[last] /\ LastState(log) = log[last]
  BY <1>2 DEF LastState
<1>4. ASSUME told # {} PROVE last \in 1 .. Len(log)
  <2>1. told \in SUBSET (1 .. Len(log))
    BY <1>1
  <2>2. \E i \in told : \A j \in told : j <= i
    <3> HIDE DEF told
    <3>1. QED
      BY <1>1, <1>4, <2>1, LastExists
  <2>3. last \in told
    BY <2>2
  <2>4. QED
    BY <2>1, <2>3
<1>5. told # {} => LastState(more) = LastState(log)
  BY <1>1, <1>3, <1>4
<1>6. (\E i \in DOMAIN more : more[i] \in StateNames) <=> told # {}
  BY <1>2
<1>7. (\E i \in DOMAIN log : log[i] \in StateNames) <=> told # {}
  OBVIOUS
<1> QED
  BY <1>5, <1>6, <1>7 DEF more

-----------------------------------------------------------------------------
(* A stream is waiting for its registration, registered, or ended, and is  *)
(* told nothing before it is registered.                                   *)

Kept == opened \subseteq adding \cup eventContinuations \cup ended

Untold ==
    \A s \in Streams : s \in adding \/ s \notin opened =>
        got[s] = << >> /\ s \notin eventContinuations

StreamInv == Kept /\ Untold /\ SubscriberUpToDate

(* A subscriber that is told nothing stays up to date.                     *)
LEMMA SameLog ==
    ASSUME StreamInv, UNCHANGED <<state, got>>,
           \A s \in eventContinuations' \ ended' :
               s \in eventContinuations \ ended \/ got[s] = << >>
    PROVE  SubscriberUpToDate'
BY DEF StreamInv, SubscriberUpToDate

LEMMA SubscribersStep ==
    ASSUME TypeOK, StreamInv, Subscribers
    PROVE  StreamInv'
<1> USE DEF StreamInv
<1>1. PICK s \in Streams : StreamStep(s)
  BY DEF Subscribers
<1>2. /\ adding \subseteq opened /\ opened \subseteq Streams
      /\ removing \subseteq ended /\ ended \subseteq opened
      /\ eventContinuations \subseteq opened
  BY DEF TypeOK, StreamsTypeOK
<1>3. state' = state /\ got' = got
  BY <1>1 DEF Subscribers, StreamStep, OpenEvents, AddContinuation,
              ConsumerLeaves, RemoveContinuation
<1>4. CASE OpenEvents(s)
  <2>1. Kept' /\ Untold'
    BY <1>2, <1>4 DEF OpenEvents, Kept, Untold
  <2>2. SubscriberUpToDate'
    BY <1>3, <1>4, SameLog DEF OpenEvents
  <2>3. QED
    BY <2>1, <2>2
<1>5. CASE AddContinuation(s)
  <2>1. Kept' /\ Untold'
    BY <1>2, <1>5 DEF AddContinuation, Kept, Untold
  <2>2. got[s] = << >>
    BY <1>5 DEF AddContinuation, Untold
  <2>3. SubscriberUpToDate'
    BY <1>3, <1>5, <2>2, SameLog DEF AddContinuation
  <2>4. QED
    BY <2>1, <2>3
<1>6. CASE ConsumerLeaves(s)
  <2>1. Kept' /\ Untold'
    BY <1>2, <1>6 DEF ConsumerLeaves, Kept, Untold
  <2>2. SubscriberUpToDate'
    BY <1>3, <1>6, SameLog DEF ConsumerLeaves
  <2>3. QED
    BY <2>1, <2>2
<1>7. CASE RemoveContinuation(s)
  <2>1. Kept' /\ Untold'
    BY <1>2, <1>7 DEF RemoveContinuation, Kept, Untold
  <2>2. SubscriberUpToDate'
    BY <1>3, <1>7, SameLog DEF RemoveContinuation
  <2>3. QED
    BY <2>1, <2>2
<1> QED
  BY <1>1, <1>4, <1>5, <1>6, <1>7 DEF StreamStep

LEMMA TellsStep ==
    ASSUME TypeOK, StreamInv, NEW e \in Told, Tells(e)
    PROVE  StreamInv'
<1> USE DEF StreamInv
<1>1. /\ UNCHANGED <<opened, adding, removing, eventContinuations, ended>>
      /\ state' = IF e \in StateNames THEN e ELSE state
      /\ eventContinuations \subseteq Streams
      /\ got \in [Streams -> Seq(Events)]
      /\ e \in Events
  BY DEF Tells, TypeOK, StreamsTypeOK, Told, Events, StateNames
<1>2. \A s \in Streams :
          got'[s] = IF s \in eventContinuations \ ended
                    THEN Append(got[s], e) ELSE got[s]
  BY DEF Tells, Broadcast, Yielded
<1>3. Kept' /\ Untold'
  BY <1>1, <1>2 DEF Kept, Untold
<1>4. ASSUME NEW s \in eventContinuations \ ended,
             \E i \in DOMAIN got'[s] : got'[s][i] \in StateNames
      PROVE  LastState(got'[s]) = state'
  <2>1. got'[s] = Append(got[s], e) /\ got[s] \in Seq(Events)
    BY <1>1, <1>2
  <2>2. CASE e \in StateNames
    BY <1>1, <2>1, <2>2, LastStateOfState
  <2>3. CASE e \notin StateNames
    <3>1. \E i \in DOMAIN got[s] : got[s][i] \in StateNames
      BY <1>1, <1>4, <2>1, <2>3, LastStateOfOther
    <3>2. LastState(got'[s]) = LastState(got[s])
      BY <1>1, <2>1, <2>3, <3>1, LastStateOfOther
    <3>3. LastState(got[s]) = state
      BY <3>1 DEF SubscriberUpToDate
    <3>4. QED
      BY <1>1, <2>3, <3>2, <3>3
  <2> QED
    BY <2>2, <2>3
<1>5. SubscriberUpToDate'
  BY <1>1, <1>4 DEF SubscriberUpToDate
<1> QED
  BY <1>3, <1>5

LEMMA FinishesStep ==
    ASSUME TypeOK, StreamInv, Finishes
    PROVE  StreamInv'
<1> USE DEF StreamInv
<1>1. /\ ended' = ended \cup eventContinuations
      /\ eventContinuations' = {}
      /\ UNCHANGED <<opened, adding>>
  BY DEF Finishes, FinishAll
<1>2. \A s \in Streams \ eventContinuations : got'[s] = got[s]
  BY DEF Finishes, Broadcast, Yielded
<1>3. Kept' /\ Untold'
  BY <1>1, <1>2 DEF Kept, Untold
<1>4. SubscriberUpToDate'
  BY <1>1 DEF SubscriberUpToDate
<1> QED
  BY <1>3, <1>4

LEMMA StreamInductive ==
    ASSUME TypeOK, StreamInv, [Next]_vars
    PROVE  StreamInv'
<1>1. CASE Quiet
  BY <1>1 DEF Quiet, streamVars, StreamInv, Kept, Untold, SubscriberUpToDate
<1> QED
  BY <1>1, StreamSteps, SubscribersStep, TellsStep, FinishesStep

LEMMA StreamsAlways == Spec => []StreamInv
<1>1. Init => StreamInv
  BY DEF Init, StreamsInit, StreamInv, Kept, Untold, SubscriberUpToDate
<1> QED
  BY <1>1, StreamInductive, TypeCorrect, PTL DEF Spec

(* TorClientProperties.SubscriberUpToDate: whenever another job of the     *)
(* actor can run, the last stateChanged that broadcastEvent has yielded to *)
(* a registered subscriber is `state`.                                     *)
THEOREM SubscribersUpToDate == Spec => []SubscriberUpToDate
<1>1. StreamInv => SubscriberUpToDate
  BY DEF StreamInv
<1> QED
  BY <1>1, StreamsAlways, PTL

(* TorClientProperties.StopEndsRegistered: the cleanup() of a stop() ends  *)
(* every stream opened before it whose registration has run.               *)
THEOREM StopEndsStreams == Spec => StopEndsRegistered
<1>1. TypeOK /\ StreamInv /\ [Next]_vars
        => [state' = "stopped" /\ state # "stopped"
                => opened \ ended' \subseteq adding]_vars
  <2> SUFFICES ASSUME TypeOK, StreamInv, [Next]_vars,
                      state' = "stopped", state # "stopped"
               PROVE  opened \ ended' \subseteq adding
    OBVIOUS
  <2>1. Finishes
    <3>1. \A e \in Told : Tells(e) => state' # "stopped" \/ state' = state
      BY DEF Told, Tells
    <3>2. QED
      BY <3>1, StreamSteps DEF Quiet, Subscribers
  <2>2. ended' = ended \cup eventContinuations
    BY <2>1 DEF Finishes, FinishAll
  <2>3. QED
    BY <2>2 DEF StreamInv, Kept
<1> QED
  BY <1>1, StreamsAlways, TypeCorrect, PTL DEF Spec, StopEndsRegistered
=============================================================================
