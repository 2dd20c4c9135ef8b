------------------------- MODULE IoSimulationProofs -------------------------
(***************************************************************************)
(* Every thread in I/O is scheduled and its predictions are accounted for: *)
(* for every finite set of threads, all protocols, every predictor and     *)
(* recognizer, and without bounds on times and calls other than those the  *)
(* constants name.                                                         *)
(***************************************************************************)
EXTENDS IoSimulation, FiniteSetTheorems, TLAPS

Parallel == {"lax", "normal"}
Without == {"none", "strict"}

\* Where a thread is in each state: the running thread is the one on the core,
\* the sleeping ones are queued or told to resume, the predicted ones queued.
PlaceOf(t) ==
  /\ runningThread = t <=> state[t] \in {"RUNNING", "IN_SYSTEM_CALL"}
  /\ awake[t] => state[t] = "SUSPENDED" /\ t \notin queue
  /\ t \in queue => state[t] \in {"SUSPENDED", "IN_IO"}
  /\ state[t] = "SUSPENDED" => t \in queue \/ awake[t]
  /\ state[t] = "IN_IO" => t \in queue

\* Where its code is, a thread is only in states of the protocol of its call.
CallStateOf(t) ==
  /\ pc[t] \in {"user", "start", "lax", "commit"} => state[t] \in {"RUNNING", "SUSPENDED"}
  /\ pc[t] = "lax" => protocolOf(t) = "lax"
  /\ pc[t] \in {"end", "commit"} => protocolOf(t) \in Parallel
  /\ pc[t] = "end" => state[t] \in {"LEARNING_IO", "IN_IO"}
  /\ pc[t] \in {"clock", "io", "done"} =>
       /\ protocolOf(t) \in Without => state[t] \in {"RUNNING", "SUSPENDED"} /\ pc[t] # "clock"
       /\ protocolOf(t) = "serial" => state[t] \in {"IN_SYSTEM_CALL", "SUSPENDED"}
       /\ protocolOf(t) \in Parallel => state[t] \in {"LEARNING_IO", "IN_IO"}
  /\ pc[t] = "ended" => state[t] = "ENDED"
  /\ pc[t] \in {"end", "commit"} => call[t] = "io"

ThreadPlaces == \A t \in Threads : PlaceOf(t)
CallStates == \A t \in Threads : CallStateOf(t)

\* The clock of a thread with a predicted call.
AccountOf(t) ==
  state[t] = "IN_IO" /\ pc[t] # "end" => ert[t] = started[t] + getTotalTimePredicted(t)

\* The calls the normal protocol has started and not committed yet.
PendingCalls ==
  {t \in Threads : pc[t] \in {"clock", "io", "done", "end", "commit"} /\ protocolOf(t) = "normal"}

PendingIsCounted ==
  /\ pendingIoCalls = Cardinality(PendingCalls)
  /\ minimized <=> pendingIoCalls > 0

IoInv == TypeOK /\ ThreadPlaces /\ CallStates /\ PendingIsCounted /\ PredictionIsAccounted

\* A step that leaves alone what the invariant says of the other threads.
OthersStay(t) ==
  /\ protocol' = protocol
  /\ \A u \in Threads \ {t} :
       /\ pc'[u] = pc[u] /\ state'[u] = state[u] /\ awake'[u] = awake[u] /\ call'[u] = call[u]
       /\ u \in queue' <=> u \in queue
       /\ runningThread' = u <=> runningThread = u
       /\ ert'[u] = ert[u] /\ started'[u] = started[u]
       /\ prediction'[u] = prediction[u] /\ times'[u] = times[u]
-----------------------------------------------------------------------------
LEMMA Counting ==
  ASSUME NEW S, S \subseteq Threads
  PROVE  IsFiniteSet(S) /\ Cardinality(S) \in 0..Cardinality(Threads)
  <1>1. IsFiniteSet(S) /\ Cardinality(S) <= Cardinality(Threads)
    BY FS_Subset, FiniteAssumption
  <1>2. Cardinality(S) \in Nat /\ Cardinality(Threads) \in Nat
    BY <1>1, FS_CardinalityType, FiniteAssumption
  <1> QED BY <1>1, <1>2

LEMMA Protocol ==
  ASSUME TypeOK, NEW t \in Threads
  PROVE  protocolOf(t) \in {"none", "strict", "serial", "lax", "normal"}
  BY ParametersAssumption DEF TypeOK, protocolOf

\* An extension moves the clock by what it adds to the total predicted time.
LEMMA Doubling ==
  ASSUME NEW n \in Nat, NEW p \in Nat
  PROVE  (2 * (2 * n) - 1) * p = (2 * n - 1) * p + 2 * n * p
  OBVIOUS

LEMMA WorkIsInt ==
  \A d \in Work : d \in Int
  BY ParametersAssumption

\* The numbers of one thread.
LEMMA TypesAt ==
  ASSUME TypeOK, NEW t \in Threads
  PROVE  /\ now \in Int /\ now \in 0..MaxReal /\ 0 \in 0..MaxReal
         /\ lastReal[t] \in Int /\ exitReal[t] \in Int /\ now - lastReal[t] \in Int
         /\ ert[t] \in Int /\ resumedAt[t] \in Int /\ ran[t] \in Int /\ gvt \in Nat
         /\ prediction[t] \in Int /\ prediction[t] \in Nat /\ times[t] \in Int
         /\ actualIoDuration(t) \in Int /\ getTotalTimePredicted(t) \in Int
         /\ actualIoDuration(t) - getTotalTimePredicted(t) \in Int
         /\ Later(ert[t], gvt) \in Int
         /\ \A d \in Int : committed(t, d) \in Nat /\ ert[t] + d \in Int /\ ran[t] + d \in Int
  <1>1. MaxReal \in Nat /\ \A p \in Protocols : Predictions[p] \in SUBSET Nat
    BY ParametersAssumption
  <1>2. /\ now \in Int /\ now \in 0..MaxReal /\ 0 \in 0..MaxReal
        /\ lastReal[t] \in Int /\ exitReal[t] \in Int
        /\ ert[t] \in Int /\ resumedAt[t] \in Int /\ ran[t] \in Int /\ gvt \in Nat
        /\ prediction[t] \in Nat /\ times[t] \in Nat
    <2>1. now \in 0..MaxReal /\ lastReal[t] \in 0..MaxReal /\ exitReal[t] \in 0..MaxReal
      BY DEF TypeOK
    <2>2. /\ ert[t] \in Int /\ resumedAt[t] \in Nat /\ ran[t] \in Int /\ gvt \in Nat
          /\ times[t] \in Nat
      BY DEF TypeOK
    <2>3. prediction[t] \in Predictions[protocol] /\ protocol \in Protocols
      BY DEF TypeOK
    <2>4. prediction[t] \in Nat
      BY <1>1, <2>3
    <2> QED BY <1>1, <2>1, <2>2, <2>4
  <1>3. actualIoDuration(t) \in Int /\ getTotalTimePredicted(t) \in Int
    BY <1>2 DEF actualIoDuration, getTotalTimePredicted
  <1>4. Later(ert[t], gvt) \in Int
    BY <1>2 DEF Later
  <1>5. ASSUME NEW d \in Int
        PROVE  committed(t, d) \in Nat
    BY <1>2 DEF committed, Later
  <1> QED BY <1>2, <1>3, <1>4, <1>5

LEMMA Domains ==
  ASSUME TypeOK
  PROVE  /\ DOMAIN pc = Threads /\ DOMAIN state = Threads /\ DOMAIN awake = Threads
         /\ DOMAIN call = Threads /\ DOMAIN ert = Threads /\ DOMAIN started = Threads
         /\ DOMAIN prediction = Threads /\ DOMAIN times = Threads
  BY DEF TypeOK

LEMMA IoInitEstablishes ==
  ASSUME Init
  PROVE  IoInv
  <1>1. PendingCalls = {}
    BY DEF Init, PendingCalls
  <1>2. PendingIsCounted
    BY <1>1, FS_EmptySet DEF Init, PendingIsCounted
  <1>3. pendingIoCalls \in 0..Cardinality(Threads)
    BY <1>2, Counting DEF PendingIsCounted, PendingCalls
  <1>4. TypeOK
    <2>1. protocol \in Protocols /\ 0 \in Predictions[protocol]
      BY ParametersAssumption DEF Init
    <2>2. /\ now \in 0..MaxReal /\ 0 \in 0..MaxReal /\ 0 \in 0..MaxCalls
          /\ gvt \in Nat /\ minimized \in BOOLEAN
          /\ queue \subseteq Threads /\ runningThread \in Threads \cup {NoThread} /\ expired = <<>>
      <3>1. MaxReal \in Nat /\ MaxCalls \in Nat
        BY ParametersAssumption
      <3>2. 0 \in 0..MaxReal /\ 0 \in 0..MaxCalls
        BY <3>1
      <3> QED BY <3>2 DEF Init
    <2>3. /\ ert \in [Threads -> Int] /\ resumedAt \in [Threads -> Nat] /\ ran \in [Threads -> Int]
          /\ started \in [Threads -> Int] /\ times \in [Threads -> Nat]
      BY DEF Init
    <2>4. /\ lastReal \in [Threads -> 0..MaxReal] /\ exitReal \in [Threads -> 0..MaxReal]
          /\ prediction \in [Threads -> Predictions[protocol]] /\ calls \in [Threads -> 0..MaxCalls]
      BY <2>1, <2>2 DEF Init
    <2>5. /\ pc = [t \in Threads |-> "user"] /\ state = [t \in Threads |-> "SUSPENDED"]
          /\ awake = [t \in Threads |-> FALSE] /\ finishedIo = [t \in Threads |-> FALSE]
          /\ key = [t \in Threads |-> NoThread] /\ call = [t \in Threads |-> "io"]
      BY DEF Init
    <2> QED BY <1>3, <2>1, <2>2, <2>3, <2>4, <2>5 DEF TypeOK
  <1>5. ThreadPlaces /\ CallStates
    BY DistinctAssumption DEF Init, ThreadPlaces, CallStates, PlaceOf, CallStateOf
  <1>6. PredictionIsAccounted
    BY DEF Init, PredictionIsAccounted
  <1> QED BY <1>2, <1>4, <1>5, <1>6 DEF IoInv

\* What the invariant says of one thread.
LEMMA AtThread ==
  ASSUME IoInv, NEW t \in Threads
  PROVE  PlaceOf(t) /\ CallStateOf(t) /\ AccountOf(t)
  BY DEF IoInv, ThreadPlaces, CallStates, PredictionIsAccounted, AccountOf

LEMMA OneThreadStep ==
  ASSUME IoInv, NEW t \in Threads, OthersStay(t), PlaceOf(t)', CallStateOf(t)', AccountOf(t)'
  PROVE  ThreadPlaces' /\ CallStates' /\ PredictionIsAccounted'
  <1>1. SUFFICES ASSUME NEW u \in Threads, u # t
                 PROVE  PlaceOf(u)' /\ CallStateOf(u)' /\ AccountOf(u)'
    BY DEF ThreadPlaces, CallStates, PredictionIsAccounted, AccountOf
  <1>2. PlaceOf(u) /\ CallStateOf(u) /\ AccountOf(u)
    BY AtThread
  <1>3. PlaceOf(u)'
    BY <1>1, <1>2 DEF OthersStay, PlaceOf
  <1>4. CallStateOf(u)'
    BY <1>1, <1>2 DEF OthersStay, CallStateOf, protocolOf
  <1>5. AccountOf(u)'
    BY <1>1, <1>2 DEF OthersStay, AccountOf, getTotalTimePredicted
  <1> QED BY <1>3, <1>4, <1>5

LEMMA SamePending ==
  ASSUME NEW t \in Threads, OthersStay(t), t \in PendingCalls' <=> t \in PendingCalls,
         UNCHANGED slots, IoInv
  PROVE  PendingIsCounted'
  <1>1. PendingCalls' = PendingCalls
    BY DEF OthersStay, PendingCalls, protocolOf
  <1> QED BY <1>1 DEF IoInv, PendingIsCounted, slots

LEMMA SignalStep ==
  ASSUME IoInv, NEW t \in Threads, onSignalledFromScheduler(t)
  PROVE  IoInv'
  <1>1. PlaceOf(t) /\ CallStateOf(t) /\ AccountOf(t) /\ TypeOK
    BY AtThread DEF IoInv
  <1>0. PICK d \in Int :
          /\ runningThread = t /\ pc[t] \in {"user", "start", "clock", "io", "done"}
          /\ ert' = [ert EXCEPT ![t] = ert[t] + d] /\ ran' = [ran EXCEPT ![t] = ran[t] + d]
          /\ gvt' = committed(t, d)
          /\ \/ /\ state' = [state EXCEPT ![t] = "SUSPENDED"] /\ lastReal' = lastReal
                /\ runningThread' = NoThread /\ queue' = queue \cup {t}
             \/ /\ state[t] = "IN_SYSTEM_CALL" /\ lastReal' = [lastReal EXCEPT ![t] = now]
                /\ UNCHANGED <<state, runningThread, queue>>
          /\ UNCHANGED <<protocol, pc, awake, call, prediction, times, started>>
    BY <1>1, WorkIsInt, TypesAt DEF onSignalledFromScheduler, Set, io, work
  <1>2. OthersStay(t)
    <2>1. \A u \in Threads \ {t} :
            /\ pc'[u] = pc[u] /\ state'[u] = state[u] /\ awake'[u] = awake[u] /\ call'[u] = call[u]
            /\ ert'[u] = ert[u] /\ started'[u] = started[u]
            /\ prediction'[u] = prediction[u] /\ times'[u] = times[u]
      BY <1>0, <1>1, Domains
    <2>2. \A u \in Threads \ {t} :
            (u \in queue' <=> u \in queue) /\ (runningThread' = u <=> runningThread = u)
      BY <1>0, DistinctAssumption
    <2>3. protocol' = protocol
      BY <1>0
    <2> QED BY <2>1, <2>2, <2>3 DEF OthersStay
  <1>3. PlaceOf(t)' /\ CallStateOf(t)' /\ AccountOf(t)'
    <2>1. PlaceOf(t)'
      BY <1>0, <1>1, Domains, DistinctAssumption, Protocol
         DEF PlaceOf, CallStateOf, Parallel, Without
    <2>2. CallStateOf(t)'
      BY <1>0, <1>1, DistinctAssumption, Protocol DEF PlaceOf, CallStateOf, TypeOK, Parallel,
             Without, protocolOf, inSystemCall
    <2>3. AccountOf(t)'
      BY <1>0, <1>1, DistinctAssumption DEF AccountOf, PlaceOf, CallStateOf, Parallel, TypeOK
    <2> QED BY <2>1, <2>2, <2>3
  <1>4. PendingIsCounted'
    <2>1. t \in PendingCalls' <=> t \in PendingCalls
      BY <1>0, <1>1, Protocol DEF CallStateOf, TypeOK, PendingCalls, protocolOf, Parallel, Without
    <2>2. UNCHANGED slots
      BY DEF onSignalledFromScheduler, slots
    <2> QED BY <1>2, <2>1, <2>2, SamePending
  <1>5. pendingIoCalls' \in 0..Cardinality(Threads)
    BY <1>4, Counting DEF PendingIsCounted, PendingCalls
  <1>6. TypeOK'
    <2>1. UNCHANGED <<protocol, now, pc, calls, awake, key, resumedAt, exitReal, call, prediction,
           times, finishedIo, started, pendingIoCalls, minimized, expired>>
      BY DEF onSignalledFromScheduler, Set, committed, Later, work, slots
    <2>2. ert' \in [Threads -> Int]
      BY <1>0, <1>1, TypesAt DEF TypeOK
    <2>3. ran' \in [Threads -> Int]
      BY <1>0, <1>1, TypesAt DEF TypeOK
    <2>4. gvt' \in Nat
      BY <1>0, <1>1, TypesAt DEF TypeOK
    <2>5. state' \in [Threads -> {"RUNNING", "SUSPENDED", "LEARNING_IO", "IN_IO", "IN_SYSTEM_CALL", "ENDED"}]
      BY <1>0, <1>1, TypesAt DEF TypeOK
    <2>6. runningThread' \in Threads \cup {NoThread}
      BY <1>0, <1>1, TypesAt DEF TypeOK
    <2>7. queue' \in SUBSET Threads
      BY <1>0, <1>1, TypesAt DEF TypeOK
    <2>8. lastReal' \in [Threads -> 0..MaxReal]
      BY <1>0, <1>1, TypesAt DEF TypeOK
    <2> QED BY <1>5, <2>1, <2>2, <2>3, <2>4, <2>5, <2>6, <2>7, <2>8 DEF IoInv, TypeOK
  <1> QED BY <1>2, <1>3, <1>4, <1>6, OneThreadStep DEF IoInv

LEMMA ResumeStep ==
  ASSUME IoInv, NEW t \in Threads, resumeThread(t), t \in queue
  PROVE  IoInv'
  <1>1. PlaceOf(t) /\ CallStateOf(t) /\ AccountOf(t) /\ TypeOK
    BY AtThread DEF IoInv
  <1>2. OthersStay(t)
    BY <1>1, DistinctAssumption DEF OthersStay, PlaceOf, CallStateOf, TypeOK, resumeThread, Set,
           io, slots
  <1>3. PlaceOf(t)' /\ CallStateOf(t)' /\ AccountOf(t)'
    <2>1. PlaceOf(t)'
      BY <1>1, DistinctAssumption, Protocol DEF PlaceOf, CallStateOf, TypeOK, Parallel, Without,
             resumeThread, Set, io, slots
    <2>2. CallStateOf(t)'
      BY <1>1, DistinctAssumption, Protocol DEF PlaceOf, CallStateOf, TypeOK, Parallel, Without,
             protocolOf, inSystemCall, resumeThread, Set, io, slots
    <2>3. AccountOf(t)'
      BY <1>1, DistinctAssumption DEF AccountOf, PlaceOf, CallStateOf, TypeOK,
             getTotalTimePredicted, resumeThread, Set, io, slots
    <2> QED BY <2>1, <2>2, <2>3
  <1>4. PendingIsCounted'
    <2>1. t \in PendingCalls' <=> t \in PendingCalls
      BY <1>1, Protocol DEF CallStateOf, TypeOK, PendingCalls, protocolOf, Parallel, Without,
             resumeThread, Set, io, slots
    <2>2. UNCHANGED slots
      BY DEF resumeThread, slots
    <2> QED BY <1>2, <2>1, <2>2, SamePending
  <1>5. pendingIoCalls' \in 0..Cardinality(Threads)
    BY <1>4, Counting DEF PendingIsCounted, PendingCalls
  <1>6. TypeOK'
    <2>1. UNCHANGED <<protocol, now, pc, calls, state, key, ert, lastReal, exitReal, call,
           prediction, times, finishedIo, started, pendingIoCalls, minimized, gvt, runningThread,
           expired>>
      BY DEF resumeThread, Set, io, slots
    <2>2. queue' \in SUBSET Threads
      BY ParametersAssumption, DistinctAssumption DEF IoInv, TypeOK, resumeThread, Set, io, slots
    <2>3. awake' \in [Threads -> BOOLEAN]
      BY DEF IoInv, TypeOK, resumeThread, Set, io, slots
    <2>4. resumedAt' \in [Threads -> Nat]
      BY ParametersAssumption, DistinctAssumption DEF IoInv, TypeOK, resumeThread, Set, io, slots
    <2>5. ran' \in [Threads -> Int]
      BY ParametersAssumption, DistinctAssumption DEF IoInv, TypeOK, resumeThread, Set, io, slots
    <2> QED BY <1>5, <2>1, <2>2, <2>3, <2>4, <2>5 DEF IoInv, TypeOK
  <1> QED BY <1>2, <1>3, <1>4, <1>6, OneThreadStep DEF IoInv

LEMMA SetRunningStep ==
  ASSUME IoInv, NEW t \in Threads, setRunningThread(t)
  PROVE  IoInv'
  <1>1. PlaceOf(t) /\ CallStateOf(t) /\ AccountOf(t) /\ TypeOK
    BY AtThread DEF IoInv
  <1>0. /\ state[t] = "SUSPENDED" /\ awake[t] /\ awake' = [awake EXCEPT ![t] = FALSE]
        /\ \/ /\ runningThread \in {NoThread, t} /\ runningThread' = t /\ queue' = queue
              /\ ert' = [ert EXCEPT ![t] = Later(ert[t], gvt)]
              /\ state' = [state EXCEPT ![t] = IF inSystemCall(t) THEN "IN_SYSTEM_CALL" ELSE "RUNNING"]
              /\ lastReal' = lastReal \/ lastReal' = [lastReal EXCEPT ![t] = now]
           \/ /\ queue' = queue \cup {t}
              /\ UNCHANGED <<runningThread, ert, state, lastReal>>
        /\ UNCHANGED <<protocol, pc, call, prediction, times, started>>
    BY <1>1 DEF setRunningThread, Set, slots
  <1>2. OthersStay(t)
    <2>1. \A u \in Threads \ {t} :
            /\ pc'[u] = pc[u] /\ state'[u] = state[u] /\ awake'[u] = awake[u] /\ call'[u] = call[u]
            /\ ert'[u] = ert[u] /\ started'[u] = started[u]
            /\ prediction'[u] = prediction[u] /\ times'[u] = times[u]
      BY <1>0, <1>1, Domains
    <2>2. \A u \in Threads \ {t} :
            (u \in queue' <=> u \in queue) /\ (runningThread' = u <=> runningThread = u)
      BY <1>0, DistinctAssumption
    <2>3. protocol' = protocol
      BY <1>0
    <2> QED BY <2>1, <2>2, <2>3 DEF OthersStay
  <1>3. PlaceOf(t)' /\ CallStateOf(t)' /\ AccountOf(t)'
    <2>1. PlaceOf(t)'
      BY <1>0, <1>1, Domains, DistinctAssumption, Protocol
         DEF PlaceOf, CallStateOf, Parallel, Without
    <2>2. CallStateOf(t)'
      BY <1>0, <1>1, DistinctAssumption, Protocol DEF PlaceOf, CallStateOf, TypeOK, Parallel,
             Without, protocolOf, inSystemCall
    <2>3. AccountOf(t)'
      BY <1>0, <1>1, DistinctAssumption DEF AccountOf, PlaceOf, CallStateOf, Parallel, TypeOK
    <2> QED BY <2>1, <2>2, <2>3
  <1>4. PendingIsCounted'
    <2>1. t \in PendingCalls' <=> t \in PendingCalls
      BY <1>0, <1>1, Protocol DEF CallStateOf, TypeOK, PendingCalls, protocolOf, Parallel, Without
    <2>2. UNCHANGED slots
      BY DEF setRunningThread, slots
    <2> QED BY <1>2, <2>1, <2>2, SamePending
  <1>5. pendingIoCalls' \in 0..Cardinality(Threads)
    BY <1>4, Counting DEF PendingIsCounted, PendingCalls
  <1>6. TypeOK'
    <2>1. UNCHANGED <<protocol, now, pc, calls, key, resumedAt, ran, exitReal, call, prediction,
           times, finishedIo, started, pendingIoCalls, minimized, gvt, expired>>
      BY DEF setRunningThread, Set, Later, slots
    <2>2. awake' \in [Threads -> BOOLEAN]
      BY <1>0, <1>1, TypesAt DEF TypeOK
    <2>3. runningThread' \in Threads \cup {NoThread}
      BY <1>0, <1>1, TypesAt DEF TypeOK
    <2>4. ert' \in [Threads -> Int]
      <3>1. ert \in [Threads -> Int] /\ Later(ert[t], gvt) \in Int
        BY <1>1, TypesAt DEF TypeOK
      <3> QED BY <1>0, <3>1
    <2>5. state' \in [Threads -> {"RUNNING", "SUSPENDED", "LEARNING_IO", "IN_IO", "IN_SYSTEM_CALL", "ENDED"}]
      <3>1. state \in [Threads -> {"RUNNING", "SUSPENDED", "LEARNING_IO", "IN_IO", "IN_SYSTEM_CALL", "ENDED"}]
        BY <1>1 DEF TypeOK
      <3> QED BY <1>0, <3>1
    <2>6. lastReal' \in [Threads -> 0..MaxReal]
      <3>1. lastReal \in [Threads -> 0..MaxReal] /\ now \in 0..MaxReal
        BY <1>1 DEF TypeOK
      <3> QED BY <1>0, <3>1
    <2>7. queue' \in SUBSET Threads
      BY <1>0, <1>1, TypesAt DEF TypeOK
    <2> QED BY <1>5, <2>1, <2>2, <2>3, <2>4, <2>5, <2>6, <2>7 DEF IoInv, TypeOK
  <1> QED BY <1>2, <1>3, <1>4, <1>6, OneThreadStep DEF IoInv

LEMMA EndStep ==
  ASSUME IoInv, NEW t \in Threads, onEnd(t)
  PROVE  IoInv'
  <1>1. PlaceOf(t) /\ CallStateOf(t) /\ AccountOf(t) /\ TypeOK
    BY AtThread DEF IoInv
  <1>2. OthersStay(t)
    BY <1>1, DistinctAssumption DEF OthersStay, PlaceOf, CallStateOf, TypeOK, onEnd, Set,
           committed, Later, work, slots
  <1>3. PlaceOf(t)' /\ CallStateOf(t)' /\ AccountOf(t)'
    <2>1. PlaceOf(t)'
      BY <1>1, DistinctAssumption, Protocol DEF PlaceOf, CallStateOf, TypeOK, Parallel, Without,
             onEnd, Set, committed, Later, work, slots
    <2>2. CallStateOf(t)'
      BY <1>1, DistinctAssumption, Protocol DEF PlaceOf, CallStateOf, TypeOK, Parallel, Without,
             protocolOf, inSystemCall, onEnd, Set, committed, Later, work, slots
    <2>3. AccountOf(t)'
      BY <1>1, DistinctAssumption DEF AccountOf, PlaceOf, CallStateOf, TypeOK, onEnd, Set,
             committed, Later, work, slots
    <2> QED BY <2>1, <2>2, <2>3
  <1>4. PendingIsCounted'
    <2>1. t \in PendingCalls' <=> t \in PendingCalls
      BY <1>1, Protocol DEF CallStateOf, TypeOK, PendingCalls, protocolOf, Parallel, Without,
             onEnd, Set, committed, Later, work, slots
    <2>2. UNCHANGED slots
      BY DEF onEnd, slots
    <2> QED BY <1>2, <2>1, <2>2, SamePending
  <1>5. pendingIoCalls' \in 0..Cardinality(Threads)
    BY <1>4, Counting DEF PendingIsCounted, PendingCalls
  <1>6. TypeOK'
    <2>1. UNCHANGED <<protocol, now, calls, awake, key, exitReal, call, finishedIo, started,
           pendingIoCalls, minimized, queue, expired>>
      BY DEF onEnd, Set, committed, Later, work, slots
    <2>2. pc' \in [Threads -> {"user", "start", "lax", "clock", "io", "done", "end", "commit", "ended"}]
      BY DEF IoInv, TypeOK, onEnd, Set, committed, Later, work, slots
    <2>3. state' \in [Threads -> {"RUNNING", "SUSPENDED", "LEARNING_IO", "IN_IO", "IN_SYSTEM_CALL", "ENDED"}]
      BY DEF IoInv, TypeOK, onEnd, Set, committed, Later, work, slots
    <2>4. runningThread' \in Threads \cup {NoThread}
      BY ParametersAssumption, DistinctAssumption DEF IoInv, TypeOK, onEnd, Set, committed, Later,
             work, slots
    <2>5. gvt' \in Nat
      <3>1. \E d \in Int : gvt' = committed(t, d)
        BY WorkIsInt DEF onEnd, work
      <3> QED BY <1>1, <3>1, TypesAt
    <2>6. ert' \in [Threads -> Int]
      BY ParametersAssumption, DistinctAssumption DEF IoInv, TypeOK, onEnd, Set, committed, Later,
             work, slots
    <2>7. resumedAt' \in [Threads -> Nat]
      BY ParametersAssumption, DistinctAssumption DEF IoInv, TypeOK, onEnd, Set, committed, Later,
             work, slots
    <2>8. ran' \in [Threads -> Int]
      BY ParametersAssumption, DistinctAssumption DEF IoInv, TypeOK, onEnd, Set, committed, Later,
             work, slots
    <2>9. lastReal' \in [Threads -> 0..MaxReal]
      BY ParametersAssumption, DistinctAssumption DEF IoInv, TypeOK, onEnd, Set, committed, Later,
             work, slots
    <2>10. prediction' \in [Threads -> Predictions[protocol]]
      BY ParametersAssumption, DistinctAssumption DEF IoInv, TypeOK, onEnd, Set, committed, Later,
             work, slots
    <2>11. times' \in [Threads -> Nat]
      BY ParametersAssumption, DistinctAssumption DEF IoInv, TypeOK, onEnd, Set, committed, Later,
             work, slots
    <2> QED BY <1>5, <2>1, <2>2, <2>3, <2>4, <2>5, <2>6, <2>7, <2>8, <2>9, <2>10, <2>11 DEF IoInv,
           TypeOK
  <1> QED BY <1>2, <1>3, <1>4, <1>6, OneThreadStep DEF IoInv

LEMMA EntryStep ==
  ASSUME IoInv, NEW t \in Threads, afterIoMethodEntry(t)
  PROVE  IoInv'
  <1>1. PlaceOf(t) /\ CallStateOf(t) /\ AccountOf(t) /\ TypeOK
    BY AtThread DEF IoInv
  <1>0. PICK d \in Int, p \in Predictions[protocol], flag \in {"io", "ignored", "cached"} :
          /\ state[t] = "RUNNING" /\ pc[t] = "user" /\ calls[t] < MaxCalls
          /\ prediction' = [prediction EXCEPT ![t] = p] /\ call' = [call EXCEPT ![t] = flag]
          /\ ert' = [ert EXCEPT ![t] = ert[t] + d] /\ ran' = [ran EXCEPT ![t] = ran[t] + d]
          /\ calls' = [calls EXCEPT ![t] = calls[t] + 1] /\ pc' = [pc EXCEPT ![t] = "start"]
          /\ UNCHANGED <<protocol, state, awake, times, started, queue, runningThread>>
    BY <1>1, WorkIsInt DEF afterIoMethodEntry, onIoEntryGetIoPrediction, Set, slots, work
  <1>2. OthersStay(t)
    BY <1>0, <1>1, Domains, DistinctAssumption DEF OthersStay, PlaceOf, CallStateOf, Parallel
  <1>3. PlaceOf(t)' /\ CallStateOf(t)' /\ AccountOf(t)'
    <2>1. PlaceOf(t)'
      BY <1>0, <1>1, Domains, DistinctAssumption, Protocol
         DEF PlaceOf, CallStateOf, Parallel, Without
    <2>2. CallStateOf(t)'
      BY <1>0, <1>1, DistinctAssumption, Protocol DEF PlaceOf, CallStateOf, TypeOK, Parallel,
             Without, protocolOf, inSystemCall
    <2>3. AccountOf(t)'
      BY <1>0, <1>1, DistinctAssumption DEF AccountOf, PlaceOf, CallStateOf, Parallel, TypeOK
    <2> QED BY <2>1, <2>2, <2>3
  <1>4. PendingIsCounted'
    <2>1. t \in PendingCalls' <=> t \in PendingCalls
      BY <1>0, <1>1, Protocol DEF CallStateOf, TypeOK, PendingCalls, protocolOf, Parallel, Without
    <2>2. UNCHANGED slots
      BY DEF afterIoMethodEntry, onIoEntryGetIoPrediction, slots
    <2> QED BY <1>2, <2>1, <2>2, SamePending
  <1>5. pendingIoCalls' \in 0..Cardinality(Threads)
    BY <1>4, Counting DEF PendingIsCounted, PendingCalls
  <1>6. TypeOK'
    <2>1. UNCHANGED <<protocol, now, state, awake, key, resumedAt, lastReal, exitReal, times,
           finishedIo, started, pendingIoCalls, minimized, queue, gvt, runningThread, expired>>
      BY DEF afterIoMethodEntry, onIoEntryGetIoPrediction, Set, work, slots
    <2>2. prediction' \in [Threads -> Predictions[protocol]]
      BY <1>0, <1>1, TypesAt DEF TypeOK
    <2>3. call' \in [Threads -> {"io", "ignored", "cached"}]
      BY <1>0, <1>1, TypesAt DEF TypeOK
    <2>4. ert' \in [Threads -> Int]
      BY <1>0, <1>1, TypesAt DEF TypeOK
    <2>5. ran' \in [Threads -> Int]
      BY <1>0, <1>1, TypesAt DEF TypeOK
    <2>6. calls' \in [Threads -> 0..MaxCalls]
      <3>1. calls \in [Threads -> 0..MaxCalls] /\ MaxCalls \in Nat
        BY <1>1, ParametersAssumption DEF TypeOK
      <3>2. calls[t] + 1 \in 0..MaxCalls
        BY <1>0, <3>1
      <3> QED BY <1>0, <3>1, <3>2
    <2>7. pc' \in [Threads -> {"user", "start", "lax", "clock", "io", "done", "end", "commit", "ended"}]
      BY <1>0, <1>1, TypesAt DEF TypeOK
    <2> QED BY <1>5, <2>1, <2>2, <2>3, <2>4, <2>5, <2>6, <2>7 DEF IoInv, TypeOK
  <1> QED BY <1>2, <1>3, <1>4, <1>6, OneThreadStep DEF IoInv

LEMMA StartNoneStep ==
  ASSUME IoInv, NEW t \in Threads, onStart(t), onStart_None(t)
  PROVE  IoInv'
  <1>1. PlaceOf(t) /\ CallStateOf(t) /\ AccountOf(t) /\ TypeOK
    BY AtThread DEF IoInv
  <1>2. OthersStay(t)
    BY <1>1, DistinctAssumption DEF OthersStay, PlaceOf, CallStateOf, TypeOK, onStart,
           onStart_None, Set, timers, slots
  <1>3. PlaceOf(t)' /\ CallStateOf(t)' /\ AccountOf(t)'
    <2>1. PlaceOf(t)'
      BY <1>1, DistinctAssumption, Protocol DEF PlaceOf, CallStateOf, TypeOK, Parallel, Without,
             onStart, onStart_None, Set, timers, slots
    <2>2. CallStateOf(t)'
      BY <1>1, DistinctAssumption, Protocol DEF PlaceOf, CallStateOf, TypeOK, Parallel, Without,
             protocolOf, inSystemCall, onStart, onStart_None, Set, timers, slots
    <2>3. AccountOf(t)'
      BY <1>1, DistinctAssumption DEF AccountOf, PlaceOf, CallStateOf, TypeOK, onStart,
             onStart_None, Set, timers, slots
    <2> QED BY <2>1, <2>2, <2>3
  <1>4. PendingIsCounted'
    <2>1. t \in PendingCalls' <=> t \in PendingCalls
      BY <1>1, Protocol DEF CallStateOf, TypeOK, PendingCalls, protocolOf, Parallel, Without,
             onStart, onStart_None, Set, timers, slots
    <2>2. UNCHANGED slots
      BY DEF onStart, onStart_None, slots
    <2> QED BY <1>2, <2>1, <2>2, SamePending
  <1>5. pendingIoCalls' \in 0..Cardinality(Threads)
    BY <1>4, Counting DEF PendingIsCounted, PendingCalls
  <1>6. TypeOK'
    <2>1. UNCHANGED <<protocol, now, calls, state, awake, key, ert, resumedAt, ran, lastReal,
           exitReal, call, prediction, times, finishedIo, pendingIoCalls, minimized, queue, gvt,
           runningThread, expired>>
      BY DEF onStart, onStart_None, Set, timers, slots
    <2>2. pc' \in [Threads -> {"user", "start", "lax", "clock", "io", "done", "end", "commit", "ended"}]
      BY DEF IoInv, TypeOK, onStart, onStart_None, Set, timers, slots
    <2>3. started' \in [Threads -> Int]
      BY ParametersAssumption, DistinctAssumption DEF IoInv, TypeOK, onStart, onStart_None, Set,
             timers, slots
    <2> QED BY <1>5, <2>1, <2>2, <2>3 DEF IoInv, TypeOK
  <1> QED BY <1>2, <1>3, <1>4, <1>6, OneThreadStep DEF IoInv

LEMMA StartSerialStep ==
  ASSUME IoInv, NEW t \in Threads, onStart(t), onStart_Serial(t)
  PROVE  IoInv'
  <1>1. PlaceOf(t) /\ CallStateOf(t) /\ AccountOf(t) /\ TypeOK
    BY AtThread DEF IoInv
  <1>2. OthersStay(t)
    BY <1>1, DistinctAssumption DEF OthersStay, PlaceOf, CallStateOf, TypeOK, onStart,
           onStart_Serial, Set, committed, Later, timers, slots
  <1>3. PlaceOf(t)' /\ CallStateOf(t)' /\ AccountOf(t)'
    <2>1. PlaceOf(t)'
      BY <1>1, DistinctAssumption, Protocol DEF PlaceOf, CallStateOf, TypeOK, Parallel, Without,
             onStart, onStart_Serial, Set, committed, Later, timers, slots
    <2>2. CallStateOf(t)'
      BY <1>1, DistinctAssumption, Protocol DEF PlaceOf, CallStateOf, TypeOK, Parallel, Without,
             protocolOf, inSystemCall, onStart, onStart_Serial, Set, committed, Later, timers,
             slots
    <2>3. AccountOf(t)'
      BY <1>1, DistinctAssumption DEF AccountOf, PlaceOf, CallStateOf, TypeOK, onStart,
             onStart_Serial, Set, committed, Later, timers, slots
    <2> QED BY <2>1, <2>2, <2>3
  <1>4. PendingIsCounted'
    <2>1. t \in PendingCalls' <=> t \in PendingCalls
      BY <1>1, Protocol DEF CallStateOf, TypeOK, PendingCalls, protocolOf, Parallel, Without,
             onStart, onStart_Serial, Set, committed, Later, timers, slots
    <2>2. UNCHANGED slots
      BY DEF onStart, onStart_Serial, slots
    <2> QED BY <1>2, <2>1, <2>2, SamePending
  <1>5. pendingIoCalls' \in 0..Cardinality(Threads)
    BY <1>4, Counting DEF PendingIsCounted, PendingCalls
  <1>6. TypeOK'
    <2>1. UNCHANGED <<protocol, now, calls, awake, key, ert, resumedAt, ran, lastReal, exitReal,
           call, prediction, times, finishedIo, pendingIoCalls, minimized, queue, runningThread,
           expired>>
      BY DEF onStart, onStart_Serial, Set, committed, Later, timers, slots
    <2>2. pc' \in [Threads -> {"user", "start", "lax", "clock", "io", "done", "end", "commit", "ended"}]
      BY DEF IoInv, TypeOK, onStart, onStart_Serial, Set, committed, Later, timers, slots
    <2>3. started' \in [Threads -> Int]
      BY ParametersAssumption, DistinctAssumption DEF IoInv, TypeOK, onStart, onStart_Serial, Set,
             committed, Later, timers, slots
    <2>4. state' \in [Threads -> {"RUNNING", "SUSPENDED", "LEARNING_IO", "IN_IO", "IN_SYSTEM_CALL", "ENDED"}]
      BY DEF IoInv, TypeOK, onStart, onStart_Serial, Set, committed, Later, timers, slots
    <2>5. gvt' \in Nat
      <3>1. gvt' = committed(t, 0)
        BY DEF onStart_Serial
      <3> QED BY <1>1, <3>1, TypesAt
    <2> QED BY <1>5, <2>1, <2>2, <2>3, <2>4, <2>5 DEF IoInv, TypeOK
  <1> QED BY <1>2, <1>3, <1>4, <1>6, OneThreadStep DEF IoInv

LEMMA StartNormalStep ==
  ASSUME IoInv, NEW t \in Threads, onStart(t), onStart_Normal(t)
  PROVE  IoInv'
  <1>1. PlaceOf(t) /\ CallStateOf(t) /\ AccountOf(t) /\ TypeOK
    BY AtThread DEF IoInv
  <1>0. /\ state[t] = "RUNNING" /\ pc[t] = "start" /\ protocolOf(t) = "normal"
        /\ pc' = [pc EXCEPT ![t] = "clock"] /\ started' = [started EXCEPT ![t] = ert[t]]
        /\ gvt' = committed(t, 0) /\ runningThread' = NoThread
        /\ \/ /\ ert' = [ert EXCEPT ![t] = ert[t] + prediction[t]] /\ times' = [times EXCEPT ![t] = 1]
              /\ state' = [state EXCEPT ![t] = "IN_IO"] /\ queue' = queue \cup {t}
           \/ state' = [state EXCEPT ![t] = "LEARNING_IO"] /\ UNCHANGED <<ert, times, queue>>
        /\ UNCHANGED <<protocol, awake, call, prediction>>
    BY <1>1 DEF onStart, onStart_Normal, addPredictionToEstimatedRealTime, setIoThread, Set
  <1>2. OthersStay(t)
    BY <1>0, <1>1, Domains, DistinctAssumption DEF OthersStay, PlaceOf, CallStateOf, Parallel
  <1>3. PlaceOf(t)' /\ CallStateOf(t)' /\ AccountOf(t)'
    <2>1. PlaceOf(t)'
      BY <1>0, <1>1, Domains, DistinctAssumption, Protocol
         DEF PlaceOf, CallStateOf, Parallel, Without
    <2>2. CallStateOf(t)'
      BY <1>0, <1>1, DistinctAssumption, Protocol DEF PlaceOf, CallStateOf, TypeOK, Parallel,
             Without, protocolOf, inSystemCall
    <2>3. AccountOf(t)'
      <3>1. ert[t] \in Int /\ prediction[t] \in Int /\ (2 * 1 - 1) * prediction[t] = prediction[t]
        BY <1>1, TypesAt
      <3>2. CASE ert'[t] = ert[t] + prediction[t] /\ times'[t] = 1 /\ started'[t] = ert[t]
                    /\ prediction'[t] = prediction[t]
        BY <3>1, <3>2 DEF AccountOf, getTotalTimePredicted
      <3>3. CASE state'[t] = "LEARNING_IO"
        BY <3>3 DEF AccountOf
      <3> QED BY <1>0, <1>1, <3>2, <3>3 DEF TypeOK
    <2> QED BY <2>1, <2>2, <2>3
  <1>4. PendingIsCounted'
    <2>1. t \in PendingCalls' /\ t \notin PendingCalls
      BY <1>1 DEF TypeOK, PendingCalls, protocolOf, onStart, onStart_Normal,
             addPredictionToEstimatedRealTime, setIoThread, minimizeSchedulerTimeslot, Set,
             committed, Later
    <2>2. PendingCalls' = PendingCalls \cup {t}
      BY <1>2, <2>1 DEF OthersStay, PendingCalls, protocolOf
    <2>3. IsFiniteSet(PendingCalls) /\ Cardinality(PendingCalls) \in Nat
      BY Counting DEF PendingCalls
    <2>4. Cardinality(PendingCalls') = Cardinality(PendingCalls) + 1
      BY <2>1, <2>2, <2>3, FS_AddElement
    <2>5. pendingIoCalls' = pendingIoCalls + 1 /\ (minimized' <=> minimized \/ pendingIoCalls = 0)
      BY DEF onStart_Normal, minimizeSchedulerTimeslot
    <2>6. pendingIoCalls = Cardinality(PendingCalls) /\ (minimized <=> pendingIoCalls > 0)
      BY DEF IoInv, PendingIsCounted
    <2>7. minimized'
      BY <2>3, <2>5, <2>6
    <2> QED BY <2>3, <2>4, <2>5, <2>6, <2>7 DEF PendingIsCounted
  <1>5. pendingIoCalls' \in 0..Cardinality(Threads)
    BY <1>4, Counting DEF PendingIsCounted, PendingCalls
  <1>6. TypeOK'
    <2>1. UNCHANGED <<protocol, now, calls, awake, key, resumedAt, ran, lastReal, exitReal, call,
           prediction, finishedIo, expired>>
      BY DEF onStart, onStart_Normal, addPredictionToEstimatedRealTime, setIoThread,
             minimizeSchedulerTimeslot, Set, committed, Later
    <2>2. pc' \in [Threads -> {"user", "start", "lax", "clock", "io", "done", "end", "commit", "ended"}]
      BY <1>0, <1>1, TypesAt DEF TypeOK
    <2>3. started' \in [Threads -> Int]
      BY <1>0, <1>1, TypesAt DEF TypeOK
    <2>4. gvt' \in Nat
      <3>1. committed(t, 0) \in Nat
        BY <1>1, TypesAt
      <3> QED BY <1>0, <3>1
    <2>5. ert' \in [Threads -> Int]
      <3>1. ert \in [Threads -> Int] /\ ert[t] + prediction[t] \in Int
        BY <1>1, TypesAt DEF TypeOK
      <3> QED BY <1>0, <3>1
    <2>6. times' \in [Threads -> Nat]
      <3>1. times \in [Threads -> Nat]
        BY <1>1 DEF TypeOK
      <3> QED BY <1>0, <3>1
    <2>7. runningThread' \in Threads \cup {NoThread}
      BY <1>0, <1>1, TypesAt DEF TypeOK
    <2>8. state' \in [Threads -> {"RUNNING", "SUSPENDED", "LEARNING_IO", "IN_IO", "IN_SYSTEM_CALL", "ENDED"}]
      <3>1. state \in [Threads -> {"RUNNING", "SUSPENDED", "LEARNING_IO", "IN_IO", "IN_SYSTEM_CALL", "ENDED"}]
        BY <1>1 DEF TypeOK
      <3> QED BY <1>0, <3>1
    <2>9. queue' \in SUBSET Threads
      <3>1. queue \in SUBSET Threads
        BY <1>1 DEF TypeOK
      <3> QED BY <1>0, <3>1
    <2>10. minimized' \in BOOLEAN
      BY DEF IoInv, TypeOK, onStart_Normal, minimizeSchedulerTimeslot
    <2> QED BY <1>5, <2>1, <2>2, <2>3, <2>4, <2>5, <2>6, <2>7, <2>8, <2>9, <2>10 DEF IoInv, TypeOK
  <1> QED BY <1>2, <1>3, <1>4, <1>6, OneThreadStep DEF IoInv

LEMMA StartLaxStep ==
  ASSUME IoInv, NEW t \in Threads, onStart_Lax(t)
  PROVE  IoInv'
  <1>1. PlaceOf(t) /\ CallStateOf(t) /\ AccountOf(t) /\ TypeOK
    BY AtThread DEF IoInv
  <1>0. /\ state[t] = "RUNNING" /\ pc[t] = "start" /\ protocolOf(t) = "lax"
        /\ gvt' = committed(t, 0) /\ pc' = [pc EXCEPT ![t] = "lax"]
        /\ \/ /\ state' = [state EXCEPT ![t] = "SUSPENDED"] /\ runningThread' = NoThread
              /\ queue' = queue \cup {t} /\ key' = key
           \/ key' = [key EXCEPT ![t] = t] /\ UNCHANGED <<state, runningThread, queue>>
        /\ UNCHANGED <<protocol, awake, call, ert, prediction, times, started>>
    BY <1>1 DEF onStart_Lax, Set, io, timers
  <1>2. OthersStay(t)
    BY <1>0, <1>1, Domains, DistinctAssumption DEF OthersStay, PlaceOf, CallStateOf, Parallel
  <1>3. PlaceOf(t)' /\ CallStateOf(t)' /\ AccountOf(t)'
    <2>1. PlaceOf(t)'
      BY <1>0, <1>1, Domains, DistinctAssumption, Protocol
         DEF PlaceOf, CallStateOf, Parallel, Without
    <2>2. CallStateOf(t)'
      BY <1>0, <1>1, DistinctAssumption, Protocol DEF PlaceOf, CallStateOf, TypeOK, Parallel,
             Without, protocolOf, inSystemCall
    <2>3. AccountOf(t)'
      BY <1>0, <1>1, DistinctAssumption DEF AccountOf, PlaceOf, CallStateOf, Parallel, TypeOK
    <2> QED BY <2>1, <2>2, <2>3
  <1>4. PendingIsCounted'
    <2>1. t \in PendingCalls' <=> t \in PendingCalls
      BY <1>0, <1>1, Protocol DEF CallStateOf, TypeOK, PendingCalls, protocolOf, Parallel, Without
    <2>2. UNCHANGED slots
      BY DEF onStart_Lax, slots
    <2> QED BY <1>2, <2>1, <2>2, SamePending
  <1>5. pendingIoCalls' \in 0..Cardinality(Threads)
    BY <1>4, Counting DEF PendingIsCounted, PendingCalls
  <1>6. TypeOK'
    <2>1. UNCHANGED <<protocol, now, calls, awake, ert, resumedAt, ran, lastReal, exitReal, call,
           prediction, times, finishedIo, started, pendingIoCalls, minimized, expired>>
      BY DEF onStart_Lax, Set, committed, Later, timers, io, slots
    <2>2. gvt' \in Nat
      <3>1. committed(t, 0) \in Nat
        BY <1>1, TypesAt
      <3> QED BY <1>0, <3>1
    <2>3. state' \in [Threads -> {"RUNNING", "SUSPENDED", "LEARNING_IO", "IN_IO", "IN_SYSTEM_CALL", "ENDED"}]
      <3>1. state \in [Threads -> {"RUNNING", "SUSPENDED", "LEARNING_IO", "IN_IO", "IN_SYSTEM_CALL", "ENDED"}]
        BY <1>1 DEF TypeOK
      <3> QED BY <1>0, <3>1
    <2>4. runningThread' \in Threads \cup {NoThread}
      BY <1>0, <1>1, TypesAt DEF TypeOK
    <2>5. queue' \in SUBSET Threads
      BY <1>0, <1>1, TypesAt DEF TypeOK
    <2>6. key' \in [Threads -> Threads \cup {Scheduler, NoThread}]
      <3>1. key \in [Threads -> Threads \cup {Scheduler, NoThread}]
        BY <1>1 DEF TypeOK
      <3> QED BY <1>0, <3>1
    <2>7. pc' \in [Threads -> {"user", "start", "lax", "clock", "io", "done", "end", "commit", "ended"}]
      BY <1>0, <1>1, TypesAt DEF TypeOK
    <2> QED BY <1>5, <2>1, <2>2, <2>3, <2>4, <2>5, <2>6, <2>7 DEF IoInv, TypeOK
  <1> QED BY <1>2, <1>3, <1>4, <1>6, OneThreadStep DEF IoInv

LEMMA LaxIoStep ==
  ASSUME IoInv, NEW t \in Threads, onStart_LaxIo(t)
  PROVE  IoInv'
  <1>1. PlaceOf(t) /\ CallStateOf(t) /\ AccountOf(t) /\ TypeOK
    BY AtThread DEF IoInv
  <1>2. OthersStay(t)
    BY <1>1, DistinctAssumption DEF OthersStay, PlaceOf, CallStateOf, TypeOK, onStart_LaxIo,
           setIoThread, Set, timers, slots
  <1>3. PlaceOf(t)' /\ CallStateOf(t)' /\ AccountOf(t)'
    <2>1. PlaceOf(t)'
      BY <1>1, DistinctAssumption, Protocol DEF PlaceOf, CallStateOf, TypeOK, Parallel, Without,
             onStart_LaxIo, setIoThread, Set, timers, slots
    <2>2. CallStateOf(t)'
      BY <1>1, DistinctAssumption, Protocol DEF PlaceOf, CallStateOf, TypeOK, Parallel, Without,
             protocolOf, inSystemCall, onStart_LaxIo, setIoThread, Set, timers, slots
    <2>3. AccountOf(t)'
      BY <1>1, DistinctAssumption DEF AccountOf, PlaceOf, CallStateOf, TypeOK, onStart_LaxIo,
             setIoThread, Set, timers, slots
    <2> QED BY <2>1, <2>2, <2>3
  <1>4. PendingIsCounted'
    <2>1. t \in PendingCalls' <=> t \in PendingCalls
      BY <1>1, Protocol DEF CallStateOf, TypeOK, PendingCalls, protocolOf, Parallel, Without,
             onStart_LaxIo, setIoThread, Set, timers, slots
    <2>2. UNCHANGED slots
      BY DEF onStart_LaxIo, setIoThread, slots
    <2> QED BY <1>2, <2>1, <2>2, SamePending
  <1>5. pendingIoCalls' \in 0..Cardinality(Threads)
    BY <1>4, Counting DEF PendingIsCounted, PendingCalls
  <1>6. TypeOK'
    <2>1. UNCHANGED <<protocol, now, calls, awake, ert, resumedAt, ran, lastReal, exitReal, call,
           prediction, times, finishedIo, pendingIoCalls, minimized, gvt, expired>>
      BY DEF onStart_LaxIo, setIoThread, Set, timers, slots
    <2>2. runningThread' \in Threads \cup {NoThread}
      BY ParametersAssumption, DistinctAssumption DEF IoInv, TypeOK, onStart_LaxIo, setIoThread,
             Set, timers, slots
    <2>3. state' \in [Threads -> {"RUNNING", "SUSPENDED", "LEARNING_IO", "IN_IO", "IN_SYSTEM_CALL", "ENDED"}]
      BY DEF IoInv, TypeOK, onStart_LaxIo, setIoThread, Set, timers, slots
    <2>4. queue' \in SUBSET Threads
      BY ParametersAssumption, DistinctAssumption DEF IoInv, TypeOK, onStart_LaxIo, setIoThread,
             Set, timers, slots
    <2>5. key' \in [Threads -> Threads \cup {Scheduler, NoThread}]
      BY ParametersAssumption, DistinctAssumption DEF IoInv, TypeOK, onStart_LaxIo, setIoThread,
             Set, timers, slots
    <2>6. pc' \in [Threads -> {"user", "start", "lax", "clock", "io", "done", "end", "commit", "ended"}]
      BY DEF IoInv, TypeOK, onStart_LaxIo, setIoThread, Set, timers, slots
    <2>7. started' \in [Threads -> Int]
      BY ParametersAssumption, DistinctAssumption DEF IoInv, TypeOK, onStart_LaxIo, setIoThread,
             Set, timers, slots
    <2> QED BY <1>5, <2>1, <2>2, <2>3, <2>4, <2>5, <2>6, <2>7 DEF IoInv, TypeOK
  <1> QED BY <1>2, <1>3, <1>4, <1>6, OneThreadStep DEF IoInv

LEMMA ClocksStep ==
  ASSUME IoInv, NEW t \in Threads, updateClocks(t)
  PROVE  IoInv'
  <1>1. PlaceOf(t) /\ CallStateOf(t) /\ AccountOf(t) /\ TypeOK
    BY AtThread DEF IoInv
  <1>2. OthersStay(t)
    BY <1>1, DistinctAssumption DEF OthersStay, PlaceOf, CallStateOf, TypeOK, updateClocks, Set,
           timers, slots
  <1>3. PlaceOf(t)' /\ CallStateOf(t)' /\ AccountOf(t)'
    <2>1. PlaceOf(t)'
      BY <1>1, DistinctAssumption, Protocol DEF PlaceOf, CallStateOf, TypeOK, Parallel, Without,
             updateClocks, Set, timers, slots
    <2>2. CallStateOf(t)'
      BY <1>1, DistinctAssumption, Protocol DEF PlaceOf, CallStateOf, TypeOK, Parallel, Without,
             protocolOf, inSystemCall, updateClocks, Set, timers, slots
    <2>3. AccountOf(t)'
      BY <1>1, DistinctAssumption DEF AccountOf, PlaceOf, CallStateOf, TypeOK,
             getTotalTimePredicted, updateClocks, Set, timers, slots
    <2> QED BY <2>1, <2>2, <2>3
  <1>4. PendingIsCounted'
    <2>1. t \in PendingCalls' <=> t \in PendingCalls
      BY <1>1, Protocol DEF CallStateOf, TypeOK, PendingCalls, protocolOf, Parallel, Without,
             updateClocks, Set, timers, slots
    <2>2. UNCHANGED slots
      BY DEF updateClocks, slots
    <2> QED BY <1>2, <2>1, <2>2, SamePending
  <1>5. pendingIoCalls' \in 0..Cardinality(Threads)
    BY <1>4, Counting DEF PendingIsCounted, PendingCalls
  <1>6. TypeOK'
    <2>1. UNCHANGED <<protocol, now, calls, state, awake, key, ert, resumedAt, ran, exitReal,
           call, prediction, times, finishedIo, started, pendingIoCalls, minimized, queue, gvt,
           runningThread, expired>>
      BY DEF updateClocks, Set, timers, slots
    <2>2. lastReal' \in [Threads -> 0..MaxReal]
      BY ParametersAssumption, DistinctAssumption DEF IoInv, TypeOK, updateClocks, Set, timers,
             slots
    <2>3. pc' \in [Threads -> {"user", "start", "lax", "clock", "io", "done", "end", "commit", "ended"}]
      BY DEF IoInv, TypeOK, updateClocks, Set, timers, slots
    <2> QED BY <1>5, <2>1, <2>2, <2>3 DEF IoInv, TypeOK
  <1> QED BY <1>2, <1>3, <1>4, <1>6, OneThreadStep DEF IoInv

LEMMA ExitStep ==
  ASSUME IoInv, NEW t \in Threads, beforeIoMethodExit(t)
  PROVE  IoInv'
  <1>1. PlaceOf(t) /\ CallStateOf(t) /\ AccountOf(t) /\ TypeOK
    BY AtThread DEF IoInv
  <1>2. OthersStay(t)
    BY <1>1, DistinctAssumption DEF OthersStay, PlaceOf, CallStateOf, TypeOK, beforeIoMethodExit,
           Set, timers, slots
  <1>3. PlaceOf(t)' /\ CallStateOf(t)' /\ AccountOf(t)'
    <2>1. PlaceOf(t)'
      BY <1>1, DistinctAssumption, Protocol DEF PlaceOf, CallStateOf, TypeOK, Parallel, Without,
             beforeIoMethodExit, Set, timers, slots
    <2>2. CallStateOf(t)'
      BY <1>1, DistinctAssumption, Protocol DEF PlaceOf, CallStateOf, TypeOK, Parallel, Without,
             protocolOf, inSystemCall, beforeIoMethodExit, Set, timers, slots
    <2>3. AccountOf(t)'
      BY <1>1, DistinctAssumption DEF AccountOf, PlaceOf, CallStateOf, TypeOK,
             getTotalTimePredicted, beforeIoMethodExit, Set, timers, slots
    <2> QED BY <2>1, <2>2, <2>3
  <1>4. PendingIsCounted'
    <2>1. t \in PendingCalls' <=> t \in PendingCalls
      BY <1>1, Protocol DEF CallStateOf, TypeOK, PendingCalls, protocolOf, Parallel, Without,
             beforeIoMethodExit, Set, timers, slots
    <2>2. UNCHANGED slots
      BY DEF beforeIoMethodExit, slots
    <2> QED BY <1>2, <2>1, <2>2, SamePending
  <1>5. pendingIoCalls' \in 0..Cardinality(Threads)
    BY <1>4, Counting DEF PendingIsCounted, PendingCalls
  <1>6. TypeOK'
    <2>1. UNCHANGED <<protocol, now, calls, state, awake, key, ert, resumedAt, ran, lastReal,
           call, prediction, times, started, pendingIoCalls, minimized, queue, gvt, runningThread,
           expired>>
      BY DEF beforeIoMethodExit, Set, timers, slots
    <2>2. exitReal' \in [Threads -> 0..MaxReal]
      BY ParametersAssumption, DistinctAssumption DEF IoInv, TypeOK, beforeIoMethodExit, Set,
             timers, slots
    <2>3. finishedIo' \in [Threads -> BOOLEAN]
      BY ParametersAssumption, DistinctAssumption DEF IoInv, TypeOK, beforeIoMethodExit, Set,
             timers, slots
    <2>4. pc' \in [Threads -> {"user", "start", "lax", "clock", "io", "done", "end", "commit", "ended"}]
      BY DEF IoInv, TypeOK, beforeIoMethodExit, Set, timers, slots
    <2> QED BY <1>5, <2>1, <2>2, <2>3, <2>4 DEF IoInv, TypeOK
  <1> QED BY <1>2, <1>3, <1>4, <1>6, OneThreadStep DEF IoInv

LEMMA EndNoneStep ==
  ASSUME IoInv, NEW t \in Threads, endIo(t), onEnd_None(t)
  PROVE  IoInv'
  <1>1. PlaceOf(t) /\ CallStateOf(t) /\ AccountOf(t) /\ TypeOK
    BY AtThread DEF IoInv
  <1>0. /\ pc[t] = "done" /\ state[t] # "SUSPENDED" /\ protocolOf(t) \in Without
        /\ pc' = [pc EXCEPT ![t] = "user"] /\ call' = [call EXCEPT ![t] = "io"]
        /\ exitReal' = [exitReal EXCEPT ![t] = 0] /\ started' = [started EXCEPT ![t] = 0]
        /\ UNCHANGED <<protocol, state, awake, ert, prediction, times, queue, runningThread>>
    BY <1>1 DEF endIo, onEnd_None, Set, Without
  <1>2. OthersStay(t)
    BY <1>0, <1>1, Domains, DistinctAssumption DEF OthersStay, PlaceOf, CallStateOf, Parallel
  <1>3. PlaceOf(t)' /\ CallStateOf(t)' /\ AccountOf(t)'
    <2>1. PlaceOf(t)'
      BY <1>0, <1>1, Domains, DistinctAssumption, Protocol
         DEF PlaceOf, CallStateOf, Parallel, Without
    <2>2. CallStateOf(t)'
      BY <1>0, <1>1, DistinctAssumption, Protocol DEF PlaceOf, CallStateOf, TypeOK, Parallel,
             Without, protocolOf, inSystemCall
    <2>3. AccountOf(t)'
      BY <1>0, <1>1, DistinctAssumption DEF AccountOf, PlaceOf, CallStateOf, Parallel, TypeOK
    <2> QED BY <2>1, <2>2, <2>3
  <1>4. PendingIsCounted'
    <2>1. t \in PendingCalls' <=> t \in PendingCalls
      BY <1>0, <1>1, Protocol DEF CallStateOf, TypeOK, PendingCalls, protocolOf, Parallel, Without
    <2>2. UNCHANGED slots
      BY DEF endIo, onEnd_None, slots
    <2> QED BY <1>2, <2>1, <2>2, SamePending
  <1>5. pendingIoCalls' \in 0..Cardinality(Threads)
    BY <1>4, Counting DEF PendingIsCounted, PendingCalls
  <1>6. TypeOK'
    <2>1. UNCHANGED <<protocol, now, calls, state, awake, key, ert, resumedAt, ran, lastReal,
           prediction, times, finishedIo, pendingIoCalls, minimized, queue, gvt, runningThread,
           expired>>
      BY DEF endIo, onEnd_None, Set, slots
    <2>2. pc' \in [Threads -> {"user", "start", "lax", "clock", "io", "done", "end", "commit", "ended"}]
      BY <1>0, <1>1, TypesAt DEF TypeOK
    <2>3. call' \in [Threads -> {"io", "ignored", "cached"}]
      BY <1>0, <1>1, TypesAt DEF TypeOK
    <2>4. exitReal' \in [Threads -> 0..MaxReal]
      BY <1>0, <1>1, TypesAt DEF TypeOK
    <2>5. started' \in [Threads -> Int]
      BY <1>0, <1>1, TypesAt DEF TypeOK
    <2> QED BY <1>5, <2>1, <2>2, <2>3, <2>4, <2>5 DEF IoInv, TypeOK
  <1> QED BY <1>2, <1>3, <1>4, <1>6, OneThreadStep DEF IoInv

LEMMA EndSerialStep ==
  ASSUME IoInv, NEW t \in Threads, endIo(t), onEnd_Serial(t)
  PROVE  IoInv'
  <1>1. PlaceOf(t) /\ CallStateOf(t) /\ AccountOf(t) /\ TypeOK
    BY AtThread DEF IoInv
  <1>0. /\ pc[t] = "done" /\ state[t] # "SUSPENDED" /\ protocolOf(t) = "serial"
        /\ ert' = [ert EXCEPT ![t] = ert[t] + actualIoDuration(t)] /\ ran' = [ran EXCEPT ![t] = ran[t] + actualIoDuration(t)]
        /\ gvt' = committed(t, actualIoDuration(t)) /\ finishedIo' = [finishedIo EXCEPT ![t] = FALSE]
        /\ state' = [state EXCEPT ![t] = "RUNNING"] /\ pc' = [pc EXCEPT ![t] = "user"]
        /\ call' = [call EXCEPT ![t] = "io"] /\ exitReal' = [exitReal EXCEPT ![t] = 0] /\ started' = [started EXCEPT ![t] = 0]
        /\ UNCHANGED <<protocol, awake, prediction, times, queue, runningThread>>
    BY <1>1 DEF endIo, onEnd_Serial, Set
  <1>2. OthersStay(t)
    BY <1>0, <1>1, Domains, DistinctAssumption DEF OthersStay, PlaceOf, CallStateOf, Parallel
  <1>3. PlaceOf(t)' /\ CallStateOf(t)' /\ AccountOf(t)'
    <2>1. PlaceOf(t)'
      BY <1>0, <1>1, Domains, DistinctAssumption, Protocol
         DEF PlaceOf, CallStateOf, Parallel, Without
    <2>2. CallStateOf(t)'
      BY <1>0, <1>1, DistinctAssumption, Protocol DEF PlaceOf, CallStateOf, TypeOK, Parallel,
             Without, protocolOf, inSystemCall
    <2>3. AccountOf(t)'
      BY <1>0, <1>1, DistinctAssumption DEF AccountOf, PlaceOf, CallStateOf, Parallel, TypeOK
    <2> QED BY <2>1, <2>2, <2>3
  <1>4. PendingIsCounted'
    <2>1. t \in PendingCalls' <=> t \in PendingCalls
      BY <1>0, <1>1, Protocol DEF CallStateOf, TypeOK, PendingCalls, protocolOf, Parallel, Without
    <2>2. UNCHANGED slots
      BY DEF endIo, onEnd_Serial, actualIoDuration, slots
    <2> QED BY <1>2, <2>1, <2>2, SamePending
  <1>5. pendingIoCalls' \in 0..Cardinality(Threads)
    BY <1>4, Counting DEF PendingIsCounted, PendingCalls
  <1>6. TypeOK'
    <2>1. UNCHANGED <<protocol, now, calls, awake, key, resumedAt, lastReal, prediction, times,
           pendingIoCalls, minimized, queue, runningThread, expired>>
      BY DEF endIo, onEnd_Serial, actualIoDuration, Set, committed, Later, slots
    <2>2. ert' \in [Threads -> Int]
      BY <1>0, <1>1, TypesAt DEF TypeOK
    <2>3. ran' \in [Threads -> Int]
      BY <1>0, <1>1, TypesAt DEF TypeOK
    <2>4. gvt' \in Nat
      BY <1>0, <1>1, TypesAt DEF TypeOK
    <2>5. state' \in [Threads -> {"RUNNING", "SUSPENDED", "LEARNING_IO", "IN_IO", "IN_SYSTEM_CALL", "ENDED"}]
      BY <1>0, <1>1, TypesAt DEF TypeOK
    <2>6. finishedIo' \in [Threads -> BOOLEAN]
      BY <1>0, <1>1, TypesAt DEF TypeOK
    <2>7. pc' \in [Threads -> {"user", "start", "lax", "clock", "io", "done", "end", "commit", "ended"}]
      BY <1>0, <1>1, TypesAt DEF TypeOK
    <2>8. call' \in [Threads -> {"io", "ignored", "cached"}]
      BY <1>0, <1>1, TypesAt DEF TypeOK
    <2>9. exitReal' \in [Threads -> 0..MaxReal]
      BY <1>0, <1>1, TypesAt DEF TypeOK
    <2>10. started' \in [Threads -> Int]
      BY <1>0, <1>1, TypesAt DEF TypeOK
    <2> QED BY <1>5, <2>1, <2>2, <2>3, <2>4, <2>5, <2>6, <2>7, <2>8, <2>9, <2>10 DEF IoInv, TypeOK
  <1> QED BY <1>2, <1>3, <1>4, <1>6, OneThreadStep DEF IoInv

LEMMA EndParallelStep ==
  ASSUME IoInv, NEW t \in Threads, endIo(t), onEnd_Parallel(t)
  PROVE  IoInv'
  <1>1. PlaceOf(t) /\ CallStateOf(t) /\ AccountOf(t) /\ TypeOK
    BY AtThread DEF IoInv
  <1>0. PICK d \in Int :
          /\ pc[t] = "done" /\ state[t] \in {"LEARNING_IO", "IN_IO"} /\ protocolOf(t) \in Parallel
          /\ ert' = [ert EXCEPT ![t] = ert[t] + d]
          /\ ran' = ran \/ ran' = [ran EXCEPT ![t] = ran[t] + actualIoDuration(t)]
          /\ finishedIo' = [finishedIo EXCEPT ![t] = FALSE] /\ key' = [key EXCEPT ![t] = t] /\ pc' = [pc EXCEPT ![t] = "end"]
          /\ call' = [call EXCEPT ![t] = "io"] /\ exitReal' = [exitReal EXCEPT ![t] = 0] /\ started' = [started EXCEPT ![t] = 0]
          /\ UNCHANGED <<protocol, state, awake, prediction, times, queue, runningThread>>
    <2>1. actualIoDuration(t) \in Int /\ actualIoDuration(t) - getTotalTimePredicted(t) \in Int
      BY <1>1, TypesAt
    <2>2. ert[t] + actualIoDuration(t) - getTotalTimePredicted(t)
            = ert[t] + (actualIoDuration(t) - getTotalTimePredicted(t))
      BY <1>1, <2>1, TypesAt
    <2> QED BY <2>1, <2>2 DEF endIo, onEnd_Parallel, Set, Parallel
  <1>2. OthersStay(t)
    BY <1>0, <1>1, Domains, DistinctAssumption DEF OthersStay, PlaceOf, CallStateOf, Parallel
  <1>3. PlaceOf(t)' /\ CallStateOf(t)' /\ AccountOf(t)'
    <2>1. PlaceOf(t)'
      BY <1>0, <1>1, Domains, DistinctAssumption, Protocol
         DEF PlaceOf, CallStateOf, Parallel, Without
    <2>2. CallStateOf(t)'
      BY <1>0, <1>1, DistinctAssumption, Protocol DEF PlaceOf, CallStateOf, TypeOK, Parallel,
             Without, protocolOf, inSystemCall
    <2>3. AccountOf(t)'
      BY <1>0, <1>1, DistinctAssumption DEF AccountOf, PlaceOf, CallStateOf, Parallel, TypeOK
    <2> QED BY <2>1, <2>2, <2>3
  <1>4. PendingIsCounted'
    <2>1. t \in PendingCalls' <=> t \in PendingCalls
      BY <1>0, <1>1, Protocol DEF CallStateOf, TypeOK, PendingCalls, protocolOf, Parallel, Without
    <2>2. UNCHANGED slots
      BY DEF endIo, onEnd_Parallel, actualIoDuration, getTotalTimePredicted, slots
    <2> QED BY <1>2, <2>1, <2>2, SamePending
  <1>5. pendingIoCalls' \in 0..Cardinality(Threads)
    BY <1>4, Counting DEF PendingIsCounted, PendingCalls
  <1>6. TypeOK'
    <2>1. UNCHANGED <<protocol, now, calls, state, awake, resumedAt, lastReal, prediction, times,
           pendingIoCalls, minimized, queue, gvt, runningThread, expired>>
      BY DEF endIo, onEnd_Parallel, actualIoDuration, getTotalTimePredicted, Set, slots
    <2>2. ert' \in [Threads -> Int]
      BY <1>0, <1>1, TypesAt DEF TypeOK
    <2>3. ran' \in [Threads -> Int]
      <3>1. ran \in [Threads -> Int] /\ ran[t] + actualIoDuration(t) \in Int
        BY <1>1, TypesAt DEF TypeOK
      <3> QED BY <1>0, <3>1
    <2>4. finishedIo' \in [Threads -> BOOLEAN]
      BY <1>0, <1>1, TypesAt DEF TypeOK
    <2>5. key' \in [Threads -> Threads \cup {Scheduler, NoThread}]
      BY <1>0, <1>1, TypesAt DEF TypeOK
    <2>6. pc' \in [Threads -> {"user", "start", "lax", "clock", "io", "done", "end", "commit", "ended"}]
      BY <1>0, <1>1, TypesAt DEF TypeOK
    <2>7. call' \in [Threads -> {"io", "ignored", "cached"}]
      BY <1>0, <1>1, TypesAt DEF TypeOK
    <2>8. exitReal' \in [Threads -> 0..MaxReal]
      BY <1>0, <1>1, TypesAt DEF TypeOK
    <2>9. started' \in [Threads -> Int]
      BY <1>0, <1>1, TypesAt DEF TypeOK
    <2> QED BY <1>5, <2>1, <2>2, <2>3, <2>4, <2>5, <2>6, <2>7, <2>8, <2>9 DEF IoInv, TypeOK
  <1> QED BY <1>2, <1>3, <1>4, <1>6, OneThreadStep DEF IoInv

LEMMA SuspendCurrentStep ==
  ASSUME IoInv, NEW t \in Threads, suspendCurrentThread(t)
  PROVE  IoInv'
  <1>1. PlaceOf(t) /\ CallStateOf(t) /\ AccountOf(t) /\ TypeOK
    BY AtThread DEF IoInv
  <1>0. /\ pc[t] = "end" /\ pc' = [pc EXCEPT ![t] = "commit"]
        /\ \/ /\ state' = [state EXCEPT ![t] = "SUSPENDED"] /\ queue' = queue \cup {t}
              /\ key' = [key EXCEPT ![t] = NoThread] /\ UNCHANGED <<ert, runningThread>>
           \/ /\ runningThread \in {NoThread, t} /\ runningThread' = t /\ queue' = queue \ {t}
              /\ state' = [state EXCEPT ![t] = "RUNNING"]
              /\ ert' = [ert EXCEPT ![t] = Later(ert[t], gvt)] /\ key' = key
        /\ UNCHANGED <<protocol, awake, call, prediction, times, started>>
    BY <1>1 DEF suspendCurrentThread, shouldCurrentThreadSuspend, Set, io
  <1>2. OthersStay(t)
    <2>1. \A u \in Threads \ {t} :
            /\ pc'[u] = pc[u] /\ state'[u] = state[u] /\ awake'[u] = awake[u] /\ call'[u] = call[u]
            /\ ert'[u] = ert[u] /\ started'[u] = started[u]
            /\ prediction'[u] = prediction[u] /\ times'[u] = times[u]
      BY <1>0, <1>1, Domains
    <2>2. \A u \in Threads \ {t} :
            (u \in queue' <=> u \in queue) /\ (runningThread' = u <=> runningThread = u)
      BY <1>0, DistinctAssumption
    <2>3. protocol' = protocol
      BY <1>0
    <2> QED BY <2>1, <2>2, <2>3 DEF OthersStay
  <1>3. PlaceOf(t)' /\ CallStateOf(t)' /\ AccountOf(t)'
    <2>1. PlaceOf(t)'
      BY <1>0, <1>1, Domains, DistinctAssumption, Protocol
         DEF PlaceOf, CallStateOf, Parallel, Without
    <2>2. CallStateOf(t)'
      BY <1>0, <1>1, DistinctAssumption, Protocol DEF PlaceOf, CallStateOf, TypeOK, Parallel,
             Without, protocolOf, inSystemCall
    <2>3. AccountOf(t)'
      BY <1>0, <1>1, DistinctAssumption DEF AccountOf, PlaceOf, CallStateOf, Parallel, TypeOK
    <2> QED BY <2>1, <2>2, <2>3
  <1>4. PendingIsCounted'
    <2>1. t \in PendingCalls' <=> t \in PendingCalls
      BY <1>0, <1>1, Protocol DEF CallStateOf, TypeOK, PendingCalls, protocolOf, Parallel, Without
    <2>2. UNCHANGED slots
      BY DEF suspendCurrentThread, slots
    <2> QED BY <1>2, <2>1, <2>2, SamePending
  <1>5. pendingIoCalls' \in 0..Cardinality(Threads)
    BY <1>4, Counting DEF PendingIsCounted, PendingCalls
  <1>6. TypeOK'
    <2>1. UNCHANGED <<protocol, now, calls, awake, resumedAt, ran, lastReal, exitReal, call,
           prediction, times, finishedIo, started, pendingIoCalls, minimized, gvt, expired>>
      BY DEF suspendCurrentThread, Set, Later, io, slots
    <2>2. state' \in [Threads -> {"RUNNING", "SUSPENDED", "LEARNING_IO", "IN_IO", "IN_SYSTEM_CALL", "ENDED"}]
      BY <1>0, <1>1, TypesAt DEF TypeOK
    <2>3. queue' \in SUBSET Threads
      BY <1>0, <1>1, TypesAt DEF TypeOK
    <2>4. key' \in [Threads -> Threads \cup {Scheduler, NoThread}]
      BY <1>0, <1>1, TypesAt DEF TypeOK
    <2>5. ert' \in [Threads -> Int]
      <3>1. ert \in [Threads -> Int] /\ Later(ert[t], gvt) \in Int
        BY <1>1, TypesAt DEF TypeOK
      <3> QED BY <1>0, <3>1
    <2>6. runningThread' \in Threads \cup {NoThread}
      BY <1>0, <1>1, TypesAt DEF TypeOK
    <2>7. pc' \in [Threads -> {"user", "start", "lax", "clock", "io", "done", "end", "commit", "ended"}]
      BY <1>0, <1>1, TypesAt DEF TypeOK
    <2> QED BY <1>5, <2>1, <2>2, <2>3, <2>4, <2>5, <2>6, <2>7 DEF IoInv, TypeOK
  <1> QED BY <1>2, <1>3, <1>4, <1>6, OneThreadStep DEF IoInv

LEMMA CommitStep ==
  ASSUME IoInv, NEW t \in Threads, commitIoDuration(t)
  PROVE  IoInv'
  <1>1. PlaceOf(t) /\ CallStateOf(t) /\ AccountOf(t) /\ TypeOK
    BY AtThread DEF IoInv
  <1>2. OthersStay(t)
    BY <1>1, DistinctAssumption DEF OthersStay, PlaceOf, CallStateOf, TypeOK, commitIoDuration,
           resetSchedulerTimeslot, Set, Later, timers, io, slots
  <1>3. PlaceOf(t)' /\ CallStateOf(t)' /\ AccountOf(t)'
    <2>1. PlaceOf(t)'
      BY <1>1, DistinctAssumption, Protocol DEF PlaceOf, CallStateOf, TypeOK, Parallel, Without,
             commitIoDuration, resetSchedulerTimeslot, Set, Later, timers, io, slots
    <2>2. CallStateOf(t)'
      BY <1>1, DistinctAssumption, Protocol DEF PlaceOf, CallStateOf, TypeOK, Parallel, Without,
             protocolOf, inSystemCall, commitIoDuration, resetSchedulerTimeslot, Set, Later,
             timers, io, slots
    <2>3. AccountOf(t)'
      BY <1>1, DistinctAssumption DEF AccountOf, PlaceOf, CallStateOf, TypeOK, commitIoDuration,
             resetSchedulerTimeslot, Set, Later, timers, io, slots
    <2> QED BY <2>1, <2>2, <2>3
  <1>4. PendingIsCounted'
    <2>1. IsFiniteSet(PendingCalls) /\ Cardinality(PendingCalls) \in Nat
      BY Counting DEF PendingCalls
    <2>2. pendingIoCalls = Cardinality(PendingCalls) /\ (minimized <=> pendingIoCalls > 0)
      BY DEF IoInv, PendingIsCounted
    <2>3. CASE protocol = "normal"
      <3>1. t \in PendingCalls /\ t \notin PendingCalls'
        BY <1>1, <2>3 DEF TypeOK, CallStateOf, PendingCalls, protocolOf, commitIoDuration, Set
      <3>2. PendingCalls' = PendingCalls \ {t}
        BY <1>2, <3>1 DEF OthersStay, PendingCalls, protocolOf
      <3>3. Cardinality(PendingCalls') = Cardinality(PendingCalls) - 1
        BY <2>1, <3>1, <3>2, FS_RemoveElement
      <3>4. Cardinality(PendingCalls) # 0
        BY <2>1, <3>1, FS_EmptySet
      <3>5. pendingIoCalls' = pendingIoCalls - 1 /\ (minimized' <=> minimized /\ pendingIoCalls # 1)
        BY <2>3 DEF commitIoDuration, resetSchedulerTimeslot
      <3>6. minimized' <=> pendingIoCalls # 1
        BY <2>1, <2>2, <3>4, <3>5
      <3> QED BY <2>1, <2>2, <3>3, <3>4, <3>5, <3>6 DEF PendingIsCounted
    <2>4. CASE protocol # "normal"
      <3>1. t \in PendingCalls' <=> t \in PendingCalls
        BY <1>1, <2>4 DEF TypeOK, CallStateOf, PendingCalls, protocolOf, commitIoDuration, Set
      <3>2. UNCHANGED slots
        BY <2>4 DEF commitIoDuration
      <3> QED BY <1>2, <3>1, <3>2, SamePending
    <2> QED BY <2>3, <2>4
  <1>5. pendingIoCalls' \in 0..Cardinality(Threads)
    BY <1>4, Counting DEF PendingIsCounted, PendingCalls
  <1>6. TypeOK'
    <2>1. UNCHANGED <<protocol, now, calls, state, awake, ert, resumedAt, ran, lastReal, exitReal,
           call, prediction, times, finishedIo, started, queue, runningThread, expired>>
      BY DEF commitIoDuration, resetSchedulerTimeslot, Set, Later, timers, io, slots
    <2>2. gvt' \in Nat
      BY ParametersAssumption, DistinctAssumption DEF IoInv, TypeOK, commitIoDuration,
             resetSchedulerTimeslot, Set, Later, timers, io, slots
    <2>3. key' \in [Threads -> Threads \cup {Scheduler, NoThread}]
      BY ParametersAssumption, DistinctAssumption DEF IoInv, TypeOK, commitIoDuration,
             resetSchedulerTimeslot, Set, Later, timers, io, slots
    <2>4. pc' \in [Threads -> {"user", "start", "lax", "clock", "io", "done", "end", "commit", "ended"}]
      BY DEF IoInv, TypeOK, commitIoDuration, resetSchedulerTimeslot, Set, Later, timers, io,
             slots
    <2>5. minimized' \in BOOLEAN
      BY DEF IoInv, TypeOK, commitIoDuration, resetSchedulerTimeslot, slots
    <2> QED BY <1>5, <2>1, <2>2, <2>3, <2>4, <2>5 DEF IoInv, TypeOK
  <1> QED BY <1>2, <1>3, <1>4, <1>6, OneThreadStep DEF IoInv

LEMMA ExpireStep ==
  ASSUME IoInv, NEW t \in Threads, handleIOPerformingThread(t)
  PROVE  IoInv'
  <1>1. PlaceOf(t) /\ CallStateOf(t) /\ AccountOf(t) /\ TypeOK
    BY AtThread DEF IoInv
  <1>2. OthersStay(t)
    BY <1>1, DistinctAssumption DEF OthersStay, PlaceOf, CallStateOf, TypeOK,
           handleIOPerformingThread, Set, timers, io, slots
  <1>3. PlaceOf(t)' /\ CallStateOf(t)' /\ AccountOf(t)'
    <2>1. PlaceOf(t)'
      BY <1>1, DistinctAssumption, Protocol DEF PlaceOf, CallStateOf, TypeOK, Parallel, Without,
             handleIOPerformingThread, Set, timers, io, slots
    <2>2. CallStateOf(t)'
      BY <1>1, DistinctAssumption, Protocol DEF PlaceOf, CallStateOf, TypeOK, Parallel, Without,
             protocolOf, inSystemCall, handleIOPerformingThread, Set, timers, io, slots
    <2>3. AccountOf(t)'
      BY <1>1, DistinctAssumption DEF AccountOf, PlaceOf, CallStateOf, TypeOK,
             getTotalTimePredicted, handleIOPerformingThread, Set, timers, io, slots
    <2> QED BY <2>1, <2>2, <2>3
  <1>4. PendingIsCounted'
    <2>1. t \in PendingCalls' <=> t \in PendingCalls
      BY <1>1, Protocol DEF CallStateOf, TypeOK, PendingCalls, protocolOf, Parallel, Without,
             handleIOPerformingThread, Set, timers, io, slots
    <2>2. UNCHANGED slots
      BY DEF handleIOPerformingThread, slots
    <2> QED BY <1>2, <2>1, <2>2, SamePending
  <1>5. pendingIoCalls' \in 0..Cardinality(Threads)
    BY <1>4, Counting DEF PendingIsCounted, PendingCalls
  <1>6. TypeOK'
    <2>1. UNCHANGED <<protocol, now, pc, calls, state, awake, ert, resumedAt, ran, lastReal,
           exitReal, call, prediction, times, finishedIo, started, pendingIoCalls, minimized,
           queue, gvt, runningThread>>
      BY DEF handleIOPerformingThread, Set, timers, io, slots
    <2>2. key' \in [Threads -> Threads \cup {Scheduler, NoThread}]
      BY ParametersAssumption, DistinctAssumption DEF IoInv, TypeOK, handleIOPerformingThread,
             Set, timers, io, slots
    <2>3. expired' \in {<<>>} \cup (Threads \X (0..MaxReal))
      BY ParametersAssumption, DistinctAssumption DEF IoInv, TypeOK, handleIOPerformingThread,
             Set, timers, io, slots
    <2> QED BY <1>5, <2>1, <2>2, <2>3 DEF IoInv, TypeOK
  <1> QED BY <1>2, <1>3, <1>4, <1>6, OneThreadStep DEF IoInv

LEMMA InvalidateStep ==
  ASSUME IoInv, invalidateExpiredIoPredictions
  PROVE  IoInv'
  <1>1. UNCHANGED <<protocol, pc, state, awake, call, prediction, started, slots, queue, runningThread>>
    BY DEF invalidateExpiredIoPredictions
  <1>2. TypeOK
    BY DEF IoInv
  <1>3. \A u \in Threads :
          \/ ert'[u] = ert[u] /\ times'[u] = times[u]
          \/ ert'[u] = ert[u] + 2 * times[u] * prediction[u] /\ times'[u] = 2 * times[u]
    BY DEF invalidateExpiredIoPredictions, extendPredictionPeriod
  <1>4. PendingIsCounted' /\ ThreadPlaces' /\ CallStates'
    BY <1>1 DEF IoInv, PendingIsCounted, PendingCalls, ThreadPlaces, CallStates, PlaceOf, CallStateOf,
                protocolOf, slots
  <1>5. pendingIoCalls' \in 0..Cardinality(Threads)
    BY <1>4, Counting DEF PendingIsCounted, PendingCalls
  <1>6. TypeOK'
    <2>1. UNCHANGED <<protocol, now, pc, calls, state, awake, resumedAt, ran, lastReal, exitReal,
           call, prediction, finishedIo, started, pendingIoCalls, minimized, queue, gvt,
           runningThread>>
      BY DEF invalidateExpiredIoPredictions, Set, slots
    <2>2. ert' \in [Threads -> Int]
      <3>1. \A u \in Threads : ert[u] \in Int /\ times[u] \in Int /\ prediction[u] \in Int
        BY <1>2, TypesAt
      <3>2. \A u \in Threads : extendPredictionPeriod(u) \in Int
        BY <3>1 DEF extendPredictionPeriod
      <3> QED BY <3>1, <3>2 DEF invalidateExpiredIoPredictions
    <2>3. times' \in [Threads -> Nat]
      <3>0. times \in [Threads -> Nat]
        BY <1>2 DEF TypeOK
      <3>1. \A u \in Threads : times[u] \in Nat /\ 2 * times[u] \in Nat
        BY <3>0
      <3> QED BY <3>1 DEF invalidateExpiredIoPredictions
    <2>4. key' \in [Threads -> Threads \cup {Scheduler, NoThread}]
      BY ParametersAssumption, DistinctAssumption DEF IoInv, TypeOK,
             invalidateExpiredIoPredictions, Set, slots
    <2>5. expired' \in {<<>>} \cup (Threads \X (0..MaxReal))
      BY ParametersAssumption, DistinctAssumption DEF IoInv, TypeOK,
             invalidateExpiredIoPredictions, Set, slots
    <2> QED BY <1>5, <2>1, <2>2, <2>3, <2>4, <2>5 DEF IoInv, TypeOK
  <1>7. PredictionIsAccounted'
    <2>1. SUFFICES ASSUME NEW u \in Threads
                   PROVE  AccountOf(u)'
      BY DEF PredictionIsAccounted, AccountOf
    <2>2. /\ AccountOf(u) /\ ert[u] \in Int /\ started[u] \in Int
          /\ times[u] \in Nat /\ prediction[u] \in Nat
      BY <1>2, AtThread, ParametersAssumption DEF TypeOK
    <2>3. CASE ert'[u] = ert[u] /\ times'[u] = times[u]
      BY <1>1, <2>2, <2>3 DEF AccountOf, getTotalTimePredicted
    <2>4. CASE ert'[u] = ert[u] + 2 * times[u] * prediction[u] /\ times'[u] = 2 * times[u]
      <3>1. getTotalTimePredicted(u)' = getTotalTimePredicted(u) + 2 * times[u] * prediction[u]
        BY <1>1, <2>2, <2>4, Doubling DEF getTotalTimePredicted
      <3>2. getTotalTimePredicted(u) \in Int /\ 2 * times[u] * prediction[u] \in Int
        BY <2>2 DEF getTotalTimePredicted
      <3> QED BY <1>1, <2>2, <2>4, <3>1, <3>2 DEF AccountOf
    <2> QED BY <1>3, <2>3, <2>4
  <1> QED BY <1>4, <1>6, <1>7 DEF IoInv

LEMMA TickStep ==
  ASSUME IoInv, tick
  PROVE  IoInv'
  <1>1. UNCHANGED <<protocol, pc, calls, state, awake, key, ert, resumedAt, ran, lastReal, exitReal,
                    call, prediction, times, finishedIo, started, pendingIoCalls, minimized, queue,
                    gvt, runningThread, expired>>
    BY DEF tick, timers, io, slots
  <1>2. now' \in 0..MaxReal
    BY ParametersAssumption DEF tick, IoInv, TypeOK
  <1>3. TypeOK'
    BY <1>1, <1>2 DEF IoInv, TypeOK
  <1>4. PendingIsCounted' /\ ThreadPlaces' /\ CallStates'
    BY <1>1 DEF IoInv, PendingIsCounted, PendingCalls, ThreadPlaces, CallStates, PlaceOf, CallStateOf,
                protocolOf
  <1>5. PredictionIsAccounted'
    BY <1>1 DEF IoInv, PredictionIsAccounted, getTotalTimePredicted
  <1> QED BY <1>3, <1>4, <1>5 DEF IoInv

LEMMA StutterStep ==
  ASSUME IoInv, UNCHANGED vars
  PROVE  IoInv'
  <1>1. TypeOK'
    BY DEF IoInv, TypeOK, vars
  <1>2. ThreadPlaces' /\ CallStates' /\ PendingIsCounted'
    BY DEF IoInv, ThreadPlaces, CallStates, PlaceOf, CallStateOf, PendingIsCounted, PendingCalls,
           protocolOf, vars
  <1>3. PredictionIsAccounted'
    BY DEF IoInv, PredictionIsAccounted, getTotalTimePredicted, vars
  <1> QED BY <1>1, <1>2, <1>3 DEF IoInv

LEMMA IoStep ==
  ASSUME IoInv, [Next]_vars
  PROVE  IoInv'
  <1>1. CASE tick
    BY <1>1, TickStep
  <1>2. CASE invalidateExpiredIoPredictions
    BY <1>2, InvalidateStep
  <1>3. CASE UNCHANGED vars
    BY <1>3, StutterStep
  <1>4. ASSUME NEW t \in Threads, ownStep(t)
        PROVE  IoInv'
    <2>1. CASE onStart(t)
      BY <2>1, StartNoneStep, StartSerialStep, StartNormalStep DEF onStart
    <2>2. CASE endIo(t)
      BY <2>2, EndNoneStep, EndSerialStep, EndParallelStep DEF endIo
    <2> QED BY <1>4, <2>1, <2>2, EndStep, EntryStep, StartLaxStep, LaxIoStep, ClocksStep, ExitStep,
               SuspendCurrentStep, CommitStep DEF ownStep
  <1>5. ASSUME NEW t \in Threads,
               onSignalledFromScheduler(t) \/ setRunningThread(t) \/ continueThread(t)
        PROVE  IoInv'
    BY <1>5, SignalStep, SetRunningStep, ResumeStep, ExpireStep DEF continueThread, Top
  <1> QED BY <1>1, <1>2, <1>3, <1>4, <1>5 DEF Next

LEMMA IoInvariant == Spec => []IoInv
  BY IoInitEstablishes, IoStep, PTL DEF Spec

-----------------------------------------------------------------------------
\* However often the scheduler extends a prediction, for the thread on top of
\* the queue and for those behind it, whenever a call returns meanwhile, the
\* clock of a thread in I/O is ahead by exactly what endIo takes back.
THEOREM PredictionsAreAccounted == Spec => []PredictionIsAccounted
  <1>1. IoInv => PredictionIsAccounted
    BY DEF IoInv
  <1> QED BY <1>1, IoInvariant, PTL

\* Under every protocol no thread in I/O is lost or is queued while it runs,
\* the time slot is the short one exactly while predicted or learning calls
\* are pending, and a thread in a serial system call has the core.
THEOREM IoSchedulingIsSound == Spec => []IoThreadsAreScheduled
  <1>1. ASSUME IoInv
        PROVE  IoThreadsAreScheduled
    <2>1. NoThreadIsLost /\ QueuedThreadsWait /\ SystemCallIsSerial
      <3>1. /\ queue \subseteq Threads
            /\ \A t \in Threads : state[t] \in {"RUNNING", "SUSPENDED", "LEARNING_IO", "IN_IO",
                                                "IN_SYSTEM_CALL", "ENDED"}
        BY <1>1 DEF IoInv, TypeOK
      <3>2. \A t \in Threads : PlaceOf(t)
        BY <1>1 DEF IoInv, ThreadPlaces
      <3>3. NoThreadIsLost /\ SystemCallIsSerial
        BY <3>1, <3>2 DEF PlaceOf, NoThreadIsLost, SystemCallIsSerial
      <3>4. QueuedThreadsWait
        BY <3>1, <3>2 DEF PlaceOf, QueuedThreadsWait
      <3> QED BY <3>3, <3>4
    <2>2. TimeslotIsMinimizedDuringIo
      BY <1>1 DEF IoInv, PendingIsCounted, PendingCalls, TimeslotIsMinimizedDuringIo
    <2> QED BY <1>1, <2>1, <2>2 DEF IoInv, IoThreadsAreScheduled
  <1> QED BY <1>1, IoInvariant, PTL
=============================================================================
