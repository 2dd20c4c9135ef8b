---------------------------- MODULE IoPrediction ----------------------------
(***************************************************************************)
(* The prediction of the duration of I/O calls from the durations measured *)
(* before.  A predictor keeps one prediction method (a cyclic buffer, or a *)
(* mean) per number of threads in I/O and per invocation point or          *)
(* operation.  Only the counter of the threads in I/O and the registration *)
(* of new points are guarded by locks of their own; a prediction method is *)
(* used under the key of the calling thread, which keeps the scheduler     *)
(* away and not the other threads: their updates of one buffer interleave. *)
(*                                                                         *)
(* Sources: vex/io (IoPredictor, PredictionMethod,                         *)
(* PredictionMethodFactory, IoRecognizer, IoState).  IoLogging has the      *)
(* loggers; the regressions and the normal sampling are left out.          *)
(***************************************************************************)
EXTENDS Integers, FiniteSets, Sequences, Functions

CONSTANTS
  IoThreads,
  Points,        \* invocation points, or I/O operations
  NoPoint,       \* the only "point" of a GlobalIoPrediction
  NoSlot,
  Configurations,\* <<level, method>>: "global", "state" or "operation", and
                 \* "replay", "avg", "median", "min", "max", "cmean", "markov"
  MaxParallel,   \* level -> maxNumberOfThreadsPerformingIoInParallel
  BufferSize,    \* circular_buffersize
  Threshold,     \* of the EmpiricalRecognizer
  Durations,     \* possible durations of a call
  MaxCalls,      \* bound: calls of all threads
  MaxRuns        \* bound: runs that import what the run before has exported

ASSUME ParametersAssumption ==
  /\ Configurations \subseteq {"global", "state", "operation"}
                    \X {"replay", "avg", "median", "min", "max", "cmean", "markov"}
  /\ BufferSize \in Nat \ {0} /\ Threshold \in Nat /\ Durations \subseteq Nat \ {0}
  /\ MaxCalls \in Nat /\ MaxRuns \in Nat \ {0} /\ NoPoint \notin Points
\* The index of an operation-aware predictor is not checked, and goes up to the
\* number of threads.
ASSUME ParallelAssumption ==
  /\ MaxParallel["global"] >= Cardinality(IoThreads)
  /\ MaxParallel["operation"] > Cardinality(IoThreads)
  /\ MaxParallel["state"] > 0

Cells == 0..(BufferSize - 1)
Slots == (0..(Cardinality(IoThreads) + 1)) \X (Points \cup {NoPoint})
ChainStates == {0, 1}   \* of the Markov chain (markovStates = 2)

VARIABLES
  level, method,  \* the configuration
  threadsInIo,
  registered,     \* slots that have a prediction method
  size,           \* slot -> CyclicBufferBased::size, or that of the mean
  buffer,         \* slot -> its measurements; cell 0 of a mean is the total
  cursor,         \* slot -> CyclicBufferBased::index
  temp,           \* slot -> MedianCyclicBuffer::tempSortingBuffer
  chain,          \* slot -> state of its Markov chain, -1 at first
  bucketOfElement,\* slot -> cell -> state, -1 at first
  bucketSizes,    \* slot -> state -> size
  training,       \* slot -> thread that holds MarkovModulatedProcess::spin
  doing,          \* thread -> where it is in its call
  point,          \* thread -> invocation point of its call
  pm,             \* thread -> slot of its lastIoPredictionMethod
  prediction,     \* thread -> lastIoPrediction
  cached,         \* thread -> recognizingIoAsCached
  spent,          \* thread -> duration of its call
  loaded,         \* thread -> value it has read and is about to replace
  calls,
  run,            \* number of the run
  files,          \* slot -> lines of its exported file
  measured        \* slot -> its measurements so far: number and maximum (history)

methods == <<registered, size, buffer, cursor, temp, chain, bucketOfElement, bucketSizes, training>>
frames == <<point, pm, prediction, cached, spent, loaded>>
predictionVars == <<level, method, threadsInIo, methods, doing, frames, calls, run, files, measured>>

Cyclic == method # "cmean"
\* CyclicBufferBased::CyclicBufferBased.
NewBuffer == [c \in Cells |-> 0]
NoBuckets == [c \in Cells |-> -1]

PredictionTypeOK ==
  /\ <<level, method>> \in Configurations
  /\ threadsInIo \in 0..Cardinality(IoThreads) /\ registered \subseteq Slots
  /\ size \in [Slots -> Nat] /\ buffer \in [Slots -> [Cells -> Nat]]
  /\ cursor \in [Slots -> 0..BufferSize] /\ temp \in [Slots -> [Cells -> Nat]]
  /\ chain \in [Slots -> ChainStates \cup {-1}]
  /\ bucketOfElement \in [Slots -> [Cells -> ChainStates \cup {-1}]]
  /\ bucketSizes \in [Slots -> [ChainStates -> Nat]]
  /\ training \in [Slots -> IoThreads \cup {NoSlot}]
  /\ doing \in [IoThreads -> {"user", "entry", "next", "sort", "read", "train", "sample", "io", "exit",
                         "add", "store", "put", "count"}]
  /\ point \in [IoThreads -> Points] /\ pm \in [IoThreads -> Slots \cup {NoSlot}]
  /\ prediction \in [IoThreads -> Nat] /\ cached \in [IoThreads -> BOOLEAN]
  /\ spent \in [IoThreads -> Durations \cup {0}] /\ loaded \in [IoThreads -> Nat]
  /\ calls \in 0..MaxCalls /\ run \in 1..MaxRuns

\* The table of a GlobalIoPrediction and that of an OperationAwareIoPrediction
\* are filled at the start, that of a StateAwareIoPrediction by the calls.
globalSlots == (0..(MaxParallel["global"] - 1)) \X {NoPoint}
operationSlots == (0..(MaxParallel["operation"] - 1)) \X Points
InitialSlots(l) ==
  CASE l = "global" -> globalSlots [] l = "operation" -> operationSlots [] l = "state" -> {}

PredictionInit ==
  /\ \E c \in Configurations : level = c[1] /\ method = c[2]
  /\ threadsInIo = 0 /\ registered = InitialSlots(level)
  /\ size = [s \in Slots |-> 0] /\ cursor = size
  /\ buffer = [s \in Slots |-> NewBuffer] /\ temp = buffer
  /\ chain = [s \in Slots |-> -1]
  /\ bucketOfElement = [s \in Slots |-> NoBuckets]
  /\ bucketSizes = [s \in Slots |-> [b \in ChainStates |-> 0]]
  /\ training = [s \in Slots |-> NoSlot]
  /\ doing = [t \in IoThreads |-> "user"]
  /\ point \in [IoThreads -> Points] /\ \A t, u \in IoThreads : point[t] = point[u]
  /\ pm = [t \in IoThreads |-> NoSlot]
  /\ prediction = [t \in IoThreads |-> 0] /\ spent = prediction /\ loaded = prediction
  /\ cached = [t \in IoThreads |-> FALSE]
  /\ calls = 0 /\ run = 1
  /\ files = [s \in Slots |-> <<>>]
  /\ measured = [s \in Slots |-> [number |-> 0, longest |-> 0]]

PutAt(f, x, v) == [f EXCEPT ![x] = v]
-----------------------------------------------------------------------------
\* importFromFile: every line is a measurement, the empty one after the last
\* line break too.  The file of a mean has a line for the total and one for
\* the size.
importFromFile(lines) ==
  IF lines = <<>> THEN [buffer |-> NewBuffer, size |-> 0]
  ELSE IF method = "cmean" THEN [buffer |-> [NewBuffer EXCEPT ![0] = lines[1]], size |-> lines[2]]
  ELSE [buffer |-> [c \in Cells |-> IF c = 0 THEN 0 ELSE lines[c + 1]], size |-> BufferSize + 1]

\* exportToFile.
exportToFile(s) ==
  IF method = "cmean" THEN <<buffer[s][0], size[s]>>
  ELSE [i \in 1..BufferSize |-> buffer[s][i - 1]]

\* PredictionMethodFactory::getPredictionMethod for the slots new.
getPredictionMethod(new) ==
  /\ registered' = registered \cup new
  /\ size' = [s \in Slots |-> IF s \in new THEN importFromFile(files[s]).size ELSE size[s]]
  /\ buffer' = [s \in Slots |-> IF s \in new THEN importFromFile(files[s]).buffer ELSE buffer[s]]

\* onIoEntryGetIoPrediction: the thread is counted, under the spin lock.
increaseThreadsInIo(t) ==
  /\ doing[t] = "user" /\ calls < MaxCalls
  /\ \E p \in Points : point' = PutAt(point, t, p)
  /\ calls' = calls + 1
  /\ threadsInIo' = threadsInIo + 1
  /\ doing' = PutAt(doing, t, "entry")
  /\ UNCHANGED <<level, method, methods, pm, prediction, cached, spent, loaded, run, files,
                 measured>>

\* The slot that getPredictionValue looks up, at the number of threads it reads
\* now; IoState::getThreadsInIO keeps that within the table.
slotOf(t) ==
  IF level = "global" THEN <<threadsInIo - 1, NoPoint>>
  ELSE IF level = "state" /\ threadsInIo >= MaxParallel[level]
       THEN <<MaxParallel[level] - 1, point[t]>>
       ELSE <<threadsInIo, point[t]>>

\* getPredictionMethodOfInvocationPoint: registered under a mutex.
getPredictionMethodOfInvocationPoint(t) ==
  /\ doing[t] = "entry"
  /\ pm' = PutAt(pm, t, slotOf(t))
  /\ getPredictionMethod(IF level = "state" THEN {slotOf(t)} \ registered ELSE {})
  /\ doing' = PutAt(doing, t, "next")
  /\ UNCHANGED <<level, method, threadsInIo, cursor, temp, chain, bucketOfElement, bucketSizes,
                 training, point, prediction, cached, spent, loaded, calls, run, files,
                 measured>>
-----------------------------------------------------------------------------
Values(s) == Range(buffer[s])
Most(V) == CHOOSE v \in V : \A w \in V : w <= v
Least(V) == CHOOSE v \in V : \A w \in V : v <= w

\* AverageCyclicBuffer::getAverage of a full buffer.
getAverage(s) == FoldFunction(+, 0, buffer[s]) \div BufferSize

\* CyclicBufferBased::getNext predicts from the second round on.
isFull(s) == size[s] > BufferSize

\* Mutant of getValue: the average is the sum.
getValue_Sum(s) ==
  CASE method = "replay" -> buffer[s][cursor[s] % BufferSize]
    [] method = "avg"    -> FoldFunction(+, 0, buffer[s])
    [] method = "min"    -> Least(Values(s))
    [] method = "max"    -> Most(Values(s))

\* getValue of the methods that read the buffer only.
getValue(s) ==
  CASE method = "replay" -> buffer[s][cursor[s] % BufferSize]
    [] method = "avg"    -> getAverage(s)
    [] method = "min"    -> Least(Values(s))
    [] method = "max"    -> Most(Values(s))

\* EmpiricalRecognizer: a call that is predicted to be short is not counted.
isRecognizedAsIoOperation(v) == v = 0 \/ v > Threshold

\* setIoPredictionInfo, and the rest of onIoEntryGetIoPrediction.
predicted(t, v) ==
  /\ prediction' = PutAt(prediction, t, v)
  /\ cached' = PutAt(cached, t, ~isRecognizedAsIoOperation(v))
  /\ threadsInIo' = IF isRecognizedAsIoOperation(v) THEN threadsInIo ELSE threadsInIo - 1
  /\ doing' = PutAt(doing, t, "io")

\* The index after ReplayCyclicBuffer::getValue.
progressed(i) == (i % BufferSize) + 1

\* getNextPrediction: nothing to predict from, the mean, or a method that reads the buffer.
getNextPrediction(t) ==
  /\ doing[t] = "next"
  /\ \/ Cyclic /\ ~isFull(pm[t]) /\ predicted(t, 0) /\ UNCHANGED cursor
     \/ /\ ~Cyclic
        /\ predicted(t, IF size[pm[t]] = 0 THEN 0 ELSE buffer[pm[t]][0] \div size[pm[t]])
        /\ UNCHANGED cursor
     \/ /\ Cyclic /\ isFull(pm[t]) /\ method \notin {"median", "markov"}
        /\ predicted(t, getValue(pm[t]))
        /\ cursor' = IF method = "replay"
                    THEN PutAt(cursor, pm[t], progressed(cursor[pm[t]])) ELSE cursor
  /\ UNCHANGED <<level, method, registered, size, buffer, temp, chain, bucketOfElement, bucketSizes,
                 training, point, pm, spent, loaded, calls, run, files, measured>>
-----------------------------------------------------------------------------
\* One pass of the loop of MedianCyclicBuffer::sort, over data[lo..lo+n-1]: the
\* places the two scans stop at, and whether they have met.
Scan(data, lo, n, i, j) ==
  LET v == data[lo]
      up == CHOOSE k \in (i + 1)..n :
              (k = n \/ data[lo + k] >= v) /\ \A x \in (i + 1)..(k - 1) : data[lo + x] < v
      down == CHOOSE k \in 0..(j - 1) :
              data[lo + k] <= v /\ \A x \in (k + 1)..(j - 1) : data[lo + x] > v
  IN  <<up, down>>

Swap(data, x, y) == [data EXCEPT ![x] = data[y], ![y] = data[x]]

\* The loop: the partitioned array and the place behind its pivot.
Partition[a \in [data : [Cells -> Nat], lo : Nat, n : Nat, i : Nat, j : Nat]] ==
  LET k == Scan(a.data, a.lo, a.n, a.i, a.j)
  IN  IF k[1] >= k[2] THEN <<Swap(a.data, a.lo + k[1] - 1, a.lo), k[1]>>
      ELSE Partition[[a EXCEPT !.data = Swap(a.data, a.lo + k[1], a.lo + k[2]),
                               !.i = k[1], !.j = k[2]]]

\* Mutant of sort: the part behind the pivot stays as it is.
sort_Half[a \in [data : [Cells -> Nat], lo : Nat, n : Nat]] ==
  IF a.n <= 1 THEN a.data
  ELSE LET p == Partition[[data |-> a.data, lo |-> a.lo, n |-> a.n, i |-> 0, j |-> a.n]]
       IN  sort_Half[[data |-> p[1], lo |-> a.lo, n |-> p[2] - 1]]

sortData[a \in [data : [Cells -> Nat], lo : Nat, n : Nat]] ==
  IF a.n <= 1 THEN a.data
  ELSE LET p == Partition[[data |-> a.data, lo |-> a.lo, n |-> a.n, i |-> 0, j |-> a.n]]
       IN  sortData[[data |-> sortData[[data |-> p[1], lo |-> a.lo, n |-> p[2] - 1]],
                     lo |-> a.lo + p[2], n |-> a.n - p[2]]]

\* MedianCyclicBuffer::sort of a full buffer.
sort(data) == sortData[[data |-> data, lo |-> 0, n |-> BufferSize]]

\* MedianCyclicBuffer::getValue: the buffer is copied, sorted and read in an
\* array that the calls of all threads share.
copyBuffer(t) ==
  /\ doing[t] = "next" /\ method = "median" /\ isFull(pm[t])
  /\ temp' = PutAt(temp, pm[t], buffer[pm[t]])
  /\ doing' = PutAt(doing, t, "sort")
  /\ UNCHANGED <<level, method, threadsInIo, registered, size, buffer, cursor, chain,
                 bucketOfElement, bucketSizes, training, frames, calls, run, files, measured>>

sortBuffer(t) ==
  /\ doing[t] = "sort"
  /\ temp' = PutAt(temp, pm[t], sort(temp[pm[t]]))
  /\ doing' = PutAt(doing, t, "read")
  /\ UNCHANGED <<level, method, threadsInIo, registered, size, buffer, cursor, chain,
                 bucketOfElement, bucketSizes, training, frames, calls, run, files, measured>>

readMedian(t) ==
  /\ doing[t] = "read"
  /\ predicted(t, LET d == temp[pm[t]] h == BufferSize \div 2
                  IN  IF BufferSize % 2 = 0 THEN (d[h] + d[h - 1]) \div 2 ELSE d[h])
  /\ UNCHANGED <<level, method, methods, point, pm, spent, loaded, calls, run, files, measured>>
-----------------------------------------------------------------------------
\* MarkovModulatedProcess::getValue takes its mutex; a new round of the buffer
\* trains the chain anew.
startMarkov(t) ==
  /\ doing[t] = "next" /\ method = "markov" /\ isFull(pm[t]) /\ training[pm[t]] = NoSlot
  /\ training' = PutAt(training, pm[t], t)
  /\ \/ /\ chain[pm[t]] = -1 \/ (size[pm[t]] - 1) % BufferSize = 0
        /\ bucketOfElement' = PutAt(bucketOfElement, pm[t], NoBuckets)
        /\ bucketSizes' = PutAt(bucketSizes, pm[t], [b \in ChainStates |-> 0])
        /\ doing' = PutAt(doing, t, "train")
     \/ /\ chain[pm[t]] # -1 /\ (size[pm[t]] - 1) % BufferSize # 0
        /\ doing' = PutAt(doing, t, "sample")
        /\ UNCHANGED <<bucketOfElement, bucketSizes>>
  /\ UNCHANGED <<level, method, threadsInIo, registered, size, buffer, cursor, temp, chain, frames,
                 calls, run, files, measured>>

\* distributeAllInBucket with two states, when all elements are in one bucket:
\* equal elements are told apart by adding 0, 1, 2, ... to them.
Spread(B) == (Most(Range(B)) - Least(Range(B))) \div Cardinality(ChainStates)
differentiated(B) == IF Spread(B) = 0 THEN [c \in Cells |-> B[c] + c] ELSE B
buckets(B) ==
  LET step == IF Spread(B) = 0 THEN BufferSize \div Cardinality(ChainStates) ELSE Spread(B)
  IN  [c \in Cells |-> IF differentiated(B)[c] - Least(Range(B)) < step THEN 0 ELSE 1]
elements(bucket, b) == Cardinality({c \in Cells : bucket[c] = b})

\* The sizes are added to those of the round before.
distributed(bucket, sizes) == [b \in ChainStates |-> sizes[b] + elements(bucket, b)]

\* A round of setStateLimits: an empty bucket takes over the elements of the
\* other one, and the round is repeated while there is one.
setStateLimits(t) ==
  /\ doing[t] = "train"
  /\ LET s == pm[t]
         bucket == buckets(buffer[s])
         sizes == distributed(bucket, bucketSizes[s])
         shift == sizes[0] = 0
         done == sizes[0] # 0 /\ sizes[1] # 0
     IN  /\ buffer' = PutAt(buffer, s, differentiated(buffer[s]))
         /\ bucketOfElement' = PutAt(bucketOfElement, s, IF shift THEN [c \in Cells |-> 0] ELSE bucket)
         /\ bucketSizes' = PutAt(bucketSizes, s, IF shift THEN [b \in ChainStates |-> sizes[1 - b]] ELSE sizes)
         /\ chain' = IF done THEN PutAt(chain, s, bucket[BufferSize - 2]) ELSE chain
         /\ doing' = IF done THEN PutAt(doing, t, "sample") ELSE doing
  /\ UNCHANGED <<level, method, threadsInIo, registered, size, cursor, temp, training, frames, calls,
                 run, files, measured>>

\* getRandomTransitionFrom: a state that followed b in the buffer; the last one
\* if none did, and if the random number is the largest there is.
getRandomTransitionFrom(bucket, b) ==
  {1} \cup {bucket[c + 1] : c \in {c \in Cells : c + 1 \in Cells /\ bucket[c] = b}}

\* sampleMeasurementOfState, and the end of getValue.  A bucket of which the
\* size is too large ends at the assertion, or without it at the first element.
sampleMeasurementOfState(t) ==
  /\ doing[t] = "sample"
  /\ LET s == pm[t]
     IN  /\ \E c \in Cells : bucketOfElement[s][c] = chain[s] /\ predicted(t, buffer[s][c])
         /\ \E b \in getRandomTransitionFrom(bucketOfElement[s], chain[s]) : chain' = PutAt(chain, s, b)
         /\ training' = PutAt(training, s, NoSlot)
  /\ UNCHANGED <<level, method, registered, size, buffer, cursor, temp, bucketOfElement, bucketSizes,
                 point, pm, spent, loaded, calls, run, files, measured>>
-----------------------------------------------------------------------------
\* onIoExitAddRealTimeMeasurement: the thread is no longer counted.
onIoExitAddRealTimeMeasurement(t) ==
  /\ doing[t] = "io"
  /\ \E d \in Durations : spent' = PutAt(spent, t, d)
  /\ threadsInIo' = IF cached[t] THEN threadsInIo ELSE threadsInIo - 1
  /\ doing' = PutAt(doing, t, "exit")
  /\ UNCHANGED <<level, method, methods, point, pm, prediction, cached, loaded, calls, run, files,
                 measured>>

\* addPredictionInfo of the predictor: a global one adds the measurement where
\* the number of threads is now, the others where the prediction came from.
\* The first load of buffer[size++] = v, or of total += v.
addPredictionInfo(t) ==
  /\ doing[t] = "exit"
  /\ LET s == IF level = "global" THEN <<threadsInIo, NoPoint>> ELSE pm[t]
     IN  /\ pm' = PutAt(pm, t, s)
         /\ loaded' = PutAt(loaded, t, IF Cyclic THEN size[s] ELSE buffer[s][0])
         /\ measured' = [measured EXCEPT ![s].number = @ + 1,
                                         ![s].longest = IF @ < spent[t] THEN spent[t] ELSE @]
  /\ doing' = PutAt(doing, t, "store")
  /\ UNCHANGED <<level, method, threadsInIo, methods, point, prediction, cached, spent, calls, run,
                 files>>

\* The new size is stored, or the new total.
storeLoaded(t) ==
  /\ doing[t] = "store"
  /\ \/ Cyclic /\ size' = PutAt(size, pm[t], loaded[t] + 1) /\ UNCHANGED buffer
     \/ ~Cyclic /\ buffer' = [buffer EXCEPT ![pm[t]][0] = loaded[t] + spent[t]] /\ UNCHANGED size
  /\ doing' = PutAt(doing, t, IF Cyclic THEN "put" ELSE "count")
  /\ UNCHANGED <<level, method, threadsInIo, registered, cursor, temp, chain, bucketOfElement,
                 bucketSizes, training, frames, calls, run, files, measured>>

\* The mean reads its size.
loadSize(t) ==
  /\ doing[t] = "count"
  /\ loaded' = PutAt(loaded, t, size[pm[t]])
  /\ doing' = PutAt(doing, t, "put")
  /\ UNCHANGED <<level, method, threadsInIo, methods, point, pm, prediction, cached, spent, calls,
                 run, files, measured>>

\* The measurement is stored, or the size of the mean.  The flags of the call
\* are reset.
putMeasurement(t) ==
  /\ doing[t] = "put"
  /\ \/ /\ Cyclic
        /\ buffer' = [buffer EXCEPT ![pm[t]][loaded[t] % BufferSize] = spent[t]]
        /\ UNCHANGED size
     \/ ~Cyclic /\ size' = PutAt(size, pm[t], loaded[t] + 1) /\ UNCHANGED buffer
  /\ doing' = PutAt(doing, t, "user")
  /\ pm' = PutAt(pm, t, NoSlot) /\ prediction' = PutAt(prediction, t, 0)
  /\ cached' = PutAt(cached, t, FALSE) /\ spent' = PutAt(spent, t, 0) /\ loaded' = PutAt(loaded, t, 0)
  /\ UNCHANGED <<level, method, threadsInIo, registered, cursor, temp, chain, bucketOfElement,
                 bucketSizes, training, point, calls, run, files, measured>>

\* exportMeasurements at the end of a run, and the next run that imports them.
restart ==
  /\ run < MaxRuns /\ \A t \in IoThreads : doing[t] = "user"
  /\ run' = run + 1
  /\ files' = [s \in Slots |-> IF s \in registered THEN exportToFile(s) ELSE files[s]]
  /\ registered' = InitialSlots(level)
  /\ LET import(s) == importFromFile(IF s \in registered' THEN files'[s] ELSE <<>>)
     IN  /\ size' = [s \in Slots |-> import(s).size]
         /\ buffer' = [s \in Slots |-> import(s).buffer]
  /\ cursor' = [s \in Slots |-> 0] /\ temp' = [s \in Slots |-> NewBuffer]
  /\ chain' = [s \in Slots |-> -1] /\ bucketOfElement' = [s \in Slots |-> NoBuckets]
  /\ bucketSizes' = [s \in Slots |-> [b \in ChainStates |-> 0]]
  /\ UNCHANGED <<level, method, threadsInIo, training, doing, frames, calls, measured>>
-----------------------------------------------------------------------------
Over == calls = MaxCalls /\ run = MaxRuns /\ \A t \in IoThreads : doing[t] = "user"

PredictionNext ==
  \/ \E t \in IoThreads :
       \/ increaseThreadsInIo(t)
       \/ getPredictionMethodOfInvocationPoint(t)
       \/ getNextPrediction(t)
       \/ copyBuffer(t) \/ sortBuffer(t) \/ readMedian(t)
       \/ startMarkov(t) \/ setStateLimits(t) \/ sampleMeasurementOfState(t)
       \/ onIoExitAddRealTimeMeasurement(t)
       \/ addPredictionInfo(t) \/ storeLoaded(t) \/ loadSize(t) \/ putMeasurement(t)
  \/ restart
  \/ Over /\ UNCHANGED predictionVars

PredictionSpec == PredictionInit /\ [][PredictionNext]_predictionVars
-----------------------------------------------------------------------------
\* The counter agrees with the threads that are in a call that was not taken
\* for a cached one: a call is counted once and discounted once on every path.
ThreadsInIoIsAccurate ==
  threadsInIo = Cardinality({t \in IoThreads :
                  \/ doing[t] \in {"entry", "next", "sort", "read", "train", "sample"}
                  \/ doing[t] = "io" /\ ~cached[t]})

\* Although the number of threads is read without the lock, and again after
\* other threads have entered and left, the method found is one of the table.
MethodsAreInTheTable == \A t \in IoThreads : pm[t] # NoSlot => pm[t] \in registered

\* A call is predicted only from more measurements than the buffer holds, lost
\* updates of the size included, or from imported ones.
PredictionsAreBasedOnMeasurements ==
  \A t \in IoThreads : Cyclic /\ prediction[t] # 0 /\ doing[t] = "io" /\ run = 1 =>
    measured[pm[t]].number > BufferSize

\* No prediction exceeds the longest call that was measured at its place,
\* whatever the threads do to the shared buffers meanwhile.  The Markov chain
\* adds to equal elements; a mean that loses an update of its size is too large.
PredictionsAreWithinMeasurements ==
  \A t \in IoThreads : Cyclic /\ doing[t] = "io" =>
    prediction[t] <= measured[pm[t]].longest + (IF method = "markov" THEN BufferSize ELSE 0)

\* sort sorts, and keeps the elements.
SortSorts ==
  \A s \in registered : \E data \in {sort(buffer[s])} :
    /\ \A c \in Cells : c > 0 => data[c - 1] <= data[c]
    /\ \A v \in Range(data) \cup Values(s) : elements(data, v) = elements(buffer[s], v)

\* A trained chain has an element to sample in both of its states, and draws
\* among all of them.  (It may count some twice, when values differ by one.)
EveryStateCanBeSampled ==
  \A s \in Slots : chain[s] # -1 /\ (training[s] = NoSlot \/ doing[training[s]] = "sample") =>
    \A b \in ChainStates : 0 < elements(bucketOfElement[s], b)
                      /\ elements(bucketOfElement[s], b) <= bucketSizes[s][b]

\* Threads that share prediction methods without a lock look up the methods of
\* the table they updated, and predict nothing that was not measured: the
\* counter of threads in I/O is exact, medians come from sorted arrays and
\* every state of a chain has a value.
PredictionsComeFromMeasurements ==
  /\ PredictionTypeOK
  /\ ThreadsInIoIsAccurate
  /\ MethodsAreInTheTable
  /\ PredictionsAreBasedOnMeasurements
  /\ PredictionsAreWithinMeasurements
  /\ SortSorts
  /\ EveryStateCanBeSampled
=============================================================================
