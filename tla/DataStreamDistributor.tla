------------------------- MODULE DataStreamDistributor -------------------------
(***************************************************************************)
(* DataStreamDistributor<DataPointType>                                    *)
(* (src/event_detector/src/DataStreamDistributor.h) with the workers       *)
(* SmartApp registers on it.  One call of loopWorkersOnce is a pass:       *)
(*   "read"  readBufferForNextRun pops what the hungriest worker lacks;    *)
(*   "work"  every worker, in registration order, is run while the local   *)
(*           buffer holds the samples it asked for;                        *)
(*   "free"  freeUnusedBuffer drops what no worker needs to keep.          *)
(* The buffer holds stream positions; step decides the sample values.      *)
(***************************************************************************)
EXTENDS Integers, Sequences, FiniteSets, TLC

CONSTANTS
  Registered,      \* the workers in addWorker order: "detector" or "metric"
  SizeTModulus,    \* 2^(bits of std::size_t), bounded for TLC
  Garbage,         \* a sample read from outside the deque
  NoStep,          \* the stream never switches
  PerPeriod, CompareAfter, BeforeEvent, OfEvent, Threshold,
  SampleRate, QueueCapacity

Workers == DOMAIN Registered

ASSUME /\ Registered \in Seq({"detector", "metric"})
       /\ Cardinality({w \in Workers : Registered[w] = "detector"}) <= 1
       /\ SizeTModulus \in Nat \ {0}

VARIABLES
  q, ended, discarded,                       \* AsyncDataQueue
  infos, detected, requested, ring, events,  \* read_infos and EventDetector
  buf,        \* data_queue, the local std::deque of samples
  front,      \* current_global_buffer_pos, the position of buf[1]
  dpc,        \* where the distributor thread is: idle, read, work, free, return, ...
  widx,       \* the worker index j of the loop in loopWorkersOnce
  executed,   \* one_worker_was_executed
  served,     \* the last workOnDataPoints call: worker, request, id and samples
  ub,         \* undefined behaviour met so far
  step        \* the first position with the switched-on level, or NoStep

SQ  == INSTANCE SampleQueue
Det == INSTANCE EventDetector
Met == INSTANCE MetricProvider

distributorVars == <<buf, front, dpc, widx, executed, served, ub, step>>
streamVars == <<q, ended, discarded, infos, detected, requested, ring, events,
                buf, front, dpc, widx, executed, served, ub, step>>

NoServe == [w |-> 0, req |-> 0, read |-> 0, id |-> 0, data |-> <<>>]

(* The value of the sample at position p; samples read from outside the  *)
(* deque are whatever the memory holds (junk).                            *)
SampleValue(p, junk) ==
  CASE p = Garbage                   -> junk
    [] step # NoStep /\ p >= step    -> 1
    [] OTHER                         -> 0

(* addWorker: every worker is first called with no samples at position 0 *)
(* and its answer is its first read request.                              *)
InitialInfos ==
  [w \in Workers |-> IF Registered[w] = "detector"
                       THEN Det!FirstDetectionPeriod(0)
                       ELSE Met!NextPeriod(0)]

StreamInit(steps) ==
  /\ SQ!Init
  /\ infos = InitialInfos
  /\ detected = FALSE
  /\ requested = BeforeEvent
  /\ ring = <<>>
  /\ events = <<>>
  /\ buf = <<>>
  /\ front = 0
  /\ dpc = "idle"
  /\ widx = 1
  /\ executed = FALSE
  /\ served = NoServe
  /\ ub = {}
  /\ step \in steps

(* dataPointsNeededForNextRun: how far the buffer must grow so that the  *)
(* worker wanting the furthest sample can run.                            *)
DataPointsNeededForNextRun ==
  LET ends   == {infos[w].next + infos[w].read : w \in Workers}
      maxEnd == CHOOSE e \in ends : \A f \in ends : e >= f
  IN  maxEnd - Len(buf) - front

(* getIndexInLocalBufferforRead                                          *)
LocalIndex(w) ==
  IF infos[w].next < front THEN 0 ELSE infos[w].next - front

(* data_queue.size() - local_buffer_index, an unsigned subtraction.       *)
Available(w) == (Len(buf) - LocalIndex(w)) % SizeTModulus

HasDataFor(w) == Available(w) >= infos[w].read

(* readBufferForNextRun: the need is a std::size_t, so "<= 0" only stops *)
(* a need of zero; a negative one becomes a resize to a huge size, which  *)
(* throws.  Otherwise the deque grows by what popDataPoints hands out.    *)
ReadBufferForNextRun ==
  LET n == DataPointsNeededForNextRun
  IN  /\ dpc = "read"
      /\ IF n <= 0
           THEN /\ ub' = IF n < 0 THEN ub \cup {"resize to a wrapped size"} ELSE ub
                /\ UNCHANGED <<q, ended, discarded, buf>>
           ELSE /\ SQ!PopDataPoints(n)
                /\ buf' = buf \o SQ!Popped(n)
                /\ UNCHANGED ub
      /\ dpc' = "work"
      /\ widx' = 1
      /\ executed' = FALSE
      /\ UNCHANGED <<infos, detected, requested, ring, events, front, served, step>>

(* executeWorkerOnce: the slice starts at the local index and is          *)
(* min(read, available) long; positions past the deque end are garbage.  *)
ExecuteWorkerOnce(w) ==
  LET local == LocalIndex(w)
      count == IF infos[w].read < Available(w) THEN infos[w].read ELSE Available(w)
      slice == [i \in 1..count |-> IF local + i <= Len(buf) THEN buf[local + i]
                                                          ELSE Garbage]
      id    == front + local
  IN  /\ dpc = "work"
      /\ w = widx
      /\ HasDataFor(w)
      /\ \E junk \in {0, 1} :
           LET vals == [i \in 1..count |-> SampleValue(slice[i], junk)]
           IN  \/ /\ Registered[w] = "detector"
                  /\ Det!WorkOnDataPoints(w, vals, id)
               \/ /\ Registered[w] = "metric"
                  /\ Met!WorkOnDataPoints(w, vals, id)
                  /\ UNCHANGED <<detected, requested, ring, events>>
      /\ served' = [w |-> w, req |-> infos[w].next, read |-> infos[w].read,
                    id |-> id, data |-> slice]
      /\ ub' = IF local + count > Len(buf) THEN ub \cup {"read past end"} ELSE ub
      /\ executed' = TRUE
      /\ UNCHANGED <<q, ended, discarded, buf, front, dpc, widx, step>>

(* The while loops of loopWorkersOnce move on to the next worker once the *)
(* current one lacks samples, and to freeUnusedBuffer after the last.    *)
NextWorker ==
  /\ dpc = "work"
  /\ ~HasDataFor(widx)
  /\ IF widx < Len(Registered)
       THEN widx' = widx + 1 /\ UNCHANGED dpc
       ELSE dpc' = "free" /\ UNCHANGED widx
  /\ UNCHANGED <<q, ended, discarded, infos, detected, requested, ring, events,
                 buf, front, executed, served, ub, step>>

(* Mutant of FreeUnusedBuffer: the earliest needed position forgets the *)
(* keep_number_of_data_points_available of the workers.                   *)
FreeUnusedBufferIgnoringKeep ==
  LET earliest == CHOOSE e \in {infos[w].next : w \in Workers} :
                    \A w \in Workers : e <= infos[w].next
      erased   == earliest - front
  IN  /\ dpc = "free"
      /\ IF earliest <= front
           THEN UNCHANGED <<buf, front, ub>>
           ELSE /\ buf' = IF erased <= Len(buf) THEN SubSeq(buf, erased + 1, Len(buf))
                                                ELSE <<>>
                /\ front' = earliest
                /\ ub' = IF erased <= Len(buf) THEN ub ELSE ub \cup {"erase past end"}
      /\ dpc' = "return"
      /\ UNCHANGED <<q, ended, discarded, infos, detected, requested, ring, events,
                     widx, executed, served, step>>

(* freeUnusedBuffer: erase everything before the earliest position a      *)
(* worker still needs; erasing more than the deque holds is undefined.   *)
(* Then the pass returns one_worker_was_executed to its caller.          *)
FreeUnusedBuffer ==
  LET needs    == {infos[w].next - infos[w].keep : w \in Workers}
      earliest == CHOOSE e \in needs : \A f \in needs : e <= f
      erased   == earliest - front
  IN  /\ dpc = "free"
      /\ IF earliest <= front
           THEN UNCHANGED <<buf, front, ub>>
           ELSE /\ buf' = IF erased <= Len(buf) THEN SubSeq(buf, erased + 1, Len(buf))
                                                ELSE <<>>
                /\ front' = earliest
                /\ ub' = IF erased <= Len(buf) THEN ub ELSE ub \cup {"erase past end"}
      /\ dpc' = "return"
      /\ UNCHANGED <<q, ended, discarded, infos, detected, requested, ring, events,
                     widx, executed, served, step>>

DistributorStep ==
  \/ ReadBufferForNextRun
  \/ \E w \in Workers : ExecuteWorkerOnce(w)
  \/ NextWorker
  \/ FreeUnusedBuffer

=============================================================================
