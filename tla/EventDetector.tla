---------------------------- MODULE EventDetector ----------------------------
(***************************************************************************)
(* EventDetector<DataPointType> (src/event_detector/src/EventDetector.h),  *)
(* the DataStreamWorker that finds switch events.  Each detection chunk's  *)
(* RMS is compared with the median of the RMS values kept in previous_rms; *)
(* a crossing makes the detector ask the distributor, back-dated, for the  *)
(* whole pre/post event window, and the next call with exactly that window *)
(* publishes the event.                                                    *)
(*                                                                         *)
(* Data abstraction: a sample is 0 (the baseline) or 1 (the switched-on    *)
(* level).  RootMeanSquare is the share of 1-samples scaled by RmsScale:   *)
(* it orders chunks exactly as the real RMS does (the square root is       *)
(* monotone), and the detection threshold is expressed in the same scale.  *)
(***************************************************************************)
EXTENDS Integers, Sequences, TLC

CONSTANTS
  PerPeriod,      \* PowerMetaData::dataPointsPerPeriod() = sample_rate / frequency
  CompareAfter,   \* compare_after, the detection chunk size
  BeforeEvent,    \* data_points_stored_before_event
  OfEvent,        \* data_points_stored_of_event
  Threshold       \* threshold, in RootMeanSquare units

ASSUME /\ PerPeriod \in Nat \ {0}
       /\ CompareAfter \in Nat
       /\ BeforeEvent \in Nat
       /\ OfEvent \in Nat
       /\ Threshold \in Nat

VARIABLES
  infos,      \* read_infos of the distributor, one NextReadInfos per worker
  detected,   \* detected_an_event
  requested,  \* requested_data_point_id
  ring,       \* previous_rms, oldest first
  events      \* the events published through the event_detected signal

detectorVars == <<detected, requested, ring, events>>

NumberOfRms == 4   \* number_of_rms

(* minDataPointsNeeded(): the length of a detection chunk.                *)
MinDataPointsNeeded ==
  LET forMedian == NumberOfRms * PerPeriod
  IN  (IF forMedian > CompareAfter THEN forMedian ELSE CompareAfter) + PerPeriod

RmsScale == MinDataPointsNeeded * PerPeriod

NextReadInfos(keep, read, next) == [keep |-> keep, read |-> read, next |-> next]

(* The four read requests of the detector.                                *)
FirstDetectionPeriod(id) ==
  NextReadInfos(BeforeEvent, MinDataPointsNeeded, id + BeforeEvent)

NextDetectionPeriod(id) ==
  NextReadInfos(BeforeEvent, MinDataPointsNeeded, id + MinDataPointsNeeded)

EventData(id) ==
  NextReadInfos(0, BeforeEvent + OfEvent, id - BeforeEvent + PerPeriod)

DataAfterEvent(id) ==
  NextReadInfos(BeforeEvent, MinDataPointsNeeded, id + BeforeEvent + OfEvent)

(* Every get...() stores its next_read_location in requested_data_point_id *)
(* and the distributor stores the whole request in read_infos[w].          *)
Reply(w, info) ==
  /\ infos' = [infos EXCEPT ![w] = info]
  /\ requested' = info.next

(* Algorithms::rootMeanSquareOfAmpere over a chunk of samples.            *)
RootMeanSquare(vals) ==
  (Len(SelectSeq(vals, LAMBDA v : v = 1)) * RmsScale) \div Len(vals)

(* initializePreviousRMS: the RMS of each of the first number_of_rms      *)
(* periods of the chunk.                                                  *)
PeriodRms(vals) ==
  [i \in 1..NumberOfRms |->
     RootMeanSquare(SubSeq(vals, (i - 1) * PerPeriod + 1, i * PerPeriod))]

(* Mutant of MedianPrevRms: nth_element at size() - 1, the largest.      *)
MedianPrevRmsLast(r) == IF r = <<>> THEN 0 ELSE SortSeq(r, <)[Len(r)]

(* getMedianPrevRMS: nth_element at size/2 of a copy of previous_rms.     *)
MedianPrevRms(r) == IF r = <<>> THEN 0 ELSE SortSeq(r, <)[Len(r) \div 2 + 1]

(* detectEvent pushes the chunk's RMS first, then either drops the oldest *)
(* value or, while the history is short, fills it from the chunk.         *)
PushedRms(vals) == Append(ring, RootMeanSquare(vals))

RingAfterPush(vals) ==
  LET r == PushedRms(vals)
  IN  CASE Len(r) > NumberOfRms -> Tail(r)
        [] Len(r) < NumberOfRms -> r \o PeriodRms(vals)
        [] OTHER                -> r

EventFound(vals) ==
  /\ Len(PushedRms(vals)) >= NumberOfRms
  /\ RootMeanSquare(vals) - Threshold > MedianPrevRms(RingAfterPush(vals))

(* workOnDataPoints, first branch: the requested window arrived, so the   *)
(* event is created from it and published, and detection resumes after it.*)
(* createEvent: the whole window becomes the event's data                 *)
(* (Event::createEvent, with event_id boost::none), its time that of      *)
(* sample id + data_points_stored_before_event.  It throws when the       *)
(* window is shorter than before + of event samples; ServedExactly shows  *)
(* that a window is always served whole, so the throw is left out.        *)
EventLength == BeforeEvent + OfEvent
CanCreateEvent(vals) == Len(vals) >= EventLength
CreateEvent(vals, id) == [id |-> id, data |-> vals]

EmitEvent(w, vals, id) ==
  /\ detected
  /\ requested = id
  /\ CanCreateEvent(vals)
  /\ detected' = FALSE
  /\ events' = Append(events, CreateEvent(vals, id))
  /\ Reply(w, DataAfterEvent(id))
  /\ UNCHANGED ring

(* Mutant of Detect: previous_rms is not cleared on a detection.         *)
DetectKeepingRing(w, vals, id) ==
  /\ ~(detected /\ requested = id)
  /\ IF EventFound(vals)
       THEN /\ ring' = RingAfterPush(vals)
            /\ detected' = TRUE
            /\ Reply(w, EventData(id))
       ELSE /\ ring' = RingAfterPush(vals)
            /\ UNCHANGED detected
            /\ Reply(w, NextDetectionPeriod(id))
  /\ UNCHANGED events

(* workOnDataPoints, second branch: detectEvent on a detection chunk.     *)
Detect(w, vals, id) ==
  /\ ~(detected /\ requested = id)
  /\ IF EventFound(vals)
       THEN /\ ring' = <<>>
            /\ detected' = TRUE
            /\ Reply(w, EventData(id))
       ELSE /\ ring' = RingAfterPush(vals)
            /\ UNCHANGED detected
            /\ Reply(w, NextDetectionPeriod(id))
  /\ UNCHANGED events

WorkOnDataPoints(w, vals, id) ==
  \/ EmitEvent(w, vals, id)
  \/ Detect(w, vals, id)

=============================================================================
