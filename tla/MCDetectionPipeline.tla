-------------------------- MODULE MCDetectionPipeline --------------------------
(***************************************************************************)
(* Model-checking instances of DetectionPipeline.  One line period is one  *)
(* sample and a detection chunk five samples, so a stream of a few dozen   *)
(* samples holds the first ring fill, several compared chunks and a whole  *)
(* event window; every switch position of the stream is explored.         *)
(***************************************************************************)
EXTENDS DetectionPipeline

(* SmartApp's constructor: addWorker(event_detector), addWorker(metric_provider). *)
SmartAppWorkers == <<"detector", "metric">>

(* The event detector tests register the detector alone.                  *)
DetectorOnly == <<"detector">>

=============================================================================
