--------------------------- MODULE MetricProvider ---------------------------
(***************************************************************************)
(* MetricProvider<DataPointType> (src/smart_app/src/MetricProvider.h), the *)
(* second DataStreamWorker SmartApp registers.  It asks for one second of *)
(* samples (sample_rate of them) at a time and keeps nothing behind.  Its  *)
(* steady-state calculation, publishData and resetInfos do nothing, so the *)
(* only state it changes is the read request it hands back.               *)
(***************************************************************************)
EXTENDS Integers

CONSTANT SampleRate   \* PowerMetaData::sample_rate

ASSUME SampleRate \in Nat \ {0}

VARIABLE infos   \* read_infos of the distributor, one NextReadInfos per worker

(* nextPeriod(data_point_id): the next second of samples.                 *)
NextPeriod(id) == [keep |-> 0, read |-> SampleRate, next |-> id + SampleRate]

(* workOnDataPoints on a non-empty chunk: calculateSteadyStateData only   *)
(* asserts the chunk is one second long, then the next period is asked.  *)
WorkOnDataPoints(w, vals, id) ==
  infos' = [infos EXCEPT ![w] = NextPeriod(id)]

=============================================================================
