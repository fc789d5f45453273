---------------------------- MODULE SampleQueue ----------------------------
(***************************************************************************)
(* AsyncDataQueue<DataPointType>, the bounded sample queue between the     *)
(* input source thread and the distributor loop.  Its source is not part   *)
(* of the repository, so it is modelled from the contract of spec.md 4.1:  *)
(*   - addDataPoints blocks while the queue holds QueueCapacity samples;   *)
(*   - popDataPoints(n) blocks until a sample is available or the stream   *)
(*     ended and then returns up to n samples (fewer if fewer are there);  *)
(*   - notifyStreamEnd marks that no more samples come;                    *)
(*   - discardRestOfStream wakes everybody and empties the storage.        *)
(* Samples are the stream positions they carry.                            *)
(***************************************************************************)
EXTENDS Integers, Sequences

CONSTANT QueueCapacity   \* the maximum size the writer waits on

ASSUME QueueCapacity \in Nat \ {0}

VARIABLES
  q,          \* the samples in the queue, oldest first
  ended,      \* notifyStreamEnd() was called
  discarded   \* discardRestOfStream() was called

queueVars == <<q, ended, discarded>>

Init ==
  /\ q = <<>>
  /\ ended = FALSE
  /\ discarded = FALSE

(* addDataPoints(begin, end): waits while the queue is full; once the     *)
(* stream was discarded the writer is woken and its samples are dropped.  *)
AddDataPoints(items) ==
  \/ /\ discarded
     /\ UNCHANGED queueVars
  \/ /\ ~discarded
     /\ Len(q) < QueueCapacity
     /\ q' = q \o items
     /\ UNCHANGED <<ended, discarded>>

(* popDataPoints wakes up when a sample is there or the stream is over.   *)
CanPop == q # <<>> \/ ended \/ discarded

PopCount(n) == IF n < Len(q) THEN n ELSE Len(q)

(* The samples popDataPoints(begin, begin + n) hands out.                 *)
Popped(n) == SubSeq(q, 1, PopCount(n))

PopDataPoints(n) ==
  /\ CanPop
  /\ q' = SubSeq(q, PopCount(n) + 1, Len(q))
  /\ UNCHANGED <<ended, discarded>>

NotifyStreamEnd ==
  /\ ended' = TRUE
  /\ UNCHANGED <<q, discarded>>

DiscardRestOfStream ==
  /\ discarded' = TRUE
  /\ q' = <<>>
  /\ UNCHANGED ended

=============================================================================
