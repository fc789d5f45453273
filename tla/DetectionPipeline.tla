--------------------------- MODULE DetectionPipeline ---------------------------
(***************************************************************************)
(* The detection half of the nofare server (src/nofare_app/src/server/     *)
(* Init.h, run() built with USE_BLUED): three threads around one           *)
(* AsyncDataQueue.                                                         *)
(*   - the BluedHdf5InputSource runner reads the data set buffer_size      *)
(*     samples at a time and pushes them (BluedHdf5InputSource.cpp);       *)
(*   - the main thread loops loopWorkersOnce of SmartApp's distributor     *)
(*     until shutdown_nofare_app is set or a pass runs no worker, then     *)
(*     stops the input source and waits for its thread;                   *)
(*   - the message loop sets shutdown_nofare_app on a shutdown command    *)
(*     and returns; run() joins it only after a clean shutdown.            *)
(* The data set holds StreamLength samples whose level switches from 0 to  *)
(* 1 at position step (or never, NoStep).                                  *)
(***************************************************************************)
EXTENDS DataStreamDistributor

CMD == INSTANCE Commands

CONSTANTS
  StreamLength,     \* data_set_size[0], the samples in the BLUED file
  ReadBufferSize    \* BluedHdf5InputSource::buffer_size

ASSUME /\ StreamLength \in Nat \ {0}
       /\ ReadBufferSize \in Nat \ {0}

VARIABLES
  ppc,        \* where the runner thread is: "read", "push" or "done"
  offset,     \* current_offset[0]
  chunk,      \* the samples the last readOnce read into buffer
  reading,    \* continue_reading
  shutdown,   \* shutdown_nofare_app
  msg         \* messageQueueThread: "receive", "returned" or "joined"

sourceVars == <<ppc, offset, chunk, reading>>
vars == <<streamVars, sourceVars, shutdown, msg>>

Positions == 0..StreamLength - 1
Steps == Positions \cup {NoStep}

Init ==
  /\ StreamInit(Steps)
  /\ ppc = "read"
  /\ offset = 0
  /\ chunk = 0
  /\ reading = TRUE
  /\ shutdown = FALSE
  /\ msg = "receive"

-----------------------------------------------------------------------------
(* The input source thread.                                               *)

(* Mutant of ReadOnce: read_count is not cut to the rest of the file.    *)
ReadOnceUnclamped ==
  LET remaining == StreamLength - offset
  IN  /\ ppc = "read"
      /\ reading
      /\ chunk' = ReadBufferSize
      /\ reading' = ~(ReadBufferSize > remaining)
      /\ ppc' = "push"
      /\ UNCHANGED <<streamVars, offset, shutdown, msg>>

(* readOnce: reads buffer_size samples, or the rest of the file, in which *)
(* case continue_reading is cleared.                                      *)
ReadOnce ==
  LET remaining == StreamLength - offset
  IN  /\ ppc = "read"
      /\ reading
      /\ chunk' = IF ReadBufferSize > remaining THEN remaining ELSE ReadBufferSize
      /\ reading' = ~(ReadBufferSize > remaining)
      /\ ppc' = "push"
      /\ UNCHANGED <<streamVars, offset, shutdown, msg>>

(* writeBufferToDataSet hands the samples to addDataPoints, which blocks  *)
(* while the queue is full; then readOnce advances current_offset.        *)
WriteBufferToDataSet ==
  /\ ppc = "push"
  /\ SQ!AddDataPoints([i \in 1..chunk |-> offset + i - 1])
  /\ offset' = offset + chunk
  /\ ppc' = "read"
  /\ UNCHANGED <<infos, detected, requested, ring, events, distributorVars,
                 chunk, reading, shutdown, msg>>

(* run: the read loop ends once continue_reading is false, and the end of *)
(* the stream is announced.                                               *)
SourceRunEnds ==
  /\ ppc = "read"
  /\ ~reading
  /\ SQ!NotifyStreamEnd
  /\ ppc' = "done"
  /\ UNCHANGED <<infos, detected, requested, ring, events, distributorVars,
                 offset, chunk, reading, shutdown, msg>>

(* std::terminate ends every thread of the process.                      *)
SourceStep == dpc # "aborted" /\ (ReadOnce \/ WriteBufferToDataSet \/ SourceRunEnds)

-----------------------------------------------------------------------------
(* The main thread.                                                       *)

(* The while loop of run(): it tests shutdown_nofare_app before a pass    *)
(* and breaks when loopWorkersOnce returned false.                        *)
RunLoop ==
  /\ \/ /\ dpc = "idle"
        /\ dpc' = IF shutdown THEN "stopped" ELSE "read"
     \/ /\ dpc = "return"
        /\ dpc' = IF executed THEN "idle" ELSE "stopped"
  /\ UNCHANGED <<q, ended, discarded, infos, detected, requested, ring, events,
                 buf, front, widx, executed, served, ub, step, sourceVars, shutdown, msg>>

(* input_source.stopNow(): continue_reading = false and the queue drops   *)
(* what it holds and wakes the blocked writer.  stopThreads and           *)
(* stopModelStorageThread follow (DataClassifier, ModelStorage).          *)
StopNow ==
  /\ dpc = "stopped"
  /\ reading' = FALSE
  /\ SQ!DiscardRestOfStream
  /\ dpc' = "joinmsg"
  /\ UNCHANGED <<infos, detected, requested, ring, events, buf, front, widx,
                 executed, served, ub, step, ppc, offset, chunk, shutdown, msg>>

(* Mutant of JoinMessageQueueThread: the thread is joined whenever it is  *)
(* joinable, clean shutdown or not.                                       *)
JoinMessageQueueThreadAlways ==
  /\ dpc = "joinmsg"
  /\ msg = "returned"
  /\ msg' = "joined"
  /\ dpc' = "exiting"
  /\ UNCHANGED <<q, ended, discarded, infos, detected, requested, ring, events,
                 buf, front, widx, executed, served, ub, step, sourceVars, shutdown>>

(* if (messageQueueThread.joinable() && shutdown_nofare_app) join(): a    *)
(* clean shutdown waits for messageLoop to return; otherwise the thread,  *)
(* blocked in receive, is left joinable.                                  *)
JoinMessageQueueThread ==
  /\ dpc = "joinmsg"
  /\ \/ /\ shutdown
        /\ msg = "returned"
        /\ msg' = "joined"
     \/ /\ ~shutdown
        /\ UNCHANGED msg
  /\ dpc' = "exiting"
  /\ UNCHANGED <<q, ended, discarded, infos, detected, requested, ring, events,
                 buf, front, widx, executed, served, ub, step, sourceVars, shutdown>>

(* cleanUp(0) and return 0: the locals are destroyed in reverse order.    *)
(* ~std::thread of a still joinable messageQueueThread calls              *)
(* std::terminate before the input source is destroyed.                   *)
ReturnFromRun ==
  /\ dpc = "exiting"
  /\ dpc' = IF msg = "joined" THEN "joining" ELSE "aborted"
  /\ UNCHANGED <<q, ended, discarded, infos, detected, requested, ring, events,
                 buf, front, widx, executed, served, ub, step, sourceVars, shutdown, msg>>

(* ~BluedHdf5InputSource at the end of run(): stopNow again, then the     *)
(* runner thread is joined.                                               *)
JoinSource ==
  /\ dpc = "joining"
  /\ ppc = "done"
  /\ dpc' = "exited"
  /\ UNCHANGED <<q, ended, discarded, infos, detected, requested, ring, events,
                 buf, front, widx, executed, served, ub, step, sourceVars, shutdown, msg>>

MainStep ==
  \/ DistributorStep /\ UNCHANGED <<sourceVars, shutdown, msg>>
  \/ RunLoop
  \/ StopNow
  \/ JoinMessageQueueThread
  \/ ReturnFromRun
  \/ JoinSource

-----------------------------------------------------------------------------
(* The client's shutdownCommand: ShutdownCommand().serialize(), sent with *)
(* priority 1.                                                            *)
ShutdownMessage == CMD!SerializeShutdown

(* The message loop thread: the shutdown message, recognised by its       *)
(* prefix, sets the flag and ends messageLoop; the other commands do not  *)
(* touch the detection pipeline.                                          *)
ReceiveShutdown ==
  /\ LET m == ShutdownMessage
     IN  ~CMD!IsAddLabelCommand(m) /\ ~CMD!IsReclassifyCommand(m)
         /\ CMD!IsShutDownCommand(m)
  /\ msg = "receive"
  /\ dpc \notin {"exited", "aborted"}
  /\ shutdown' = TRUE
  /\ msg' = "returned"
  /\ UNCHANGED <<streamVars, sourceVars>>

(* The process has left run(), or std::terminate ended it; the state no   *)
(* longer changes.                                                        *)
Terminated ==
  /\ \/ dpc = "exited" /\ ppc = "done"
     \/ dpc = "aborted"
  /\ UNCHANGED vars

Next == SourceStep \/ MainStep \/ ReceiveShutdown \/ Terminated

(* Both the runner and the main thread are OS threads the scheduler keeps *)
(* running; a shutdown command may never come.                            *)
Spec == Init /\ [][Next]_vars /\ WF_vars(SourceStep) /\ WF_vars(MainStep)

-----------------------------------------------------------------------------
(* Properties.                                                            *)

M == Det!MinDataPointsNeeded

TypeOK ==
  /\ q \in Seq(Positions)
  /\ buf \in Seq(Positions)
  /\ {ended, discarded, detected, executed, reading, shutdown} \subseteq BOOLEAN
  /\ front \in 0..StreamLength
  /\ infos \in [Workers -> [keep : Nat, read : Nat, next : Int]]
  /\ requested \in Int
  /\ ring \in Seq(0..Det!RmsScale)
  /\ events \in Seq([id : Int, data : Seq({0, 1})])
  /\ dpc \in {"idle", "read", "work", "free", "return", "stopped", "joinmsg", "exiting",
             "joining", "exited", "aborted"}
  /\ msg \in {"receive", "returned", "joined"}
  /\ widx \in Workers
  /\ ppc \in {"read", "push", "done"}
  /\ offset \in 0..StreamLength
  /\ chunk \in 0..ReadBufferSize
  /\ step \in Steps

(* No data loss or reordering (spec 8): every workOnDataPoints call of    *)
(* executeWorkerOnce gets exactly the read_number_of_data_points samples *)
(* starting at the worker's next_read_location, so freeUnusedBuffer never *)
(* dropped a sample a worker's keep still asked for and the slice never   *)
(* ran past the deque.                                                    *)
ServedExactly ==
  served # NoServe =>
    /\ served.id = served.req
    /\ served.data = [i \in 1..served.read |-> served.req + i - 1]

(* The first sample of the detection chunk an event was found in:         *)
(* getEventData asked for id - before + per_period.                       *)
DetectionChunk(e) == e.id + BeforeEvent - PerPeriod

(* Detection is sound (spec 8): a stream without a switch yields no event *)
(* and a single switch at most one; every event of EventDetector comes    *)
(* from a detection chunk that ends after the switch.                     *)
DetectionSound ==
  /\ Len(events) <= 1
  /\ \A i \in 1..Len(events) :
       step # NoStep /\ step < DetectionChunk(events[i]) + M

(* The first chunk compared with a full previous_rms, and the chunk of    *)
(* the detector's regular grid that holds position p.                     *)
FirstComparedChunk == BeforeEvent + M
GridChunk(p) == FirstComparedChunk + M * ((p - FirstComparedChunk) \div M)

(* A switch the detector must see: it lies in a compared chunk that the   *)
(* stream covers, and so does the event window asked for from it.         *)
Detectable ==
  /\ step # NoStep
  /\ step >= FirstComparedChunk
  /\ GridChunk(step) + M <= StreamLength
  /\ GridChunk(step) + PerPeriod + OfEvent <= StreamLength

(* Detection is complete: when the main loop ends on its own after the    *)
(* whole stream went through the queue, a detectable switch was published *)
(* as an event.                                                           *)
DetectableStepReported ==
  (dpc = "stopped" /\ ~shutdown /\ ended /\ q = <<>> /\ Detectable)
    => events # <<>>

(* The nofare server stops: with the runner and the main thread scheduled *)
(* fairly, the process always ends, shutdown command or not: run() gets   *)
(* through the input source's destructor, or, when the loop ended without *)
(* a shutdown command, the messageQueueThread it does not join (Init.h    *)
(* 118) ends it with std::terminate instead of hanging in the join.       *)
Termination == <>(dpc \in {"exited", "aborted"})

(* loopWorkersOnce returns false only when no worker ran and the queue    *)
(* has no more data (spec 4.2), so run() leaves its loop early only on a  *)
(* shutdown command.                                                      *)
LoopStopsOnlyAtStreamEnd ==
  (dpc = "stopped" /\ ~shutdown) => (ended /\ q = <<>>)

(* The distributor never reads or erases outside its std::deque and never *)
(* resizes it to a wrapped std::size_t.                                   *)
NoUndefinedBehaviour == ub = {}

(* Spec 8: the event's pre-event slice (data_points_stored_before_event   *)
(* samples) is uniformly the old level and its event slice uniformly the  *)
(* new one.                                                               *)
EventSlicesUniform ==
  \A i \in 1..Len(events) :
    \A k \in 1..Len(events[i].data) :
      events[i].data[k] = IF k <= BeforeEvent THEN 0 ELSE 1

(* Spec 8's scenario puts the event boundary at the step: an event's      *)
(* samples hold at least one sample of the new level.  getEventData        *)
(* anchors the window at the detection chunk, so a switch in the chunk's   *)
(* last samples falls after the window's end.                             *)
EventHoldsSwitch ==
  \A i \in 1..Len(events) :
    \E k \in 1..Len(events[i].data) : events[i].data[k] = 1

=============================================================================
