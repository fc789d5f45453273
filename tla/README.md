# TLA+ models of smart_screen (nofare)

This directory holds TLA+ models of the smart_screen / nofare event-detection
server in `src/`. They are checked with TLC. Each module is translated from
the C++ source. `PROJECT.json` maps every definition to the lines it models,
lists the runs and their mutants, and records the findings and hazards.

## The system

The server, `src/nofare_app/src/server/Init.h` `run()`, has these parts:

| part | source | threads |
|---|---|---|
| input source | `data_loader/src/BluedHdf5InputSource.cpp` (or `nofare_app/src/server/InputSource.cpp`) | its own runner thread |
| bounded sample queue | `AsyncDataQueue` (not in the repository; spec 4.1) | shared |
| stream window distributor | `event_detector/src/DataStreamDistributor.h` | main thread |
| workers: event detector, metric provider | `event_detector/src/EventDetector.h`, `smart_app/src/MetricProvider.h` | main thread |
| online classifier and label manager | `data_analyzer/src/DataClassifier.h`, `EventLabelManager.h` | classifier thread, plus callers |
| command loop | `Init.h` `messageLoop` | message thread |
| process start-up and signals | `nofare_app/src/server/CLIConnection.cpp` `setupMessageQueue`, `cleanUp` | before the threads; signal handlers |
| model persistence | `nofare_app/src/server/ModelSerialization.hpp` | storage thread |

How they interact:
- The input source pushes batches of samples into the queue. `addDataPoints` blocks while the queue is full.
- The main thread repeats `loopWorkersOnce`. Each pass pops what the hungriest worker still lacks and runs each worker while its requested window is in the local deque. Then it erases what no worker keeps.
- Each worker answers with a `NextReadInfos (keep, read, next)`.
- The event detector publishes events through a signal. `SmartApp::onEventDetected` pushes them to the classifier.
- The message thread handles add-label, reclassify and shutdown commands.
- When the loop ends, `run()` stops the input source, stops the classifier ("when done") and the storage thread. It joins the message thread only if a shutdown command ended the loop. It then removes the queue and returns. The destructors of its locals then run: `~std::thread` on a message thread that is still joinable calls `std::terminate`, and otherwise `~BluedHdf5InputSource` joins the input source.

## Modules

| module | models | state (VARIABLES) | actions |
|---|---|---|---|
| `SampleQueue` | AsyncDataQueue (spec_modelled) | `q`, `ended`, `discarded` | `AddDataPoints`, `PopDataPoints`, `NotifyStreamEnd`, `DiscardRestOfStream` |
| `MetricProvider` | MetricProvider::workOnDataPoints / nextPeriod | `infos` | `WorkOnDataPoints` |
| `EventDetector` | EventDetector::workOnDataPoints, detectEvent, the four request builders, the median | `infos`, `detected` (detected_an_event), `requested` (requested_data_point_id), `ring` (previous_rms), `events` | `EmitEvent`, `Detect` |
| `DataStreamDistributor` | addWorker, loopWorkersOnce and its helpers | the above plus `buf` (data_queue), `front` (current_global_buffer_pos), `dpc`, `widx`, `executed`, `served`, `ub`, `step` | `ReadBufferForNextRun`, `ExecuteWorkerOnce(w)`, `NextWorker`, `FreeUnusedBuffer` |
| `DetectionPipeline` | the BLUED runner thread, run()'s loop and shutdown, messageLoop's shutdown command | plus `ppc`, `offset`, `chunk`, `reading` (continue_reading), `shutdown`, `msg` (the message thread: in `receive`, `returned` after the shutdown command, `joined`) | `ReadOnce`, `WriteBufferToDataSet`, `SourceRunEnds`, `RunLoop`, `StopNow`, `JoinMessageQueueThread`, `ReturnFromRun` (to the join of the input source, or to `std::terminate`: `dpc = "aborted"`), `JoinSource`, `ReceiveShutdown` |
| `MCDetectionPipeline` | the TLC instances | | |
| `EventLabelManager` | EventLabelManager's addLabel by id, addLabeledEvent, addClassifiedEvent, addUnLabeledEvent, getEvent, setEvent, findLabelAndAddEvent | none: pure operators on a manager `[labeled, unlabeled]` | |
| `LabelTimes` | the ground-truth set `labels` (`std::set<LabelTimePair, TimePairComparator>`): `compareLabels` with its 2.5 s tolerance, `std::set::insert`, `lower_bound` and `find` as libstdc++ computes them (the position follows from the comparator alone, because the key's comparison is monotone along the tree's order), `loadLabelsFromFile` line by line with its `good()` test, `getEventLabel`, `labelIsForEvent` | none: pure operators on a set held as the sequence of its elements in order; `LoadFrom` is RECURSIVE over the lines of a file | |
| `DataClassifier` | DataClassifier's runner (run), pushEvent, stopAnalyzingWhenDone / Immediately, addLabelById, reclassify, processOneEvent, regenerateMatrix | `lm` (event_label_manager), `events` (the pushed events), `cont` (continue_analyzing), `holder` (events_mutex), `waiting` (events_empty_variable), `rpc`, `opc`, `pushed`, `indexed` (what nns was built from), `crashed`, `lastLabel`, `cmds`, `asked` (the label the client was given), `labels` (the ground-truth set, loaded in `Init` from one of `LabelFiles`, as `startClassification(label_location)` does before it starts the runner) | runner: `RunnerLock`, `RunnerPredicateFalse`, `RunnerBlock`, `RunnerBreak`, `RunnerProcess`; main thread: `PushEvent`, `NotifyOne`, `StopThreads`, `StopLock`, `StopDrained`, `StopWaits`, `ClearContinue`, `NotifyAll`, `JoinRunner`; message thread: `ReceiveAddLabel(id, label)` and `ReceiveReclassify(id)` (client message, `Commands` decoding, then `AddLabelById` or `Reclassify`; `MessageThrows` for a message that does not parse) |
| `LabelStore` | what `EventLabelManager` promises, without its vectors: a map from stored event to `[id, label, labeled]`; `DataClassifier` is shown to implement it | `store` | `Add(t, e)`, `Label(id, label)`, `Relabel(id, label)` |
| `MCDataClassifier` | the TLC instances: the server's events (no id) or events with ids, at 1.5 s and 5.5 s; an empty or a trained model (six labeled events); no label file (the server) or every small label file | | |
| `Commands` | the text format of the three commands (`common/*Command.cpp`): `serialize`, `deserialize` with its throws, the prefix tests, and the printing of a double label with six significant digits | none: pure operators on a message `[prefix, body]` | |
| `ModelStorage` | the storage thread (`ModelSerialization.hpp` `storeModelThreadFunction`, `start/stopModelStorageThread`), `loadOldModel`, a kill of the process at any step and a restart | `ver` (the label manager's content), `fresh`, `spc` (storage thread), `shutdown` (`detail::shutdown`), `snap`, `disk` (path -> file), `stream` (where the open `ofstream`'s file is), `mpc` (main thread), `lastSaved`, `restarts` | storage: `Check`, `Lock`, `Wake`, `Open`, `Serialize`, `Remove`, `Rename`, `Close`; main: `StopThreads`, `SetShutdown`, `NotifyAll`, `Join`; `Change`, `Crash`, `Restart`, `Finished` |
| `MCModelStorage` | the TLC instance | | |
| `ClassifierIndex` | the arithmetic of the classifier: `Algorithms::mean/variance`, `generateStandardizeNormalizationVectors`, `needToRegenerateMatrixForVector`, `featureVectorIsInRange`, the normalized distance and the k-nearest-neighbour vote of `classifyOneEvent` | `labeled` (a bag of (features, label)), `norm` (mean and squared deviation per dimension), `last` (the last classification) | `AddLabeledEvent(p, l)`, `ClassifyOneEvent(q)` |
| `MCClassifierIndex` | the TLC instance: three feature vectors in three dimensions | | |
| `ServerProcess` | several launches of the server binary: `setupMessageQueue` (`create_only`, `askUserForQueueReset` and the retry, the signal handlers), `cleanUp` on SIGTERM, SIGABRT and at the end of `run()`, SIGKILL | `pc` (per launch: `setup`, `asking`, `serving`, `down`), `queue` (the named message queue exists) | `Create(p)`, `AskUser(p)`, `Sigterm(p)`, `Kill(p)`, `Exit(p)` |
| `MCServerProcess` | the TLC instance: three launches | | |

Data abstraction:
- A sample is its stream position. The data set switches from level 0 to level 1 at position `step`, or never (`NoStep`). Every initial state chooses one `step`, so TLC explores every switch position.
- `RootMeanSquare` is the share of 1-samples scaled by `RmsScale`. It orders chunks as the real RMS does, and `Threshold` is in the same units.
- A read outside the deque yields `Garbage`, whose value is either level (`junk`), and is recorded in `ub`.
- `served` is a history variable. It holds the last call of `workOnDataPoints`: the request and what was handed over.
- Integers are unbounded except where the code is unsigned: `Available` is taken modulo `SizeTModulus`, as `std::size_t` is.

In `DataClassifier`:
- A stored event is `[tag, id, label]`. `tag` is the model's name for the event, `id` is `event_id` (`NoId` for `boost::none`), and `label` is `NoLabel`, `Unknown` or a label. The feature vector is abstracted away.
- The k-d tree is the number of labeled events `regenerateMatrix` last built it from. The vote of `classifyOneEvent` is any label of a labeled event, because which label wins depends on the abstracted features.
- `std::condition_variable::wait(lock, pred)` is split where the code really splits it. The predicate is tested under the mutex, and then the thread releases the mutex and joins the waiters in one atomic step. Only the unlocked write of `continue_analyzing` can come between these two steps. Spurious wake-ups are not modelled, because the standard allows them but never promises one.
- `pushEvent` releases the lock before `notify_one`, so the two are separate steps.
- A command of the message thread holds the lock from start to end, so it is one step. An exception out of `reclassify` ends the process (`crashed`), and no thread moves after that.
- A command is what the nofare client sends: `ReceiveAddLabel(id, label)` serializes `AddLabelCommand(id, label)` with `Commands`, deserializes it as `messageLoop` does and calls `addLabelById` with what it parsed; `ReceiveReclassify` does the same for reclassify. The boost `message_queue` is not a separate variable: the server takes messages one at a time in the order they were sent (all have priority 1), and a client's send changes no server state, so sending and handling are one step. Labels are device ids (numbers, as `LabelType` is a double); the passing runs use 1 and 2.

In `ModelStorage`:
- The label manager is a content number: 0 is empty and each change gives a new number. A file is `[content, complete]`; a file whose archive was not flushed is incomplete, and `loadOldModel` reads it as the empty model (the text archive throws).
- The `ofstream` is flushed only when the loop iteration ends, after `std::rename` has moved its file to `model.archive`; `stream` follows the file across the rename.
- A kill (`Crash`) loses memory and the unflushed buffer; files stay. `Restart` runs `loadOldModel` and starts the storage thread again.
- `Check` tests `detail::shutdown`, then `Lock` takes the `unique_lock` and blocks in `wait_for`. Between the two a `notify_all` finds no waiter and is lost. `wait_for(10 s)` always returns (a timeout at the latest), so `Wake` needs no notification.

In `ClassifierIndex`:
- Feature vectors are small integer tuples and every quantity is an exact rational. Float rounding is not modelled.
- The labeled events form a bag: the normalization sums over them, and the k-d tree orders equally distant points arbitrarily, so their order does not matter. `Neighbours` follows `knn` with libnabo's default flags. Without `ALLOW_SELF_MATCH`, labeled events at distance 0 from the query (equal to it) are skipped. Of the others, it takes every choice of k entries none of which is farther from the query than an entry left out. With fewer than k others, all of them are taken, and each remaining slot keeps libnabo's invalid index (0 or -1 by version). Reading `labeled_events` at that index gives the first event, or reads outside the vector, which is undefined; the model lets the slot name any labeled event. With the query `<<0,0,0>>` also a labeled point, both cases are reached.
- `ZScore` is a reference written independently of the code: the population deviation, E[x^2] - E[x]^2, floored at 0.001.

The calls of a pass are separate steps of the main thread. Only the input source runs concurrently with them. So the interleavings that matter are those of the producer and of the shutdown command against every step of the pass.

## Runs

| run | cfg | expect | shows |
|---|---|---|---|
| pipeline | `MCDetectionPipeline.cfg` | pass (9,691 states) | `ServedExactly`: every worker gets exactly the window it asked for. `DetectionSound`: a switch gives at most one event, never one before it happened. `DetectableStepReported`: a switch in a compared chunk the stream covers is always reported. `Termination`: the process always ends, with or without a shutdown command. Without one it ends in `std::terminate` (Init.h 118), since joining the message thread would hang. |
| early_stop | `MCDetectionPipeline_early_stop.cfg` | violation of `LoopStopsOnlyAtStreamEnd` | a pass that pops part of a chunk returns false and `run()` stops while the stream is live (spec 4.2 says otherwise) |
| metric_overrun | `MCDetectionPipeline_metric_overrun.cfg` | violation of `NoUndefinedBehaviour` | batches shorter than the metric provider's first offset make `size() - index` wrap; the worker reads past the deque |
| classifier | `MCDataClassifier.cfg` | pass (54,033 states) | A trained classifier with the ground truth of any label file of up to three lines, fed two events with ids, while up to two add-label or reclassify commands from the client race the runner and the drain. `StoredOnce`: every processed event is kept once. `IndexCoversLabeled`: the index always covers the labeled set. `LabelCorrectionVisible`: after `addLabelById` returned true, a lookup reports the new label. `KeptLabelsApart`: the loaded set holds its pairs in time order, each more than 2.5 s after the one before, whatever the order of the file's lines; so the comparator, whose equivalence is not transitive, is a strict weak order on the set, as `std::set` requires. `GroundTruthMatched`: the lookup `processOneEvent` makes for each event returns the label of a pair within 2.5 s of the event whenever the set holds one (for an event inside two windows, the earlier pair), and `boost::none` otherwise. `LabelStoreRefined`: every behaviour of the label manager, seen as a map from stored event to entry, is a behaviour of `LabelStore`. `EveryPushedEventProcessed`: every pushed event is processed. |
| store | `MCDataClassifier_store.cfg` | violation of `StoredOnceAsClassified` | on a first start each event is rejected and stored twice; with a trained model the classified copy is dropped and the event is stored without its label |
| label_command | `MCDataClassifier_label_command.cfg` | violation of `LabelCommandApplied` | `add-label i3 1000001` reaches `addLabelById` as 1000000: the label is printed with six significant digits |
| sigterm | `MCServerProcess_sigterm.cfg` | violation of `AtMostOneServer` | a SIGTERM makes the server remove its own queue and go on running. The next launch then starts a second server without the console question |
| when_done | `MCDataClassifier_when_done.cfg` | violation of `WhenDoneReturns` | `stopAnalyzingWhenDone` waits for a notification nobody sends |
| lost_wakeup | `MCDataClassifier_lost_wakeup.cfg` | violation of `RunnerStopsAfterStop` | the unlocked write of `continue_analyzing` falls between the runner's predicate test and its wait |
| storage | `MCModelStorage.cfg` | pass (4,203 states) | `TypeOK` also states that the file of the open `ofstream` exists. `RestartLoadsSavedOrEmpty`: a restart resumes from the last archive the storage thread completed or from nothing, never from a torn or an older archive. `StorageStopsAfterShutdown`: once `detail::shutdown` is set the storage thread leaves its loop, so the join returns, even when the notification was lost. |
| torn_restart | `MCModelStorage_torn_restart.cfg` | violation of `RestartLoadsLatestSnapshot` | a kill after `std::remove(model.archive)` and before the iteration flushes the renamed archive leaves no readable model: the restart starts empty |
| index | `MCClassifierIndex.cfg` | pass (29,105 states, about two minutes) | `NeighbourOrderMatchesZScore`: although `Algorithms::variance` does not divide by n, the normalized space orders labeled events around a query exactly as the z-score of spec 4.5 does. `VoteIsFirstPlurality`: the label chosen has the most votes among the k nearest, ties going to the smallest label. |

Bounds:
- One period is one sample, `CompareAfter = 2` and the ring holds 4, so a detection chunk is `max(4, 2) + 1 = 5` samples.
- `BeforeEvent = 2` and `OfEvent = 3`.
- `SampleRate = 3`.
- A stream of 18 samples holds the first ring fill (positions 2..6), three compared chunks and complete event windows. `step` ranges over all 18 positions and `NoStep`.
- Batches of 6 samples and a queue of 6 make the producer block on a full queue and the distributor block on an empty one.
- The violation runs use batches of 2 and a stream of 12, which is enough to show the behaviour.
- `SizeTModulus = 2^16` stands for `2^64`. Every wrapped value exceeds every request of the model, as in the code.

- Classifier runs use two detected events. Two events are enough to leave one on the stack while the other is processed, and to let a command find an event that is not the last one (the swap of `addLabel`). Up to two commands can come from ids `{"i1", "i2", "i3"}` and labels `{1, 2}`. The trained model has six labeled events, one more than `k`. The first of them carries id `"i3"`, so the overwrite branch of `addLabel` is reached. The label_command run uses labels `{2, 1000001}`: seven digits is the shortest device id the printing changes. The classifier run loads every label file of up to three lines with label 1 at 0, 2, 3 or 5 s, each line well formed or not, with or without a final newline: pairs 2 s, 2.5 s (the edge) and 3 s apart arrive in every order. The events at 1.5 s and 5.5 s fall inside two windows, on the edge of one, or outside all, depending on the file. One label value suffices because `find` either returns a pair of the window or none; a second value only multiplies states. The other classifier runs load no file, as the server does.
- Storage: three changes of the label manager, one kill and one restart. That is enough for a change between two store iterations, a kill at every step of an iteration (including between `Remove` and `Close`) and a restart that stores again.
- Server processes: three launches. Two are enough for the sigterm trace. The third lets a kill, a stale queue and the console question happen before or after it.
- Index: feature vectors `<<0,0,0>>`, `<<1,1,0>>`, `<<0,0,1>>`, labels 1 to 3, up to six labeled events (one more than k, so the vote runs) and the query `<<0,0,0>>`. Repeated points give zero deviations (the floor), ties in distance and ties in the vote.

Each property of a passing run has a mutant in `PROJECT.json`. Each mutant is a plausible bug in the modelled code, and TLC finds it:

| mutant | what it changes | property violated |
|---|---|---|
| `ReadOnceUnclamped` | the last batch is not clamped to the data set | `TypeOK` |
| `FreeUnusedBufferIgnoringKeep` | ignores `keep` | `ServedExactly` |
| `DetectKeepingRing` | does not clear `previous_rms` | `DetectionSound` |
| `MedianPrevRmsLast` | selects the wrong element for the median | `DetectableStepReported` |
| `JoinMessageQueueThreadAlways` | `run()` joins the message thread even without a shutdown command | `Termination` |
| `AddLabeledEventKeepingLabel` | `addLabeledEvent` does not overwrite the label | `TypeOK` (a labeled event has a real label) |
| `CanClassifyOffByOne` | demands `k + 1` labeled events instead of `k` | `StoredOnce` |
| `AddLabelByIdStale` | `addLabelById` does not call `regenerateMatrix` | `IndexCoversLabeled` |
| `AddLabelNoSwap` | `addLabel` moves the last unlabeled event without swapping | `LabelCorrectionVisible` |
| `SwapWithBackByCopy` | `addLabel` copies the event to the back instead of swapping | `LabelStoreRefined` |
| `NotifyOneLost` | `pushEvent` does not notify | `EveryPushedEventProcessed` |
| `RemoveOldPath` | `std::remove(old_path)` instead of `new_path`: the file the archive is writing is removed | `TypeOK` (the open stream has a file) |
| `LoadOldModelIgnoringTorn` | `loadOldModel` accepts a torn archive | `RestartLoadsSavedOrEmpty` |
| `WakeOnNotifyOnly` | `wait` without the 10 s timeout | `StorageStopsAfterShutdown` |
| `Deviation2NoFloor` | no floor at 0.001 on the deviation | `TypeOK` (deviations are positive) |
| `Deviation2NoSqrt` | the deviation is not square-rooted | `NeighbourOrderMatchesZScore` |
| `VoteLastMax` | the last of the tied labels wins (`>=`) | `VoteIsFirstPlurality` |
| `InsertCheckingSuccessor` | `insert` tests equivalence against the element after the insert position | `KeptLabelsApart` |
| `UpperBound` | `find` starts from `upper_bound` instead of `lower_bound` | `GroundTruthMatched` |

## Refinement

`LabelStore` is the abstract specification of the label manager. Its state is a map from each stored event to `[id, label, labeled]`. An event, once stored, stays stored and keeps its id. `Label(id, label)` is `addLabel` by id: it labels an unlabeled event with that id, or else corrects the label of a labeled one. `Relabel` is `setEvent` on an unlabeled event. Nothing else changes an entry, and which of several events with one id is chosen is left open.

`DataClassifier` maps its vectors onto this map (`LabelStoreView`): an event's entry is its position in `lm`, and it is labeled when that position lies in the labeled prefix. `AbsLM == INSTANCE LabelStore WITH store <- LabelStoreView, ...` and the classifier run checks `LabelStoreRefined == AbsLM!Spec` as a PROPERTY. So the swap-and-pop of `addLabel`, the copy-then-pop and the runner's stores never lose an event, never change its id, and never label or unlabel any event other than the one `addLabel` names. The mutant `SwapWithBackByCopy` makes TLC find a step that is no `LabelStore` step.

## Fairness

`Spec` has weak fairness for the input source's runner thread and for the main thread. Both are OS threads that the scheduler keeps running, and neither waits on anything but the queue and the join. The message thread gets no fairness, because a shutdown command may never come.

In `DataClassifier`, the runner and the main thread have weak fairness for the same reason. The message thread has none, because commands may never come. Nothing wakes a thread from the condition variable except the code's own notifications. So the hangs below are real states, and the classifier cfgs say `CHECK_DEADLOCK FALSE`: the server can really stop there.

In `ModelStorage`, the storage thread and the main thread have weak fairness: the storage thread never blocks for more than the 10 s of `wait_for`, and the main thread only waits in the join. Changes, kills and restarts get none: they may or may not happen. `Finished` lets the model stop after the last restart, which is the process really ending. `ClassifierIndex` is checked for invariants only, so it has no fairness. `ServerProcess` is checked for an invariant only and has no fairness either: launches, signals and the user's answer all happen or not at will. Its cfg says `CHECK_DEADLOCK FALSE`, because the model really stops once every launch is down.

## Findings

- **early_stop** (spec/code divergence). `loopWorkersOnce` returns `one_worker_was_executed`. A pass whose pop is short runs nobody, so `run()` stops the server in the middle of a live stream.
- **metric_overrun** (code bug). For BLUED, `buffer_size = 1000` is smaller than `sample_rate`, so the metric provider's first window lies past the deque. The unsigned subtraction wraps and the worker runs on memory past the deque.

- **store** (two code bugs, one property). `double_store`, `DataClassifier.h:241`: When classification throws for lack of labeled data, `classifyOneEventAndPushToLabelManager` stores the event with `addUnLabeledEvent` in the catch block, and again with `addClassifiedEvent`. In the server no event ever gets labeled, so every event is stored twice.
  `unclassified`, `DataClassifier.h:236`: The result of `classifyOneEvent` is dropped, and the unlabeled original is stored and published.
- **label_command** (code bug, `AddLabelCommand.cpp:17`). `stringstream << label` prints the double with six significant digits. A device id of seven digits or more reaches the server rounded, so `add-label 3 1000001` labels event 3 with device 1000000 and reports success.
- **torn_restart** (spec/code divergence, `ModelSerialization.hpp:35`). The store removes `model.archive` and renames the backup into place while the archive is still in the `ofstream` buffer; it is flushed only when the iteration ends. A kill in between leaves an empty or truncated `model.archive`, and the next start loses the whole model. Spec 6 says the snapshot is written to a temporary path and atomically renamed, so a restart loads the latest snapshot.
- **sigterm** (code bug, `CLIConnection.cpp:28`). The queue is the server's lock: `askUserForQueueReset` reads an existing queue as "the server seems to be running already", and the client reads a missing one as "Is the server running?". But the SIGTERM handler `cleanUp` only removes the queue and returns. TLC's trace has three steps: launch 1 serves, it gets SIGTERM, and launch 2 creates a new queue and serves too. The first server can no longer be reached. Both store to the same `model.archive`, and the first server's `cleanUp` at exit removes the second one's queue. The user is never asked, and the model lets the user answer `yes` only when no server runs, so this is not a user error.
- **when_done** (code bug, `DataClassifier.h:313`). `stopAnalyzingWhenDone` waits for `events.empty()`, but `run()` pops events without notifying. If events remain when `stopThreads` starts, shutdown hangs.
- **lost_wakeup** (code bug, `DataClassifier.h:304`). `continue_analyzing` is written without `events_mutex`, which is also a data race. A runner that has tested its predicate but not yet blocked misses the `notify_all`, so `join()` never returns.

## Observations not kept as runs

These came up while modelling but are not kept as runs. The two about the event window were checked with TLC (the properties are defined in `DetectionPipeline`); the others are read from the code:
- **event_window** (`EventDetector.h:69`). `getEventData` anchors the event window at the detection chunk, not at the switch. So the pre-event slice can hold switched samples. `DetectionPipeline` still defines `EventSlicesUniform`, and TLC finds it violated when the switch is off the chunk grid. The unit test passes only because its switch falls on the grid.
- **Variance without 1/n** (`Algorithms.h:66`). `Algorithms::variance` returns the sum of squares, so the normalized matrix does not have unit deviation, as spec 8 says it should. The index run shows this changes no neighbour order. Only the 0.001 floor then acts at a different scale.
- **Clean shutdown loses the last changes** (`ModelSerialization.hpp:54`). `stopModelStorageThread` sets `shutdown` and notifies. A thread woken from `wait_for` still stores once, but a change made after its last `Serialize` is never written.
- **All server events share one HDF5 file** (`Hdf5EventStorage.h:57`). Events have no id, so each one is written to `event_00no_id.hdf5` with `H5F_ACC_TRUNC`. Each detection overwrites the last.
- **A malformed command ends the server** (`AddLabelCommand.cpp:26`). `Commands` models the throws of `deserialize`. But the nofare client never sends such a message, and other writers of the queue are not modelled.

- **A stored event can miss its switch** (`EventDetector.h:69`, a sharper form of event_window). The event window ends `per_period + data_points_stored_of_event` samples after the start of the detection chunk. A switch in the chunk's last samples is detected, but it lies after the window. TLC finds `EventHoldsSwitch` violated: with a switch at 11, the event holds positions 6..10, all at the old level. With the detector's defaults (chunk size 800, ring of 4) on BLUED's 12 kHz at 60 Hz, a chunk is 1000 samples. With the tests' 400/600 event window, the window covers only the chunk's first 800 samples. The two properties are not kept as runs only because the run budget is used by the findings above.
- **Every stream end ends in `std::terminate`** (`Init.h:118`). `Termination` holds only because a run without a shutdown command returns with `messageQueueThread` still joinable. The process then aborts instead of destroying the input source. Joining the thread instead would hang in `receive`.
- **reclassify_crash** (code bug, `DataClassifier.h:590`; a run in an earlier version of this project). `throw -1` escapes `messageLoop`, and `std::terminate` ends the server. Spec 7 calls insufficient data non-fatal. `DataClassifier` still defines `ReclassifyKeepsServerAlive`, and TLC finds it violated with events that carry ids and an untrained model. The server's own events never carry an id, so the run slot went to the sigterm run, which the shipped server can reach.
- **Commands sent to a dead server are lost silently** (`CLIConnection.cpp:20`). After a kill, the queue remains, so a client still opens it, sends its command and reports success. The next server's reset removes the queue and the command with it.
- **The shutdown command over-reads** (`client/main.cpp:71`). `queue.send(message.c_str(), MAX_MESSAGE_SIZE, 1)` reads past the end of the short string. The server's prefix test hides the extra bytes.
- **The label loader drops lines** (`EventLabelManager.h:162`). Spec 4.4 says each line of a label file yields one pair and only a malformed line ends the load. `loadLabelsFromFile` silently drops a line within 2.5 s of a kept pair (`insert` finds it equivalent). It also drops the last line when the file does not end with a newline: `ignore` reaches the end of the file and `good()` is false. Evaluating `LoadLabelsFromFile` shows both: lines at 2 s and 3 s give one pair, and a single line without a newline gives none. No code calls the loader, so it has no run.
- **`DataClassifier::addLabel(LabelTimePair)` leaves the index stale** (`DataClassifier.h:498`). It moves matching unlabeled events to the labeled set without `regenerateMatrix`, unlike `addLabelById`. It has no caller.
- **A kill leaves the queue behind** (`CLIConnection.cpp:19`). `signal(SIGKILL, ...)` cannot install a handler. The next start finds the queue and asks on the console, and any answer but `yes` ends `run()` before `loadOldModel`.

## Not modelled yet, and the plan

Next sittings, in this order:
1. **An abstract stream-window specification.** Each worker sees the windows it asks for. `DataStreamDistributor` would be shown to refine it. `ServedExactly` already checks the window of every call, so the refinement would add little beyond it.
2. **The command queue as a bounded channel.** This covers a full queue blocking the client and a shutdown message overtaking commands.

Parts left out for good:
- HDF5 and CSV I/O, feature extraction (not in the repository), and `ProgramConfiguration` parsing. They do not change control flow.
- The custom `InputSource`. It is a placeholder that pushes zeros forever, so no event is ever detected. Its `stopNow` assigns to the joinable `runner`, which is `std::terminate`, and `data_points_read` is never initialised.
- The Rescale branch of the classifier (min/max normalization and the `pushToMatrix` fast path, `DataClassifier.h` 378-394 and 423-449). `classification_config` is never assigned, so the server always takes the Standardize branch. The Rescale code is dead in this repository.
- `addLabel(LabelTimePair)` of `EventLabelManager` and `DataClassifier`. Nothing in the repository calls either. The label-time lookup and the loader are modelled (`LabelTimes`), although only `startClassification(label_location)`, which no code calls, loads a file.
- `EventStorage` (CSV), which the server does not use, and the declarations of `Event.h` and `SmartApp.h` with no behaviour.

Facts found while reading, used by the classifier model:
- Neither event storage assigns an id to the event the classifier receives (`event_id` stays `boost::none`). So `addLabelById` and `reclassify` from the command line never find an event.
- `classification_config` is never set, so normalization is always Standardize and the fast path of `addEventToNormalizedMatrix` is unreachable.
