---------------------------- MODULE DataClassifier ----------------------------
(***************************************************************************)
(* DataClassifier<DataPointType> (src/data_analyzer/src/DataClassifier.h)  *)
(* as the nofare server drives it, with the three threads that touch it:   *)
(*   - the runner thread of startClassification, run();                    *)
(*   - the main thread, which pushes every detected event                  *)
(*     (SmartApp::onEventDetected) and, once run()'s loop has ended, calls *)
(*     stopThreads, i.e. stopAnalyzingWhenDone;                            *)
(*   - the message loop thread, which calls addLabelById and reclassify.   *)
(* events_mutex is the variable holder; the condition variable            *)
(* events_empty_variable is the set of threads waiting on it.  Spurious    *)
(* wake-ups are not modelled: the standard allows them but never promises  *)
(* one.  The k-d tree nns is abstracted to the number of labeled events it *)
(* was built from.  The ground-truth label set is the one                  *)
(* startClassification(label_location) loads before it starts the runner; *)
(* the server's startClassification(config) loads none.                    *)
(***************************************************************************)
EXTENDS Integers, Sequences, FiniteSets

CONSTANTS
  Detected,        \* the events the detector publishes, in order: [tag, id, time]
  InitialModels,   \* the label managers loadOldModel may find on disk
  Labels,          \* labels (device ids) a client's add-label may carry
  CmdIds,          \* event ids a command may carry
  MaxCommands,     \* bound on the commands the message thread handles
  LabelFiles,      \* the label files label_location may name
  NoId, NoLabel, Unknown

ASSUME MaxCommands \in Nat

LM == INSTANCE EventLabelManager
CMD == INSTANCE Commands
LT  == INSTANCE LabelTimes WITH AcceptedDifference <- 2500

VARIABLES
  lm,         \* event_label_manager
  events,     \* the std::vector of pushed events, used as a stack
  cont,       \* continue_analyzing
  holder,     \* the thread holding events_mutex, or "none"
  waiting,    \* the threads blocked in events_empty_variable.wait
  rpc,        \* runner: "acquire", "check", "block", "wait", "done"
  opc,        \* main thread: "run", "notify", "sacquire", "scheck", "swait",
              \*   "simm", "snotify", "join", "done"
  pushed,     \* how many of Detected the main thread has pushed
  indexed,    \* the labeled events nns was built from, -1 while it is null
  crashed,    \* an exception left messageLoop: std::terminate
  lastLabel,  \* the last addLabelById call: id, label and its result
  cmds,       \* commands handled so far
  asked,      \* the label the client's last add-label command was given
  labels      \* event_label_manager.labels, the ground-truth LabelTimePairs

vars == <<lm, events, cont, holder, waiting, rpc, opc, pushed, indexed,
          crashed, lastLabel, cmds, asked, labels>>

NoCall == [id |-> NoId, label |-> NoLabel, ok |-> FALSE]

K == 5   \* classifyOneEvent's k

(* An event as feature extraction hands it over: no label of its own.     *)
(* Its event_time is not kept in the model's record; EventTime looks it   *)
(* up by the event's identity.                                            *)
Features(d) == [tag |-> d.tag, id |-> d.id, label |-> NoLabel]

(* regenerateMatrix: with no labeled event it returns at once; otherwise  *)
(* matrix, normalization and nns are rebuilt from all labeled events.     *)
Regenerated(m) == IF m.labeled = <<>> THEN indexed ELSE Len(m.labeled)

(* event_meta_data.event_time of an event, which extractFeatures copies.  *)
EventTime(e) == Detected[CHOOSE i \in DOMAIN Detected : Detected[i].tag = e.tag].time

(* The models on disk hold no ground truth (nothing in the server fills   *)
(* the set before saving); loadLabelsFromFile then fills it from the file. *)
Init ==
  /\ lm \in InitialModels
  /\ labels \in {LT!LoadLabelsFromFile(f) : f \in LabelFiles}
  /\ indexed = IF lm.labeled = <<>> THEN -1 ELSE Len(lm.labeled)
  /\ events = <<>>
  /\ cont = TRUE
  /\ holder = "none"
  /\ waiting = {}
  /\ rpc = "acquire"
  /\ opc = "run"
  /\ pushed = 0
  /\ crashed = FALSE
  /\ lastLabel = NoCall
  /\ cmds = 0
  /\ asked = NoLabel

(* Mutant of CanClassify: one labeled event too many is demanded.        *)
CanClassifyOffByOne(m) == Len(m.labeled) > K + 1

(* classifyOneEvent throws -1 unless more than k events are labeled.      *)
CanClassify(m) == Len(m.labeled) > K

(* The majority label of the k nearest neighbours is one of the labels of *)
(* the labeled events; which one depends on the abstracted features.      *)
Votes(m) == {m.labeled[i].label : i \in 1..Len(m.labeled)}

(* classifyOneEventAndPushToLabelManager: the classified copy is dropped; *)
(* on the throw the event, labeled EventUnknown, is stored by             *)
(* addUnLabeledEvent and again by addClassifiedEvent.                     *)
ClassifyAndPush(m, e) ==
  IF CanClassify(m)
    THEN LM!AddClassifiedEvent(m, e)
    ELSE LET u == [e EXCEPT !.label = Unknown]
         IN  LM!AddClassifiedEvent(LM!AddUnLabeledEvent(m, u), u)

(* processOneEvent: a ground-truth match goes to the labeled set and the  *)
(* matrix (addEventToNormalizedMatrix regenerates: the mode is never      *)
(* Rescale); any other event is classified and stored.                    *)
GroundTruth(e) == LM!FindLabel(e, LT!GetEventLabel(labels, EventTime(e)))

ProcessOneEvent(m, e) ==
  IF GroundTruth(e) # NoLabel
    THEN [m EXCEPT !.labeled = LM!AddLabeledEvent(@, e, GroundTruth(e))]
    ELSE ClassifyAndPush(m, e)

-----------------------------------------------------------------------------
(* The runner thread, run().                                              *)

(* The unique_lock of an iteration, or the re-lock after a wake-up.       *)
RunnerLock ==
  /\ ~crashed
  /\ rpc \in {"acquire", "wait"}
  /\ "runner" \notin waiting
  /\ holder = "none"
  /\ holder' = "runner"
  /\ rpc' = "check"
  /\ UNCHANGED <<labels, lm, events, cont, waiting, opc, pushed, indexed, crashed,
                 lastLabel, cmds, asked>>

(* The wait predicate !events.empty() || !continue_analyzing is false:    *)
(* the thread will block, still holding the lock until it does.           *)
RunnerPredicateFalse ==
  /\ ~crashed
  /\ rpc = "check"
  /\ events = <<>> /\ cont
  /\ rpc' = "block"
  /\ UNCHANGED <<labels, lm, events, cont, holder, waiting, opc, pushed, indexed,
                 crashed, lastLabel, cmds, asked>>

(* wait() releases the lock and joins the waiters atomically.             *)
RunnerBlock ==
  /\ ~crashed
  /\ rpc = "block"
  /\ waiting' = waiting \cup {"runner"}
  /\ holder' = "none"
  /\ rpc' = "wait"
  /\ UNCHANGED <<labels, lm, events, cont, opc, pushed, indexed, crashed, lastLabel, cmds, asked>>

(* The predicate holds and continue_analyzing is false: break.            *)
RunnerBreak ==
  /\ ~crashed
  /\ rpc = "check"
  /\ ~cont
  /\ holder' = "none"
  /\ rpc' = "done"
  /\ UNCHANGED <<labels, lm, events, cont, waiting, opc, pushed, indexed, crashed,
                 lastLabel, cmds, asked>>

(* processOneEvent(events.back()), pop_back, and the lock is released at  *)
(* the end of the iteration.                                              *)
RunnerProcess ==
  LET e == events[Len(events)]
  IN  /\ ~crashed
      /\ rpc = "check"
      /\ events # <<>> /\ cont
      /\ lm' = ProcessOneEvent(lm, e)
      /\ indexed' = IF GroundTruth(e) # NoLabel THEN Regenerated(lm') ELSE indexed
      /\ events' = SubSeq(events, 1, Len(events) - 1)
      /\ holder' = "none"
      /\ rpc' = "acquire"
      /\ UNCHANGED <<labels, cont, waiting, opc, pushed, crashed, lastLabel, cmds, asked>>

RunnerStep ==
  RunnerLock \/ RunnerPredicateFalse \/ RunnerBlock \/ RunnerBreak \/ RunnerProcess

-----------------------------------------------------------------------------
(* The main thread: pushEvent for every detected event, then              *)
(* stopThreads once run()'s loop is over.                                 *)

(* pushEvent: push_back under the lock; the lock is released before       *)
(* notify_one.                                                            *)
PushEvent ==
  /\ ~crashed
  /\ opc = "run"
  /\ pushed < Len(Detected)
  /\ holder = "none"
  /\ events' = Append(events, Features(Detected[pushed + 1]))
  /\ pushed' = pushed + 1
  /\ opc' = "notify"
  /\ UNCHANGED <<labels, lm, cont, holder, waiting, rpc, indexed, crashed, lastLabel, cmds, asked>>

(* Mutant of NotifyOne: the notification is lost.                        *)
NotifyOneLost ==
  /\ ~crashed
  /\ opc = "notify"
  /\ opc' = "run"
  /\ UNCHANGED <<labels, lm, events, cont, holder, waiting, rpc, pushed, indexed,
                 crashed, lastLabel, cmds, asked>>

(* notify_one: while the main thread pushes, only the runner can wait.    *)
NotifyOne ==
  /\ ~crashed
  /\ opc = "notify"
  /\ waiting' = waiting \ {"runner"}
  /\ opc' = "run"
  /\ UNCHANGED <<labels, lm, events, cont, holder, rpc, pushed, indexed, crashed,
                 lastLabel, cmds, asked>>

(* run()'s loop is over (a pass ran no worker, or shutdown): stopThreads. *)
StopThreads ==
  /\ ~crashed
  /\ opc = "run"
  /\ opc' = "sacquire"
  /\ UNCHANGED <<labels, lm, events, cont, holder, waiting, rpc, pushed, indexed,
                 crashed, lastLabel, cmds, asked>>

(* stopAnalyzingWhenDone: lock, or re-lock after a wake-up.               *)
StopLock ==
  /\ ~crashed
  /\ opc \in {"sacquire", "swait"}
  /\ "main" \notin waiting
  /\ holder = "none"
  /\ holder' = "main"
  /\ opc' = "scheck"
  /\ UNCHANGED <<labels, lm, events, cont, waiting, rpc, pushed, indexed, crashed,
                 lastLabel, cmds, asked>>

(* The predicate events.empty() holds: leave the block, unlocking.        *)
StopDrained ==
  /\ ~crashed
  /\ opc = "scheck"
  /\ events = <<>>
  /\ holder' = "none"
  /\ opc' = "simm"
  /\ UNCHANGED <<labels, lm, events, cont, waiting, rpc, pushed, indexed, crashed,
                 lastLabel, cmds, asked>>

(* Events are left: wait on events_empty_variable.                        *)
StopWaits ==
  /\ ~crashed
  /\ opc = "scheck"
  /\ events # <<>>
  /\ waiting' = waiting \cup {"main"}
  /\ holder' = "none"
  /\ opc' = "swait"
  /\ UNCHANGED <<labels, lm, events, cont, rpc, pushed, indexed, crashed, lastLabel, cmds, asked>>

(* stopAnalyzingImmediately: continue_analyzing = false without the lock, *)
(* then notify_all, then join.                                            *)
ClearContinue ==
  /\ ~crashed
  /\ opc = "simm"
  /\ cont' = FALSE
  /\ opc' = "snotify"
  /\ UNCHANGED <<labels, lm, events, holder, waiting, rpc, pushed, indexed, crashed,
                 lastLabel, cmds, asked>>

NotifyAll ==
  /\ ~crashed
  /\ opc = "snotify"
  /\ waiting' = {}
  /\ opc' = "join"
  /\ UNCHANGED <<labels, lm, events, cont, holder, rpc, pushed, indexed, crashed,
                 lastLabel, cmds, asked>>

JoinRunner ==
  /\ ~crashed
  /\ opc = "join"
  /\ rpc = "done"
  /\ opc' = "done"
  /\ UNCHANGED <<labels, lm, events, cont, holder, waiting, rpc, pushed, indexed,
                 crashed, lastLabel, cmds, asked>>

MainStep ==
  \/ PushEvent \/ NotifyOne \/ StopThreads \/ StopLock \/ StopDrained
  \/ StopWaits \/ ClearContinue \/ NotifyAll \/ JoinRunner

-----------------------------------------------------------------------------
(* The message loop thread.  Each call holds the lock from start to end.  *)

(* Mutant of AddLabelById: the matrix and index are not regenerated.     *)
AddLabelByIdStale(id, label) ==
  /\ ~crashed /\ opc # "done" /\ cmds < MaxCommands /\ holder = "none"
  /\ lm' = LM!AddLabel(lm, id, label)
  /\ lastLabel' = [id |-> id, label |-> label, ok |-> LM!AddLabelFound(lm, id)]
  /\ cmds' = cmds + 1
  /\ UNCHANGED <<labels, events, cont, holder, waiting, rpc, opc, pushed, indexed, crashed>>

(* addLabelById: addLabel, and regenerateMatrix when it found the event.  *)
AddLabelById(id, label) ==
  LET ok == LM!AddLabelFound(lm, id)
  IN  /\ ~crashed /\ opc # "done" /\ cmds < MaxCommands /\ holder = "none"
      /\ lm' = LM!AddLabel(lm, id, label)
      /\ indexed' = IF ok THEN Regenerated(lm') ELSE indexed
      /\ lastLabel' = [id |-> id, label |-> label, ok |-> ok]
      /\ cmds' = cmds + 1
      /\ UNCHANGED <<labels, events, cont, holder, waiting, rpc, opc, pushed, crashed>>

(* reclassify: getEvent; an unknown id is only logged.  classifyOneEvent  *)
(* may throw -1, which nothing in messageLoop catches; otherwise setEvent *)
(* stores the classified copy.                                            *)
Reclassify(id) ==
  LET i == LM!GetEvent(lm, id)
  IN  /\ ~crashed /\ opc # "done" /\ cmds < MaxCommands /\ holder = "none"
      /\ cmds' = cmds + 1
      /\ CASE i = 0 ->
                UNCHANGED <<labels, lm, crashed>>
           [] ~CanClassify(lm) ->
                crashed' = TRUE /\ UNCHANGED lm
           [] OTHER ->
                /\ \E label \in Votes(lm) :
                     lm' = LM!SetEvent(lm, id, [lm.unlabeled[i] EXCEPT !.label = label])
                /\ UNCHANGED crashed
      /\ UNCHANGED <<labels, events, cont, holder, waiting, rpc, opc, pushed, indexed,
                     lastLabel>>

(* A deserialize that throws: nothing in messageLoop catches it.         *)
MessageThrows ==
  /\ ~crashed /\ opc # "done" /\ cmds < MaxCommands /\ holder = "none"
  /\ crashed' = TRUE
  /\ cmds' = cmds + 1
  /\ UNCHANGED <<labels, lm, events, cont, holder, waiting, rpc, opc, pushed, indexed,
                 lastLabel>>

(* messageLoop receives what the client's addLabel sent,                  *)
(* AddLabelCommand(id, label).serialize(), deserializes it and calls      *)
(* addLabelById with what it parsed.                                      *)
ReceiveAddLabel(id, label) ==
  LET m == CMD!SerializeAddLabel(id, label)
      d == CMD!DeserializeAddLabel(m)
  IN  /\ CMD!IsAddLabelCommand(m)
      /\ asked' = label
      /\ IF d.ok THEN AddLabelById(d.id, d.label) ELSE MessageThrows

(* messageLoop on the client's reclassifyCommand message.                 *)
ReceiveReclassify(id) ==
  LET m == CMD!SerializeReclassify(id)
      d == CMD!DeserializeReclassify(m)
  IN  /\ ~CMD!IsAddLabelCommand(m) /\ CMD!IsReclassifyCommand(m)
      /\ UNCHANGED asked
      /\ IF d.ok THEN Reclassify(d.id) ELSE MessageThrows

MessageStep ==
  \E id \in CmdIds :
    \/ \E label \in Labels : ReceiveAddLabel(id, label)
    \/ ReceiveReclassify(id)

-----------------------------------------------------------------------------
(* After std::terminate nothing runs (every action requires ~crashed);   *)
(* after the main thread has joined the runner, the classifier is done.   *)
Finished ==
  /\ crashed \/ opc = "done"
  /\ UNCHANGED vars

Next == RunnerStep \/ MainStep \/ MessageStep \/ Finished

(* The runner and the main thread are OS threads; commands may never      *)
(* come, so the message thread gets no fairness.                          *)
Spec ==
  /\ Init /\ [][Next]_vars
  /\ WF_vars(RunnerStep)
  /\ WF_vars(MainStep)

-----------------------------------------------------------------------------
(* Properties.                                                            *)

ModelEvents ==
  UNION {{m.labeled[i] : i \in DOMAIN m.labeled}
           \cup {m.unlabeled[i] : i \in DOMAIN m.unlabeled} : m \in InitialModels}
DetectedEvents == {Detected[i] : i \in DOMAIN Detected}
Tags == {e.tag : e \in ModelEvents \cup DetectedEvents}
Ids == {e.id : e \in ModelEvents \cup DetectedEvents} \cup {NoId}
StoredEvent == [tag : Tags, id : Ids, label : Labels \cup {NoLabel, Unknown}]

(* Besides the types: a labeled event always carries a real label         *)
(* (addLabeledEvent overwrites the label of the copy it pushes).          *)
TypeOK ==
  /\ lm.labeled \in Seq([tag : Tags, id : Ids, label : Labels])
  /\ lm.unlabeled \in Seq(StoredEvent)
  /\ events \in Seq(StoredEvent)
  /\ cont \in BOOLEAN /\ crashed \in BOOLEAN
  /\ holder \in {"none", "runner", "main"}
  /\ waiting \subseteq {"runner", "main"}
  /\ rpc \in {"acquire", "check", "block", "wait", "done"}
  /\ opc \in {"run", "notify", "sacquire", "scheck", "swait", "simm", "snotify",
              "join", "done"}
  /\ pushed \in 0..Len(Detected)
  /\ indexed \in {-1} \cup Nat
  /\ lastLabel \in [id : CmdIds \cup {NoId}, label : Labels \cup {NoLabel}, ok : BOOLEAN]
  /\ cmds \in 0..MaxCommands
  /\ asked \in Labels \cup {NoLabel}
  /\ labels \in Seq([label : Labels, time : Nat])

(* The events the runner has taken off the stack.                         *)
Taken == {Detected[i].tag : i \in 1..pushed} \ {events[i].tag : i \in DOMAIN events}

Stored == lm.labeled \o lm.unlabeled

(* Every event the runner took off the stack is kept by the label manager *)
(* exactly once, through processOneEvent, addLabelById's swap-and-pop and *)
(* reclassify's setEvent: none is lost and none is stored twice.          *)
StoredOnce ==
  \A t \in Taken : Cardinality({i \in DOMAIN Stored : Stored[i].tag = t}) = 1

(* Spec 4.5 and 9: nns and the labeled matrix are in step with the        *)
(* labeled set: whenever an event is labeled, the last regenerateMatrix   *)
(* was built from all labeled events.                                     *)
IndexCoversLabeled ==
  lm.labeled # <<>> => indexed = Len(lm.labeled)

(* The ground-truth set holds its pairs in increasing time, each more     *)
(* than 2.5 s after the one before, whatever the order and spacing of the *)
(* file's lines: TimePairComparator, whose equivalence is not transitive, *)
(* is then a strict weak order on the set, as std::set requires.  It      *)
(* rests on insert rejecting every pair equivalent to a kept one.        *)
KeptLabelsApart == LT!Apart(labels)

(* Spec 4.4: the label processOneEvent looks up for a detected event is  *)
(* that of a ground-truth pair within the tolerance of the event's time  *)
(* whenever the loaded set holds one, and boost::none otherwise; find    *)
(* must not miss a match beside a kept pair the event is not within.     *)
GroundTruthMatched ==
  \A i \in DOMAIN Detected :
    LET t      == Detected[i].time
        within == {j \in DOMAIN labels : LT!LabelIsForEvent(labels[j], t)}
    IN  IF within = {}
          THEN LT!GetEventLabel(labels, t) = NoLabel
          ELSE LT!GetEventLabel(labels, t) \in {labels[j].label : j \in within}

(* A lookup of an event by id: getEvent, else the labeled set.            *)
Lookup(id) ==
  LET i == LM!GetEvent(lm, id)
      j == LM!FindById(lm.labeled, id)
  IN  CASE i # 0 -> lm.unlabeled[i].label
        [] j # 0 -> lm.labeled[j].label
        [] OTHER -> NoLabel

(* Spec 8, label correction consistency: after addLabelById(id, L)       *)
(* returned true, a lookup of the event with that id reports L, whatever *)
(* the runner has stored or the message thread reclassified since.       *)
LabelCorrectionVisible ==
  lastLabel.ok => Lookup(lastLabel.id) = lastLabel.label

(* Spec 6, the command channel: once the server reports that             *)
(* `add-label <event id> <label>` succeeded, a lookup of the event reports *)
(* the label the operator gave the client, not one the text channel       *)
(* changed on the way.                                                    *)
LabelCommandApplied ==
  lastLabel.ok => Lookup(lastLabel.id) = asked

(* The label manager seen as LabelStore's map: each stored event with the *)
(* id and label of its first copy, labeled when that copy is in           *)
(* labeled_events.                                                        *)
StoredTags == {Stored[i].tag : i \in DOMAIN Stored}
LabelStoreView ==
  [t \in StoredTags |->
     LET i == CHOOSE i \in DOMAIN Stored : Stored[i].tag = t
     IN  [id |-> Stored[i].id, label |-> Stored[i].label,
          labeled |-> i <= Len(lm.labeled)]]

AbsLM == INSTANCE LabelStore WITH
           store <- LabelStoreView, Values <- Labels \cup {NoLabel, Unknown}

(* The swap-and-pop vectors of EventLabelManager, driven by the runner,   *)
(* addLabelById and reclassify, implement LabelStore: no step loses or    *)
(* duplicates a stored event, changes its id, or changes an entry other   *)
(* than the one addLabel or setEvent chose by id.                         *)
LabelStoreRefined == AbsLM!Spec

(* Every event pushEvent put on the stack is eventually processed by the  *)
(* runner (the drain stop mode of spec 4.5), unless the process died.     *)
EveryPushedEventProcessed ==
  \A i \in DOMAIN Detected :
    (pushed >= i) ~> (crashed \/ \A j \in DOMAIN events : events[j].tag # Detected[i].tag)

(* Spec 4.5: an event the runner stores as unlabeled carries either the   *)
(* label classification gave it or the unknown sentinel.                  *)
NoEventStoredUnclassified ==
  \A i \in DOMAIN lm.unlabeled : lm.unlabeled[i].label # NoLabel

(* classifyOneEventAndPushToLabelManager's contract as spec 4.5 states it, *)
(* on a first start and on a trained model alike: every event the runner  *)
(* took is stored exactly once, and a stored unlabeled event carries the   *)
(* vote's label or the unknown sentinel.                                   *)
StoredOnceAsClassified == StoredOnce /\ NoEventStoredUnclassified

(* Spec 7: too few labeled events is a non-fatal condition; a reclassify  *)
(* command never ends the server.                                         *)
ReclassifyKeepsServerAlive == ~crashed

(* stopAnalyzingWhenDone returns: once the main thread starts to drain,   *)
(* it reaches stopAnalyzingImmediately.                                   *)
WhenDoneReturns == (opc = "sacquire") ~> (opc = "simm" \/ crashed)

(* Once continue_analyzing is false, the runner leaves run(), so the join *)
(* of stopAnalyzingImmediately returns.                                   *)
RunnerStopsAfterStop == (~cont) ~> (rpc = "done" \/ crashed)

=============================================================================
