-------------------------- MODULE EventLabelManager --------------------------
(***************************************************************************)
(* EventLabelManager<DataPointType>                                        *)
(* (src/data_analyzer/src/EventLabelManager.h): the labeled and the        *)
(* unlabeled std::vector of EventFeatures.  A stored event is a record     *)
(*   tag    the event's identity in the model (not a program value),       *)
(*   id     event_meta_data.event_id, NoId for boost::none,                *)
(*   label  event_meta_data.label, NoLabel for boost::none.                *)
(* The feature vector itself is abstracted away.  A manager is a record    *)
(* [labeled |-> ..., unlabeled |-> ...]; every operator is a pure function *)
(* of it, called by DataClassifier under events_mutex.                     *)
(***************************************************************************)
EXTENDS Integers, Sequences
LOCAL INSTANCE SequencesExt

CONSTANTS
  NoId,      \* an event_id of boost::none
  NoLabel,   \* a label of boost::none
  Unknown    \* EventMetaData::EventUnknown

(* std::find_if on event_id: the first event whose optional id equals     *)
(* event_id (boost::none never does), 0 for end().                        *)
FindById(s, id) == SelectInSeq(s, LAMBDA e : e.id # NoId /\ e.id = id)

(* findLabelAndAddEvent: the label of the ground-truth set (found, what   *)
(* getEventLabel returns) is taken only for an event with no label of its *)
(* own; the event goes to the labeled set when there is one.              *)
FindLabel(e, found) == IF e.label = NoLabel THEN found ELSE NoLabel

(* Mutant of AddLabeledEvent: the label of the copy is not overwritten.  *)
AddLabeledEventKeepingLabel(s, e, lab) == Append(s, e)

(* addLabeledEvent: push_back, then overwrite the label of the copy.      *)
AddLabeledEvent(s, e, lab) == Append(s, [e EXCEPT !.label = lab])

(* addClassifiedEvent(event) and addUnLabeledEvent: push_back.            *)
AddClassifiedEvent(m, e) == [m EXCEPT !.unlabeled = Append(@, e)]
AddUnLabeledEvent(m, e) == [m EXCEPT !.unlabeled = Append(@, e)]

(* Mutant of SwapWithBack: the back is overwritten instead of swapped.   *)
SwapWithBackByCopy(s, i) == [s EXCEPT ![Len(s)] = s[i]]

(* std::swap(unlabeled_events.back(), *iter).                            *)
SwapWithBack(s, i) == [s EXCEPT ![i] = s[Len(s)], ![Len(s)] = s[i]]

(* Mutant of AddLabel: the matched event is not swapped to the back, so   *)
(* the last unlabeled event is the one moved.                             *)
AddLabelNoSwap(m, id, lab) ==
  LET i == FindById(m.unlabeled, id)
      j == FindById(m.labeled, id)
      u == m.unlabeled
  IN  CASE i # 0 -> [labeled   |-> AddLabeledEvent(m.labeled, u[Len(u)], lab),
                     unlabeled |-> Front(u)]
        [] j # 0 -> [m EXCEPT !.labeled[j].label = lab]
        [] OTHER -> m

(* addLabel(event_id, label): swap-and-pop the first unlabeled event with *)
(* that id into the labeled set; failing that, overwrite the label of the *)
(* first labeled event with that id.                                      *)
AddLabel(m, id, lab) ==
  LET i == FindById(m.unlabeled, id)
      j == FindById(m.labeled, id)
      u == SwapWithBack(m.unlabeled, i)
  IN  CASE i # 0 -> [labeled   |-> AddLabeledEvent(m.labeled, u[Len(u)], lab),
                     unlabeled |-> Front(u)]
        [] j # 0 -> [m EXCEPT !.labeled[j].label = lab]
        [] OTHER -> m

(* The bool addLabel returns.                                             *)
AddLabelFound(m, id) ==
  FindById(m.unlabeled, id) # 0 \/ FindById(m.labeled, id) # 0

(* getEvent: the first unlabeled event with that id, 0 for boost::none.   *)
GetEvent(m, id) == FindById(m.unlabeled, id)

(* setEvent: replace the first unlabeled event with that id.              *)
SetEvent(m, id, e) ==
  LET i == FindById(m.unlabeled, id)
  IN  IF i = 0 THEN m ELSE [m EXCEPT !.unlabeled[i] = e]

=============================================================================
