------------------------------ MODULE LabelStore ------------------------------
(***************************************************************************)
(* What EventLabelManager promises its callers, without its vectors: a map *)
(* from stored events to an entry [id, label, labeled].  An event, once    *)
(* stored, stays stored and keeps its id.  Whether it is labeled changes   *)
(* in one place only: addLabel(event_id, label) labels an unlabeled event  *)
(* with that id, or failing that corrects the label of a labeled one.      *)
(* setEvent lets a caller replace the label of an unlabeled event; nothing *)
(* else changes an entry.  Which of several events with the same id is    *)
(* chosen is left open.                                                   *)
(***************************************************************************)
EXTENDS TLC

CONSTANTS
  Tags,      \* the events that can be stored
  Ids,       \* the event ids they may carry
  Values,    \* the labels an entry can carry (sentinels included)
  NoId       \* an event without an id: addLabel never finds it

VARIABLE store   \* tag -> [id, label, labeled] for every stored event

Entry(id, label, labeled) == [id |-> id, label |-> label, labeled |-> labeled]

WithId(id, labeled) ==
  {t \in DOMAIN store : store[t].id = id /\ id # NoId /\ store[t].labeled = labeled}

(* The stored events, whatever the initial model held.                   *)
Init == DOMAIN store \subseteq Tags

Entries == [id : Ids \cup {NoId}, label : Values, labeled : BOOLEAN]

(* addLabeledEvent, addClassifiedEvent, addUnLabeledEvent: a new event.  *)
Add(t, e) ==
  /\ t \in Tags \ DOMAIN store
  /\ store' = store @@ (t :> e)

(* addLabel(event_id, label).                                            *)
Label(id, label) ==
  /\ label \in Values
  /\ \/ \E t \in WithId(id, FALSE) :
          store' = [store EXCEPT ![t] = Entry(id, label, TRUE)]
     \/ /\ WithId(id, FALSE) = {}
        /\ \E t \in WithId(id, TRUE) :
             store' = [store EXCEPT ![t].label = label]

(* setEvent(event_id, event) with the event getEvent returned, relabeled. *)
Relabel(id, label) ==
  /\ label \in Values
  /\ \E t \in WithId(id, FALSE) : store' = [store EXCEPT ![t].label = label]

Next ==
  \/ \E t \in Tags, e \in Entries : Add(t, e)
  \/ \E id \in Ids, v \in Values : Label(id, v) \/ Relabel(id, v)

Spec == Init /\ [][Next]_store

=============================================================================
