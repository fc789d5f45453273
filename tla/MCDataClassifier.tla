--------------------------- MODULE MCDataClassifier ---------------------------
(***************************************************************************)
(* Instances of DataClassifier for TLC.  Two detected events; a model      *)
(* loaded from disk that is either empty (the first start) or trained with *)
(* six labeled events, one more than classifyOneEvent's k.                 *)
(***************************************************************************)
EXTENDS DataClassifier

(* The server: EventDetector::createEvent leaves event_id at boost::none  *)
(* (Event::createEvent's default) and neither event storage sets one.   *)
ServerEvents == << [tag |-> "e1", id |-> NoId, time |-> 1500],
                   [tag |-> "e2", id |-> NoId, time |-> 5500] >>

(* A caller that creates events with ids (Event::createEvent's event_id). *)
(* At 1.5 s an event lies within the tolerance of pairs at 0 s and 3 s;  *)
(* at 5.5 s on the edge of one at 3 s and inside one at 5 s.             *)
ApiEvents == << [tag |-> "e1", id |-> "i1", time |-> 1500],
                [tag |-> "e2", id |-> "i2", time |-> 5500] >>

EmptyModel == [labeled |-> <<>>, unlabeled |-> <<>>]

(* Six labeled events with device ids 1 and 2 as labels; the first was    *)
(* labeled by id "i3".                                                    *)
TrainedModel ==
  [labeled |-> [k \in 1..6 |->
                  [tag   |-> <<"m1", "m2", "m3", "m4", "m5", "m6">>[k],
                   id    |-> IF k = 1 THEN "i3" ELSE NoId,
                   label |-> IF k % 2 = 1 THEN 1 ELSE 2]],
   unlabeled |-> <<>>]

EmptyModels == {EmptyModel}
TrainedModels == {TrainedModel}
AllModels == {EmptyModel, TrainedModel}

(* SmartApp::run calls startClassification(config): no label file.       *)
NoLabelFiles == {[lines |-> <<>>, newlineAtEnd |-> FALSE]}

(* Every label file of up to three lines with label 1 at 0, 2, 3 and 5 s: *)
(* pairs less than, exactly and more than 2.5 s apart, in any order,     *)
(* malformed lines and a last line without a newline.                    *)
GroundTruthFiles == LT!Files({0, 2, 3, 5}, {1}, 3)
=============================================================================
