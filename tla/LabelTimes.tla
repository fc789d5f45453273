------------------------------ MODULE LabelTimes ------------------------------
(***************************************************************************)
(* The ground-truth label list of EventLabelManager (EventLabelManager.h): *)
(* the std::set<LabelTimePair, TimePairComparator> `labels`, filled by     *)
(* loadLabelsFromFile and searched by getEventLabel and labelIsForEvent.   *)
(* TimePairComparator orders two pairs only when their times are more     *)
(* than 2.5 s apart, so "neither is smaller" is not transitive: a time can *)
(* be equivalent to two kept labels that are not equivalent to each      *)
(* other.  The operators below follow what the set does with it.         *)
(*                                                                         *)
(* Times are milliseconds; the file holds whole seconds (from_time_t).    *)
(* The set is the sequence of its elements in tree order.  The tree's     *)
(* descents test CompareLabels against a key, which is monotone along that *)
(* order, so lower_bound and the insert position do not depend on the    *)
(* tree's shape.  DataClassifier holds the set and looks its events up.  *)
(***************************************************************************)
EXTENDS Integers, Sequences

CONSTANTS
  AcceptedDifference,  \* accepted_time_difference, 2500 ms
  NoLabel              \* boost::none

Pair(label, time) == [label |-> label, time |-> time]

(* TimePairComparator::compareLabels.                                      *)
CompareLabels(l1, l2) == l1.time + AcceptedDifference < l2.time

(* labelIsForEvent: neither pair is smaller than the other.               *)
LabelIsForEvent(l, t) ==
  ~CompareLabels(Pair(NoLabel, t), l) /\ ~CompareLabels(l, Pair(NoLabel, t))

(* Mutant of Insert: the equivalence test looks at the element after the *)
(* insert position instead of the one before it.                          *)
InsertCheckingSuccessor(s, l) ==
  LET below == {i \in 1..Len(s) : ~CompareLabels(l, s[i])}
      j     == IF below = {} THEN 0 ELSE CHOOSE i \in below : \A k \in below : k <= i
  IN  IF j < Len(s) /\ ~CompareLabels(l, s[j + 1])
        THEN s
        ELSE SubSeq(s, 1, j) \o <<l>> \o SubSeq(s, j + 1, Len(s))

(* std::set::insert (_M_get_insert_unique_pos): j is the last element the *)
(* key is not smaller than; the key goes in after it unless j is not      *)
(* smaller than the key, which makes the two equivalent and the insert a  *)
(* no-op.                                                                 *)
Insert(s, l) ==
  LET below == {i \in 1..Len(s) : ~CompareLabels(l, s[i])}
      j     == IF below = {} THEN 0 ELSE CHOOSE i \in below : \A k \in below : k <= i
  IN  IF j > 0 /\ ~CompareLabels(s[j], l)
        THEN s
        ELSE SubSeq(s, 1, j) \o <<l>> \o SubSeq(s, j + 1, Len(s))

(* A line of the file: "epoch,label" read with >>, or text >> fails on.   *)
Lines(epochs, values) == [epoch : epochs, label : values, ok : BOOLEAN]

(* The files of at most n lines; a file that cannot be opened loads as   *)
(* one with no lines.                                                      *)
Files(epochs, values, n) ==
  [lines : UNION {[1..k -> Lines(epochs, values)] : k \in 0..n},
   newlineAtEnd : BOOLEAN]

(* file.good() after the line: >> failed on a malformed line, and          *)
(* ignore(50, '\n') hits end of file on a last line without a newline.    *)
LineGood(f, i) == f.lines[i].ok /\ (i < Len(f.lines) \/ f.newlineAtEnd)

(* loadLabelsFromFile: insert each good line, stop at the first bad one   *)
(* (at the end of the file >> fails and the loop ends too).               *)
RECURSIVE LoadFrom(_, _, _)
LoadFrom(f, i, s) ==
  IF i > Len(f.lines) \/ ~LineGood(f, i)
    THEN s
    ELSE LoadFrom(f, i + 1,
                  Insert(s, Pair(f.lines[i].label, f.lines[i].epoch * 1000)))

LoadLabelsFromFile(f) == LoadFrom(f, 1, <<>>)

(* Mutant of LowerBound: std::upper_bound, the first element the key is  *)
(* smaller than.                                                          *)
UpperBound(s, key) ==
  LET above == {i \in 1..Len(s) : CompareLabels(key, s[i])}
  IN  IF above = {} THEN 0 ELSE CHOOSE i \in above : \A k \in above : i <= k

(* std::set::lower_bound: the first element not smaller than the key.     *)
LowerBound(s, key) ==
  LET notBelow == {i \in 1..Len(s) : ~CompareLabels(s[i], key)}
  IN  IF notBelow = {} THEN 0 ELSE CHOOSE i \in notBelow : \A k \in notBelow : i <= k

(* std::set::find: lower_bound, found when the key is not smaller than it. *)
Find(s, key) ==
  LET i == LowerBound(s, key)
  IN  IF i > 0 /\ ~CompareLabels(key, s[i]) THEN i ELSE 0

(* getEventLabel: the label of the pair find returns, else boost::none;   *)
(* the lower_bound after a miss only logs the neighbours.                 *)
GetEventLabel(s, t) ==
  IF s = <<>> THEN NoLabel
  ELSE LET i == Find(s, Pair(NoLabel, t))
       IN  IF i > 0 THEN s[i].label ELSE NoLabel

(* The set holds its elements in increasing time, each more than the     *)
(* tolerance after the one before.                                       *)
Apart(s) == \A i \in 1..Len(s) - 1 : CompareLabels(s[i], s[i + 1])

=============================================================================
