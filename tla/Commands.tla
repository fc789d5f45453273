------------------------------- MODULE Commands -------------------------------
(***************************************************************************)
(* The text commands of the inter-process channel between the nofare      *)
(* client and the server (src/nofare_app/src/common/*Command.cpp).  A      *)
(* message is its prefix and the tokens of the rest of the text: a number  *)
(* as std::ostream prints it, which the token holds as the value the text  *)
(* denotes, or a comma.  Event ids are printed in full; a label is a       *)
(* double, printed with the stream's default precision of six significant  *)
(* digits, and the labels are device ids, i.e. non-negative integers.      *)
(***************************************************************************)
EXTENDS Naturals, Sequences
LOCAL INSTANCE SequencesExt

Num(v) == [kind |-> "number", num |-> v]
Comma == [kind |-> "comma"]
IsComma(t) == t.kind = "comma"

(* The result of a deserialize that throws.                              *)
Thrown == [ok |-> FALSE]

RECURSIVE Digits(_)
Digits(x) == IF x < 10 THEN 1 ELSE 1 + Digits(x \div 10)

(* std::ostream << double with precision 6 (%g): an integer of at most    *)
(* six digits is printed exactly, a longer one in scientific notation     *)
(* rounded to six significant digits, ties to even (the value is exact).  *)
FormatLabel(x) ==
  IF Digits(x) <= 6 THEN x
  ELSE LET s == 10^(Digits(x) - 6)
           q == x \div s
           r == x % s
       IN  (IF 2 * r > s \/ (2 * r = s /\ q % 2 = 1) THEN q + 1 ELSE q) * s

AddLabelPrefix == "add-label:"
ReclassifyPrefix == "reclassify:"
ShutdownPrefix == "shutdown:"

(* isAddLabelCommand, isReclassifyCommand, isShutDownCommand: the prefix. *)
IsAddLabelCommand(m) == m.prefix = AddLabelPrefix
IsReclassifyCommand(m) == m.prefix = ReclassifyPrefix
IsShutDownCommand(m) == m.prefix = ShutdownPrefix

(* AddLabelCommand::serialize: prefix, event_id, ",", label.              *)
SerializeAddLabel(id, label) ==
  [prefix |-> AddLabelPrefix, body |-> <<Num(id), Comma, Num(FormatLabel(label))>>]

(* ReclassifyCommand::serialize and ShutdownCommand::serialize.           *)
SerializeReclassify(id) == [prefix |-> ReclassifyPrefix, body |-> <<Num(id)>>]
SerializeShutdown == [prefix |-> ShutdownPrefix, body |-> <<>>]

(* std::stoul / std::stod on the text of a token sequence: the number it  *)
(* starts with; std::invalid_argument when it starts with anything else.  *)
Parses(s) == s # <<>> /\ ~IsComma(s[1])
ParsedValue(s) == s[1].num

(* AddLabelCommand::deserialize: throws -1 without a comma or with the    *)
(* comma last; otherwise stoul of the text before the first comma and     *)
(* stod of the text after it, either of which may throw.                  *)
DeserializeAddLabel(m) ==
  LET c == SelectInSeq(m.body, IsComma)
      before == SubSeq(m.body, 1, c - 1)
      after == SubSeq(m.body, c + 1, Len(m.body))
  IN  IF c = 0 \/ c = Len(m.body) \/ ~Parses(before) \/ ~Parses(after)
        THEN Thrown
        ELSE [ok |-> TRUE, id |-> ParsedValue(before), label |-> ParsedValue(after)]

(* ReclassifyCommand::deserialize: stoul of the text after the prefix.    *)
DeserializeReclassify(m) ==
  IF Parses(m.body) THEN [ok |-> TRUE, id |-> ParsedValue(m.body)] ELSE Thrown

=============================================================================
