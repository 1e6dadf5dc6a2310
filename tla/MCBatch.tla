------------------------------- MODULE MCBatch -------------------------------
(* An instance of Batch for TLC: up to four rows of every size, small,       *)
(* of most of a packet, of more than one, and in several pieces, three of    *)
(* every type, and up to four that do not suit.                              *)
EXTENDS Batch

Row(type, pieces) == [type |-> type, pieces |-> pieces, suits |-> TRUE]
Unsuited == [Row("int", <<1, 1>>) EXCEPT !.suits = FALSE]
Sizes == {<<1, 1>>, <<1, 4>>, <<1, 9>>, <<1, 7, 1>>}
Types == {"int", "text", "date", "null"}
MCBatches ==
  UNION {[1..n -> {Row("int", s) : s \in Sizes}] : n \in {1, 2, 4}}
  \cup UNION {[1..3 -> {Row(t, s) : t \in Types}] : s \in {<<1, 1>>, <<1, 4>>}}
  \cup UNION {[1..n -> {Unsuited}] : n \in 1..4}
MCLevels == <<8, 10>>
=============================================================================
