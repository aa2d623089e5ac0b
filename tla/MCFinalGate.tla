---------------------------- MODULE MCFinalGate ----------------------------
(* An instance of FinalGate for TLC: a wrapped row with a number in the
   answer column, and a plain row with an empty string in it.              *)
EXTENDS FinalGate

MCRows == {1, 2}
MCColumns == {"Title", "Answer"}
MCForced == {"Answer"}
Cell(text, type, format, wrap) == [text |-> text, type |-> type, format |-> format, wrap |-> wrap]
MCSourceCell == [c \in MCRows \X MCColumns |->
    CASE c = <<1, "Title">>  -> Cell("a", "s", "General", "on")
      [] c = <<1, "Answer">> -> Cell("b", "n", "General", "on")
      [] c = <<2, "Title">>  -> Cell("", "s", "General", "off")
      [] c = <<2, "Answer">> -> Cell("a", "s", "@", "off")]
MCSourceHeight == [r \in MCRows |-> IF r = 1 THEN "own" ELSE "15"]
=============================================================================
