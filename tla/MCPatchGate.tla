---------------------------- MODULE MCPatchGate ----------------------------
(* Instances of PatchGate for TLC: two problems of a few rows each, with   *)
(* the defects of the corpus: a chain that skips, a namespace that deviates, *)
(* a missing name, an answer of the wrong form, two equal choices.         *)
EXTENDS PatchGate

Id(ns, n) == [namespace |-> ns, number |-> n]
MCIdentifier == [t \in {"h1", "h2", "s1"} |->
    CASE t = "h1" -> Id("h", 1) [] t = "h2" -> Id("h", 2) [] OTHER -> Id("s", 1)]
MCSeveral == [t \in {"h1,h2"} |-> {"h1", "h2"}]
MCChoices == [t \in {"1/2|2", "0.5|1/2"} |-> IF t = "1/2|2" THEN <<"1/2", "2">> ELSE <<"0.5", "1/2">>]
MCStatement == [t \in {"1/2", "0.5", "2", "x=2", "(1,2)"} |->
    [target |-> IF t = "x=2" THEN "x" ELSE "",
     value |-> CASE t \in {"2", "x=2"} -> <<2>> [] t = "(1,2)" -> <<1, 2>> [] OTHER -> <<5>>]]

Row(name, type, title, answer, id, dependency) ==
    [k \in {"name", "type", "title", "body", "answer", "answerType", "id", "dependency", "choices", "license"} |->
        CASE k = "name" -> name [] k = "type" -> type [] k = "title" -> title [] k = "answer" -> answer
          [] k = "body" -> "b" [] k = "choices" -> ""
          [] k = "license" -> IF type = "problem" THEN "cc" ELSE ""
          [] k = "answerType" -> IF answer = "" THEN "" ELSE "numeric"
          [] k = "id" -> id [] OTHER -> dependency]

Choose(n, a, choices) == [Row(n, "step", "t", a, "", "") EXCEPT !["choices"] = choices, !["answerType"] = "mc"]
Problem(n) == Row(n, "problem", "t", "", "", "")
Step(n, a) == Row(n, "step", "exact", a, "", "")
Hint(n, id, d) == Row(n, "hint", "t", "", id, d)
Scaffold(n, id, d) == Row(n, "scaffold", "t", "2", id, d)

MCSubmitted == {
    <<Problem("p"), Step("p", "1/2"), Hint("p", "h1", ""), Hint("p", "h2", ""),
      Problem("q"), Step("q", "2"), Scaffold("q", "s1", "h1")>>,
    <<Problem("p"), Step("p", "x=2"), Hint("p", "h1", "h1,h2"), Scaffold("", "h2", "h1"),
      Step("p", "2"), Hint("p", "h1", ""), Scaffold("p", "s1", "h1")>>,
    <<Problem("p"), Step("p", "2"), Hint("p", "h1", ""),
      Problem("p"), Choose("p", "1/2", "0.5|1/2"), Scaffold("p", "h2", ""), Hint("p", "h2", "h2")>>}

MCPatchCells == [k \in {"name", "type", "answer", "answerType", "id", "dependency", "choices"} |->
    CASE k = "name" -> {"p", ""} [] k = "type" -> {"problem", "hint", "p"}
      [] k = "answer" -> {"0.5", "2"} [] k = "answerType" -> {"algebra"} [] k = "choices" -> {"1/2|2"}
      [] OTHER -> {"", "h1", "h2", "s1"}]

\* Linked edits of identifiers and dependencies in neighbouring rows.
MCPairs(s, b) == {{<<r, "id">>, <<t, "dependency">>} : <<r, t>> \in {x \in b.rows \X b.rows : x[2] - x[1] \in 0 .. 1}}

\* An auditor may take any of these cells for defective.
MCModelCells == {<<2, "answer">>, <<3, "dependency">>, <<4, "id">>, <<4, "type">>, <<7, "answerType">>}
=============================================================================
