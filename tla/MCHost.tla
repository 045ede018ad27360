------------------------------- MODULE MCHost -------------------------------
(* A small instance of Host: a texto ordenado of two passages that takes in *)
(* a comunicación which came after its first version.                       *)
EXTENDS Host

Part(d, n, v, sees, bare) ==
  [doc |-> d, n |-> n, v |-> v, sees |-> sees, bare |-> bare, back |-> FALSE]

MCPassages(d, v) ==
  IF d = TO THEN {Part(TO, 1, v, 2, TRUE), [Part(TO, 2, v, None, FALSE) EXCEPT !.back = (v = 2)]}
  ELSE {Part(d, 1, d, 1, FALSE)}

MCListings ==
  {[d \in {TO} |-> 1], [d \in {TO, 2} |-> IF d = TO THEN 1 ELSE d], [d \in {TO, 2} |-> 2]}

Question(ids, lookup, vigente, back) == [ids |-> ids, lookup |-> lookup, vigente |-> vigente, back |-> back]

MCAsked ==
  {Question(<<>>, FALSE, FALSE, FALSE), Question(<<>>, FALSE, TRUE, TRUE),
   Question(<<2>>, TRUE, TRUE, FALSE), Question(<<2, 1>>, FALSE, TRUE, FALSE)}

Asking(suites, context, judge, llm, gate) ==
  [suites |-> suites, context |-> context, judge |-> judge, llm |-> llm, gate |-> gate]

MCOptions ==
  {Asking("both", "retrieved", TRUE, TRUE, "strict"),
   Asking("generation", "retrieved", FALSE, TRUE, "lenient")}
=============================================================================
