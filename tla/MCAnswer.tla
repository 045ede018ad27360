------------------------------ MODULE MCAnswer ------------------------------
(* Small instances of Answer: passages of one or two documents, drafts with *)
(* up to two citations, and a policy with every rail on, all or one of them *)
(* in shadow mode, or one disabled.                                         *)
EXTENDS Answer

CONSTANTS to, a1    \* the texto ordenado and one comunicacion

Quote(anchor, markup, duty) == [anchor |-> anchor, markup |-> markup, duty |-> duty]

Passage(doc, text, size, markup, duty) ==
  [doc |-> doc, text |-> text, size |-> size,
   opening |-> Quote("exact", markup, duty), fits |-> IF doc = to THEN {} ELSE Filters]

MCSearches ==
  {<<Passage(a1, "plain", 1, FALSE, "in run")>>,
   <<Passage(to, "plain", 1, TRUE, "no"), Passage(a1, "marked", 1, FALSE, "no")>>,
   <<Passage(a1, "jailbreak", 1, FALSE, "no"), Passage(to, "plain", 3, FALSE, "in run"),
     Passage(to, "plain", 1, FALSE, "no")>>,
   <<Passage(a1, "jailbreak", 1, FALSE, "no"), Passage(to, "marks", 1, FALSE, "no")>>}

MCPolicies ==
  {[enabled |-> Rails, enforced |-> e] : e \in {Rails, {}} \cup {Rails \ {r} : r \in Rails}}
    \cup {[enabled |-> Rails \ {r}, enforced |-> Rails] : r \in {"cite-or-abstain"}}

MCQuotes ==
  {Quote("exact", FALSE, "in run"), Quote("exact", TRUE, "no"),
   Quote("near", FALSE, "in rest"), Quote("none", FALSE, "in run"),
   Quote("empty", FALSE, "no")}

Cited ==
  {[id |-> d, quote |-> q, fits |-> IF d = to THEN {} ELSE Filters] :
     d \in Docs, q \in MCQuotes}

Lists == {<<>>} \cup {<<c>> : c \in Cited}
Second == {c \in Cited : c.quote.anchor \in {"near", "none"} \/ c.quote.duty = "in run"}
Pairs == {<<c, d>> : c \in Cited, d \in Second}

Marked == [id |-> a1, quote |-> Quote("exact", TRUE, "no"), fits |-> Filters]

(* One mark at most, or two of those that meet in a stage.                 *)
FewMarks ==
  {m \in SUBSET Marks : Cardinality(m) <= 1}
    \cup {{m, n} : m, n \in {"vigente", "freeze in tag", "no clause", "advice",
                             "named id", "markup"}}

MCDrafts ==
  [finding : {"obligacion"}, answer : {{}}, citations : Lists \cup Pairs]
    \cup [finding : {"obligacion"}, answer : FewMarks, citations : {<<>>, <<Marked>>}]
    \cup [finding : {"silencio"}, answer : FewMarks, citations : {<<Marked>>}]
    \cup [finding : {"obligacion"}, answer : {{"named id"}},
          citations : {<<c>> : c \in {x \in Cited : x.id = to}}]
=============================================================================
