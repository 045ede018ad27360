------------------------------- MODULE Router -------------------------------
(***************************************************************************)
(* How a question finds its passages (domain/router.py), and how one       *)
(* search ranks them (adapters/index_chroma.py, domain/bm25.py).           *)
(*                                                                         *)
(* Comunicaciones are numbered as they were issued, from 1; the texto      *)
(* ordenado is document 0, and its version is the number of the last one   *)
(* it takes in.  The two rankings of a question, by meaning and by words,  *)
(* are inputs.                                                             *)
(***************************************************************************)
EXTENDS Integers, SequencesExt, Lists

CONSTANTS
  None,
  K,           \* passages a search returns
  Candidates   \* passages it looks at, of either ranking

ASSUME RouterAssumption == K \in Nat \ {0} /\ Candidates \in Nat /\ K <= Candidates

TO == 0
Comms == Nat \ {0}

(* sees is the comunicación it refers to; bare says that it does no more;  *)
(* back that it is a list of origins.  n is its place, 0 for a section.    *)
Chunks == [doc : Nat, n : Nat, v : Nat, sees : Nat \cup {None}, bare : BOOLEAN, back : BOOLEAN]

Id(c) == <<c.doc, c.n>>

(* ids: the comunicaciones it names; lookup: it asks what one says;        *)
(* vigente: for the rule in force; back: for origins.                      *)
Questions == [ids : Seq(Comms), lookup : BOOLEAN, vigente : BOOLEAN, back : BOOLEAN]

-----------------------------------------------------------------------------
(* One search.                                                             *)

(* Reciprocal rank, as a fraction: 1 / (60 + rank), or nothing; and the    *)
(* sum of those of the two lists.                                          *)
Share(list, c) ==
  LET ranks == {i \in DOMAIN list : Id(list[i]) = Id(c)}
  IN  IF ranks = {} THEN [num |-> 0, den |-> 1] ELSE [num |-> 1, den |-> 60 + Min(ranks)]

Score(dense, lexical, c) ==
  LET p == Share(dense, c)
      q == Share(lexical, c)
  IN  [num |-> p.num * q.den + q.num * p.den, den |-> p.den * q.den]

Above(p, q) == p.num * q.den > q.num * p.den

(* rrf: equal scores stay in the order they were first seen.  A passage    *)
(* that both lists hold is taken from the first.  Each goes to the place   *)
(* given by the number of those before it.                                 *)
Fused(dense, lexical) ==
  LET dup == {Id(dense[i]) : i \in DOMAIN dense}
      seen == dense \o Kept(lexical, {c \in Chunks : Id(c) \notin dup})
      score == [i \in DOMAIN seen |-> Score(dense, lexical, seen[i])]
      before(i, j) == Above(score[i], score[j]) \/ (i < j /\ ~Above(score[j], score[i]))
      ahead == [i \in DOMAIN seen |-> Cardinality({j \in DOMAIN seen : before(j, i)})]
  IN  [n \in DOMAIN seen |-> seen[CHOOSE i \in DOMAIN seen : ahead[i] = n - 1]]

Top(list, k) == SubSeq(list, 1, IF Len(list) < k THEN Len(list) ELSE k)

(* rank.dense is of the passages stored, rank.lexical of those the lexicon *)
(* was built from, as far as they share a word with the question.  The     *)
(* store itself filters by kind of document only (docs), and the lexicon   *)
(* not at all: what is not wanted is dropped from the candidates.          *)
Search(rank, docs, wanted) ==
  LET of(list, set) == Kept(list, {c \in Chunks : c.doc \in set})
  IN  Top(Fused(of(Top(of(rank.dense, docs), Candidates), wanted),
                of(Top(rank.lexical, Candidates), wanted)), K)

(* section_text: nothing, or all a document says.                          *)
Section(stored, doc) ==
  LET parts == {c \in stored : c.doc = doc}
      refs == {c.sees : c \in parts} \ {None}
  IN  [doc |-> doc, n |-> 0, v |-> IF parts = {} THEN 0 ELSE (CHOOSE c \in parts : TRUE).v,
       sees |-> IF refs = {} THEN None ELSE Min(refs),
       bare |-> \A c \in parts : c.bare, back |-> \E c \in parts : c.back]

Written(stored, doc) == \E c \in stored : c.doc = doc

-----------------------------------------------------------------------------
(* The three routes.  Definitions named Bad... are seeded faults: the one  *)
(* after as a plausible slip would have left it.                           *)

Silencio(kind) == [kind |-> kind, hits |-> <<>>, silencio |-> TRUE]
Hits(kind, hits) == [kind |-> kind, hits |-> hits, silencio |-> FALSE]

ExclusiveNamedId(q) ==
  IF q.ids # <<>> /\ (q.lookup \/ ~q.vigente) THEN q.ids[1] ELSE None

NamedFetch(doc, documents, stored) ==
  IF doc \in documents /\ Written(stored, doc) THEN Hits("named", <<Section(stored, doc)>>)
  ELSE Silencio("named")

BadMergeVigente(to, extra) == Top(to \o extra, K)

(* At least one place, and half of them, go to what came after the texto   *)
(* ordenado; either side takes what the other leaves.                      *)
MergeVigente(to, extra) ==
  LET min(a, b) == IF a < b THEN a ELSE b
      max(a, b) == IF a > b THEN a ELSE b
      slots == min(Len(extra), max(1, K \div 2))
      chosen == Top(to, max(0, K - slots))
  IN  IF extra = <<>> THEN Top(to, K)
      ELSE Top(chosen \o Top(extra, IF Len(chosen) < K - slots THEN min(Len(extra), K - Len(chosen))
                                    ELSE slots), K)

Vigente(rank, asOf) ==
  Hits("vigente", MergeVigente(Search(rank, {TO}, {TO}),
                               Search(rank, Comms, Comms \ (0 .. asOf))))

Similar(rank) == Hits("similar", Search(rank, Nat, Nat))

DropBackMatter(result, q) ==
  IF q.back THEN result ELSE [result EXCEPT !.hits = Kept(@, {c \in Chunks : ~c.back})]

(* _xref_hop: the first reference of the passages found, followed once.    *)
XrefHop(result, q, documents, stored) ==
  LET hits == result.hits
      seeing == {i \in DOMAIN hits : hits[i].sees # None}
      target == hits[Min(seeing)].sees
  IN  IF \/ seeing = {}
         \/ \E i \in DOMAIN hits : hits[i].doc = target
         \/ result.kind = "named" /\ ExclusiveNamedId(q) = target
      THEN result
      ELSE IF target \in documents
      THEN [result EXCEPT !.hits = Append(@, Section(stored, target))]
      ELSE IF \/ q.ids # <<>> /\ q.ids[1] = target
              \/ \A i \in DOMAIN hits : hits[i].bare
      THEN Silencio(result.kind)
      ELSE result

Route(q, rank, documents, asOf, stored) ==
  LET named == ExclusiveNamedId(q)
      result == IF named # None THEN NamedFetch(named, documents, stored)
                ELSE IF q.vigente THEN Vigente(rank, asOf)
                ELSE Similar(rank)
  IN  IF result.silencio THEN result
      ELSE XrefHop(DropBackMatter(result, q), q, documents, stored)
=============================================================================
