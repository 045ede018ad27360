-------------------------------- MODULE MCTab --------------------------------
(* A small instance of Tab: two turns, and streams of up to three pieces,   *)
(* cut inside the tags.                                                     *)
EXTENDS Tab

MCTurns == 1 .. 2

Delta(reasoning, content) == [reasoning |-> reasoning, content |-> content, whole |-> FALSE]
Whole(content) == [reasoning |-> <<>>, content |-> content, whole |-> TRUE]

(* Both tags cut, an answer that is also thought and a "<" that begins no  *)
(* tag; tags that are text because thinking comes in its own field; and a  *)
(* message that comes whole.                                               *)
MCWires ==
  {<<Delta(<<>>, <<"<">>), Delta(<<>>, <<"think>", "json", "<", "<">>),
     Delta(<<>>, <<"/think>", "json">>)>>,
   <<Delta(<<"word">>, <<"<">>), Delta(<<"word">>, <<"think>", "json">>)>>,
   <<Whole(<<"<", "think>", "word", "<", "/think>", "json">>)>>}
=============================================================================
