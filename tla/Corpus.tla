------------------------------- MODULE Corpus -------------------------------
(***************************************************************************)
(* What ingest promises the chat: of each document, which version the      *)
(* manifest records, and which version, if any, the index serves whole.    *)
(* A crash is not visible here: it only delays the next step.              *)
(***************************************************************************)
EXTENDS Naturals

CONSTANTS Comms, TO, Versions, NoVersion

VARIABLES
  row,       \* recorded version of each document, and how far it got
  served,    \* version the index can answer from in full, or NoVersion
  finished   \* a full run has been completed

corpusVars == <<row, served, finished>>

CorpusDocs == Comms \cup {TO}

CorpusInit ==
  /\ row = [d \in CorpusDocs |-> [ver |-> NoVersion, state |-> "missing"]]
  /\ served = [d \in CorpusDocs |-> NoVersion]
  /\ finished = FALSE

(* A comunicación is recorded once; the texto ordenado is replaced, but    *)
(* only when the version recorded before it had become the served one.     *)
Record(d, v) ==
  /\ \/ row[d].state = "missing"
     \/ d = TO /\ row[d].state = "served" /\ row[d].ver # v
  /\ row' = [row EXCEPT ![d] = [ver |-> v, state |-> "stored"]]
  /\ UNCHANGED <<served, finished>>

Retract(d) ==
  /\ row[d].state = "stored"
  /\ served[d] # NoVersion
  /\ served' = [served EXCEPT ![d] = NoVersion]
  /\ UNCHANGED <<row, finished>>

Publish(d) ==
  /\ row[d].state = "stored"
  /\ served[d] = NoVersion
  /\ served' = [served EXCEPT ![d] = row[d].ver]
  /\ UNCHANGED <<row, finished>>

Confirm(d) ==
  /\ row[d].state = "stored"
  /\ served[d] = row[d].ver
  /\ row' = [row EXCEPT ![d].state = "served"]
  /\ UNCHANGED <<served, finished>>

Finish ==
  /\ finished' = TRUE
  /\ UNCHANGED <<row, served>>

CorpusNext ==
  \/ \E d \in CorpusDocs :
       \/ \E v \in Versions : Record(d, v)
       \/ Retract(d) \/ Publish(d) \/ Confirm(d)
  \/ Finish

Spec == CorpusInit /\ [][CorpusNext]_corpusVars
=============================================================================
