----------------------------- MODULE HostProofs -----------------------------
(***************************************************************************)
(* What Host promises for any units, evaluations, dumps and questions: a   *)
(* job works alone, the service down unless a deployment started it again; *)
(* results that passed the gate stand; and a turn quotes what is stored,   *)
(* is dated by it and routed as it was asked.                              *)
(***************************************************************************)
EXTENDS Host, RouterProofs

Past == {"locked", "stopped", "working", "ending", "leaving"}   \* the flock

(* Who is past the lock holds it, and no two are; and where the service is *)
(* to be down it is, or a deployment is to blame.  WorkAlone says this of  *)
(* a job at work only, so that neither its taking of the lock nor its stop *)
(* of the service could be followed.                                       *)
Held == \A j \in Jobs : job[j] \in Past => lock = j
Down == \A j \in Jobs : job[j] \in {"stopped", "working", "ending"} => svc = "stopped" \/ cut

IInv == TypeOK /\ Held /\ Down

(* Every service and helper starts idle.                                   *)
LEMMA InitHolds == Init => IInv
<1> SUFFICES ASSUME Init PROVE IInv
  OBVIOUS
<1>1. lock \in Jobs \cup {None} /\ job \in [Jobs -> Stages]
  BY DEF Init, Stages
<1>2. svc \in {"up", "stopped", "failed"} /\ runs \in 0 .. MaxRuns
  BY HostAssumption DEF Init
<1>3. cut \in BOOLEAN /\ published \in BOOLEAN /\ whole \in BOOLEAN
  BY DEF Init
<1>4. Held /\ Down
  BY DEF Init, Held, Down, Past
<1> QED
  BY <1>1, <1>2, <1>3, <1>4 DEF IInv, TypeOK

(* What the invariant reads stays as it is, but for the note that the dump *)
(* is whole, in the steps of a turn and of the programs a helper runs.     *)
LEMMA Aside ==
  ASSUME IInv, UNCHANGED <<lock, job, runs, svc, cut, published>>, whole' \in BOOLEAN
  PROVE  IInv'
BY DEF IInv, TypeOK, Held, Down

(* The service or one that operates it moves, and no helper.               *)
LEMMA ServiceSteps ==
  ASSUME IInv, Crash \/ Restart \/ Deploy \/ Publish \/ Reboot
  PROVE  IInv'
<1> USE DEF IInv
<1>1. CASE Crash
  BY <1>1 DEF Crash, TypeOK, Held, Down, helpers, disk
<1>2. CASE Restart
  BY <1>2 DEF Restart, Started, TypeOK, Held, Down, helpers, disk
<1>3. CASE Deploy
  BY <1>3 DEF Deploy, Started, TypeOK, Held, Down, helpers
<1>4. CASE Publish
  BY <1>4 DEF Publish, TypeOK, Held, Down, helpers
<1>5. CASE Reboot
  BY <1>5 DEF Reboot, Started, TypeOK, Held, Down, Past, Stages
<1> QED
  BY <1>1, <1>2, <1>3, <1>4, <1>5

(* A helper goes to its next place.                                        *)
LEMMA HelperMoves ==
  ASSUME IInv, NEW j \in Jobs, NEW place \in Stages, Goto(j, place),
         runs' \in 0 .. MaxRuns, svc' \in {"up", "stopped", "failed"},
         cut' \in BOOLEAN, published' \in BOOLEAN, whole' \in BOOLEAN,
         lock' \in Jobs \cup {None},
         \A i \in Jobs \ {j} : job[i] \in Past => lock' = i,
         place \in Past => lock' = j,
         \A i \in Jobs : job'[i] \in {"stopped", "working", "ending"} => svc' = "stopped" \/ cut'
  PROVE  IInv'
<1>1. \A i \in Jobs : job'[i] = IF i = j THEN place ELSE job[i]
  BY DEF IInv, TypeOK, Goto
<1>2. TypeOK'
  BY DEF IInv, TypeOK, Goto
<1>3. Held'
  BY <1>1 DEF Held
<1>4. Down'
  BY DEF Down
<1> QED
  BY <1>2, <1>3, <1>4 DEF IInv

(* What stands while a helper takes a step, for HelperMoves.               *)
LEMMA Standing ==
  ASSUME IInv
  PROVE  /\ runs \in 0 .. MaxRuns /\ svc \in {"up", "stopped", "failed"}
         /\ cut \in BOOLEAN /\ published \in BOOLEAN /\ whole \in BOOLEAN
         /\ lock \in Jobs \cup {None}
         /\ \A i \in Jobs : job[i] \in Past => lock = i
         /\ \A i \in Jobs : job[i] \in {"stopped", "working", "ending"} => svc = "stopped" \/ cut
         /\ \A j \in Jobs, place \in Stages : Goto(j, place) =>
              \A i \in Jobs : job'[i] = IF i = j THEN place ELSE job[i]
BY DEF IInv, TypeOK, Held, Down, Goto

(* The steps of the helper script itself.                                  *)
LEMMA ScriptSteps ==
  ASSUME IInv, NEW j \in Jobs,
         Call(j) \/ Acquire(j) \/ StopService(j) \/ Fail(j) \/ StartService(j) \/ Release(j)
  PROVE  IInv'
<1> USE Standing DEF Stages, Past
<1>1. CASE Call(j)
  <2>1. runs' \in 0 .. MaxRuns
    BY <1>1, HostAssumption DEF Call
  <2> QED
    BY <1>1, <2>1, HelperMoves DEF Call, disk, service
<1>2. CASE Acquire(j)
  <2>1. \A i \in Jobs : job[i] \notin Past
    BY <1>2, HostAssumption DEF Acquire
  <2> QED
    BY <1>2, <2>1, HelperMoves DEF Acquire, disk, service
<1>3. CASE StopService(j)
  BY <1>3, HelperMoves DEF StopService, Stopped, disk
<1>4. CASE Fail(j)
  BY <1>4, HelperMoves DEF Fail, service
<1>5. CASE StartService(j)
  <2>1. \A i \in Jobs \ {j} : job[i] \notin Past
    BY <1>5 DEF StartService
  <2>2. CASE svc = "up"
    BY <1>5, <2>1, <2>2, HelperMoves DEF StartService, disk, service
  <2>3. CASE svc # "up"
    BY ZenonT(60), <1>5, <2>1, <2>3, HelperMoves DEF StartService, Started, disk
  <2> QED
    BY <2>2, <2>3
<1>6. CASE Release(j)
  <2>1. \A i \in Jobs \ {j} : job[i] \notin Past
    BY <1>6 DEF Release
  <2> QED
    BY <1>6, <2>1, HelperMoves DEF Release, disk, service
<1> QED
  BY <1>1, <1>2, <1>3, <1>4, <1>5, <1>6

(* The program it runs.                                                    *)
LEMMA ProgramSteps ==
  ASSUME IInv, NEW j \in Jobs,
         \/ BeginWrite(j) \/ Checkpoint(j) \/ Delete(j) \/ Upsert(j) \/ Flag(j) \/ EndWrite(j)
         \/ BeginScore(j) \/ Retrieval(j) \/ Generation(j) \/ WriteL1(j) \/ Gate(j) \/ EndScore(j)
  PROVE  IInv'
<1> USE Standing
<1>1. CASE BeginWrite(j)
  BY <1>1, HelperMoves DEF BeginWrite, Stages, Past, disk, service
<1>2. CASE Checkpoint(j) \/ Delete(j) \/ Upsert(j) \/ Flag(j)
  BY <1>2, Aside DEF Checkpoint, Delete, Upsert, Flag, Writing
<1>3. CASE EndWrite(j)
  BY <1>3, HelperMoves DEF EndWrite, Stages, Past
<1>4. CASE BeginScore(j)
  BY <1>4, HelperMoves DEF BeginScore, Stages, Past, disk, service
<1>5. CASE Retrieval(j) \/ Generation(j) \/ WriteL1(j) \/ Gate(j)
  BY <1>5, Aside DEF Retrieval, Generation, WriteL1, Gate, Scoring, service
<1>6. CASE EndScore(j)
  BY <1>6, HelperMoves DEF EndScore, Scoring, Stages, Past, service
<1> QED
  BY <1>1, <1>2, <1>3, <1>4, <1>5, <1>6

LEMMA StepHolds == IInv /\ [Next]_vars => IInv'
<1> SUFFICES ASSUME IInv, [Next]_vars PROVE IInv'
  OBVIOUS
<1>1. CASE \E q \in Asked : Begin(q)
  BY <1>1, Aside, Standing DEF Begin, disk, helpers
<1>2. CASE Find \/ Reply
  BY <1>2, Aside, Standing DEF Find, Reply, disk, helpers
<1>3. CASE Crash \/ Restart \/ Deploy \/ Publish \/ Reboot
  BY <1>3, ServiceSteps
<1>4. CASE \E j \in Jobs : Call(j) \/ HelperStep(j)
  BY <1>4, ScriptSteps, ProgramSteps DEF HelperStep
<1>5. CASE UNCHANGED vars
  BY <1>5, Aside, Standing DEF vars, disk, helpers, service
<1> QED
  BY <1>1, <1>2, <1>3, <1>4, <1>5 DEF Next

-----------------------------------------------------------------------------
(* The variables that say who may work stay of their type.                 *)
THEOREM Typing == Spec => []TypeOK
<1>1. IInv => TypeOK
  BY DEF IInv
<1> QED
  BY InitHolds, StepHolds, <1>1, PTL DEF Spec

(* However many units and evaluations want the lock, and whatever fails,   *)
(* crashes, deploys or reboots, a job works alone: it holds the lock, no   *)
(* other helper is past it, and the service is down, where no deployment   *)
(* started it again.                                                       *)
THEOREM JobsWorkAlone == Spec => []WorkAlone
<1>1. IInv => WorkAlone
  BY DEF IInv, TypeOK, Held, Down, WorkAlone, Stages, Past
<1> QED
  BY InitHolds, StepHolds, <1>1, PTL DEF Spec

-----------------------------------------------------------------------------
(* What the return of the service rests on.                                *)

BringsBack == {"stopped", "working", "ending"}

StoppedIsHeld == svc = "stopped" => \E j \in Jobs : job[j] \in BringsBack /\ lock = j

(* A helper that moves among the places from which it starts the service,  *)
(* or into them, is one that will start it.                                *)
LEMMA StillHeld ==
  ASSUME IInv', NEW j \in Jobs, job'[j] \in BringsBack
  PROVE  StoppedIsHeld'
BY DEF StoppedIsHeld, BringsBack, IInv, Held, Past

(* No step leaves the service stopped with nobody to start it.             *)
LEMMA HeldNext == IInv /\ StoppedIsHeld /\ [Next]_vars => StoppedIsHeld'
<1> SUFFICES ASSUME IInv, StoppedIsHeld, [Next]_vars PROVE StoppedIsHeld'
  OBVIOUS
<1>0. IInv'
  BY StepHolds
<1>1. CASE UNCHANGED <<svc, job, lock>>
  BY <1>1 DEF StoppedIsHeld
<1>2. CASE svc' # "stopped"
  BY <1>2 DEF StoppedIsHeld
<1>3. ASSUME NEW j \in Jobs, job'[j] \in BringsBack PROVE StoppedIsHeld'
  BY <1>0, <1>3, StillHeld
<1>4. ASSUME NEW q \in Asked, Begin(q) PROVE StoppedIsHeld'
  BY <1>1, <1>4 DEF Begin, helpers
<1>5. CASE Find \/ Reply
  BY <1>1, <1>5 DEF Find, Reply, helpers
<1>6. CASE Crash \/ Restart \/ Deploy \/ Reboot
  BY <1>2, <1>6 DEF Crash, Restart, Deploy, Reboot, Started
<1>7. CASE Publish
  BY <1>1, <1>7 DEF Publish, helpers
<1>8. ASSUME NEW j \in Jobs, Call(j) \/ HelperStep(j)
      PROVE  StoppedIsHeld'
  <2>0. \A i \in Jobs : \A place : Goto(i, place) => job' = [job EXCEPT ![i] = place] /\ job'[i] = place
    BY DEF IInv, TypeOK, Goto
  <2>1. CASE Call(j) \/ Acquire(j)
    <3>1. /\ job[j] \notin BringsBack /\ UNCHANGED svc /\ (\E place : Goto(j, place))
      BY <2>1 DEF Call, Acquire, BringsBack, service
    <3>2. \A i \in Jobs : job[i] \in BringsBack => job'[i] = job[i]
      BY <2>0, <3>1 DEF IInv, TypeOK
    <3> QED
      BY <1>2, <1>3, <3>1, <3>2 DEF StoppedIsHeld
  <2>2. CASE StopService(j) \/ Fail(j) \/ BeginWrite(j) \/ EndWrite(j) \/ BeginScore(j) \/ EndScore(j)
    <3>1. \E place \in BringsBack : Goto(j, place)
      BY <2>2 DEF StopService, Fail, BeginWrite, EndWrite, BeginScore, EndScore, BringsBack
    <3> QED
      BY <1>3, <2>0, <3>1
  <2>3. CASE StartService(j)
    <3>1. svc' = "up"
      BY <2>3 DEF StartService, Started, service
    <3> QED
      BY <1>2, <3>1
  <2>4. CASE Release(j)
    <3>1. \A i \in Jobs : job[i] \notin BringsBack
      BY <2>4 DEF Release, IInv, Held, Past, BringsBack
    <3>2. UNCHANGED svc
      BY <2>4 DEF Release, service
    <3> QED
      BY <3>1, <3>2 DEF StoppedIsHeld
  <2>5. CASE Checkpoint(j) \/ Delete(j) \/ Upsert(j) \/ Flag(j)
    BY <1>1, <2>5 DEF Checkpoint, Delete, Upsert, Flag, Writing
  <2>6. CASE Retrieval(j) \/ Generation(j) \/ WriteL1(j) \/ Gate(j)
    BY <1>1, <2>6 DEF Retrieval, Generation, WriteL1, Gate, Scoring, service
  <2> QED
    BY <1>8, <2>1, <2>2, <2>3, <2>4, <2>5, <2>6 DEF HelperStep
<1>9. CASE UNCHANGED vars
  BY <1>1, <1>9 DEF vars, service, helpers
<1> QED
  BY <1>4, <1>5, <1>6, <1>7, <1>8, <1>9 DEF Next

(* A service that is stopped is so because of a helper that holds the lock *)
(* and has the trap that starts it still to come, whatever failed, crashed *)
(* or was deployed, and however many helpers there are.                    *)
THEOREM SomeoneStartsIt == Spec => []StoppedIsHeld
<1>1. Init => StoppedIsHeld
  BY DEF Init, StoppedIsHeld
<1> QED
  BY InitHolds, StepHolds, HeldNext, <1>1, PTL DEF Spec

-----------------------------------------------------------------------------
(* The evaluation.  While it works nothing changes the dump under it, so   *)
(* every suite it has scored was scored over the dump in use, or over the  *)
(* demonstration data when it found none.                                  *)

Scope == IF work.ready THEN manifest.to ELSE None

Scored(b) == ~b.skipped => b.of = Scope

Results ==
  \A j \in Scorers : job[j] = "working" =>
    /\ \E o, ready, step, r, g :
         work = [o |-> o, ready |-> ready, step |-> step, retrieval |-> r, generation |-> g]
    /\ Scored(work.retrieval) /\ Scored(work.generation)
    /\ work.step = "passed" /\ work.o.gate # "none" => Failures(work.o.gate = "lenient") = {}
    /\ work.step \in {"gate", "passed", "failed"} =>
         l1.of \subseteq {IF l1.sample THEN None ELSE manifest.to}

(* Only one job works, so what the others do does not touch it.            *)
LEMMA OneWorks ==
  ASSUME IInv, NEW i \in Jobs, NEW j \in Jobs, job[i] = "working", job[j] = "working"
  PROVE  i = j
BY DEF IInv, Held, Past

(* A step that touches neither the evaluation nor what it measured.        *)
LEMMA ResultsAside ==
  ASSUME Results, UNCHANGED <<work, manifest, l1>>,
         \A j \in Scorers : job'[j] = "working" => job[j] = "working"
  PROVE  Results'
BY DEF Results, Scored, Scope, Failures

(* A block that was run measured what it should.                           *)
LEMMA RanScope ==
  ASSUME NEW block \in Blocks, NEW judge, NEW b \in Ran(block, judge)
  PROVE  Scored(b)
BY DEF Ran, Scored, Scope, Skipped

(* A step of the evaluation that works.                                    *)
LEMMA ScoreSteps ==
  ASSUME IInv, Results, NEW j \in Scorers,
         \/ BeginScore(j) \/ Retrieval(j) \/ Generation(j) \/ WriteL1(j) \/ Gate(j) \/ EndScore(j)
  PROVE  Results'
<1>0. j \in Jobs /\ \A i \in Scorers : i \in Jobs
  BY DEF Jobs
<1>1. CASE BeginScore(j)
  <2>1. PICK o \in Options :
          work' = [o |-> o, ready |-> Written(index, TO), step |-> "retrieval",
                   retrieval |-> Skipped, generation |-> Skipped]
    BY <1>1 DEF BeginScore
  <2>2. /\ work'.step = "retrieval" /\ work'.retrieval = Skipped /\ work'.generation = Skipped
    BY <2>1
  <2>3. Skipped.skipped
    BY DEF Skipped
  <2> QED
    BY <2>1, <2>2, <2>3 DEF Results, Scored
<1>2. SUFFICES ASSUME ~BeginScore(j)
               PROVE  Results'
  BY <1>1
<1>3. PICK step \in {"retrieval", "generation", "publish", "gate", "passed", "failed"} :
        Scoring(j, step)
  BY <1>2 DEF Retrieval, Generation, WriteL1, Gate, EndScore
<1>4. /\ job[j] = "working" /\ work.step = step
      /\ UNCHANGED manifest
  BY <1>3 DEF Scoring
<1>5. PICK o, ready, r, g :
        work = [o |-> o, ready |-> ready, step |-> step, retrieval |-> r, generation |-> g]
  BY <1>4 DEF Results
<1>6. \A i \in Scorers : job[i] = "working" => i = j
  BY <1>0, <1>4, OneWorks
<1>7. Scored(r) /\ Scored(g)
  BY <1>4, <1>5 DEF Results
<1>8. CASE EndScore(j)
  <2>1. \A i \in Scorers : job'[i] # "working"
    BY <1>0, <1>6, <1>8 DEF EndScore, Goto, IInv, TypeOK
  <2> QED
    BY <2>1 DEF Results
<1>9. CASE Retrieval(j)
  <2>1. PICK b : /\ work' = [work EXCEPT !.retrieval = b, !.step = "generation"]
                 /\ Scored(b)
    <3>1. PICK b \in IF work.o.suites \in {"both", "retrieval"} THEN Ran("retrieval", work.o.judge)
                     ELSE {Skipped} :
            work' = [work EXCEPT !.retrieval = b, !.step = "generation"]
      BY <1>9 DEF Retrieval
    <3>2. Scored(b)
      BY <3>1, RanScope DEF Blocks, Scored, Skipped
    <3> QED
      BY <3>1, <3>2
  <2>2. work' = [o |-> o, ready |-> ready, step |-> "generation", retrieval |-> b, generation |-> g]
    BY <1>5, <2>1
  <2>3. /\ work'.retrieval = b /\ work'.generation = g /\ work'.step = "generation"
        /\ work'.ready = work.ready
    BY <1>5, <2>2
  <2>4. Scored(b)' /\ Scored(g)'
    BY <1>4, <1>7, <2>1, <2>3 DEF Scored, Scope
  <2> QED
    BY <2>2, <2>3, <2>4 DEF Results, Scored
<1>10. CASE Generation(j)
  <2>1. PICK b : /\ work' = [work EXCEPT !.generation = b, !.step = "publish"]
                 /\ Scored(b)
    <3>1. PICK b \in IF Generates(work.o) THEN Ran("generation", work.o.judge) ELSE {Skipped} :
            work' = [work EXCEPT !.generation = b, !.step = "publish"]
      BY <1>10 DEF Generation
    <3>2. Scored(b)
      BY <3>1, RanScope DEF Blocks, Scored, Skipped
    <3> QED
      BY <3>1, <3>2
  <2>2. work' = [o |-> o, ready |-> ready, step |-> "publish", retrieval |-> r, generation |-> b]
    BY <1>5, <2>1
  <2>3. /\ work'.retrieval = r /\ work'.generation = b /\ work'.step = "publish"
        /\ work'.ready = work.ready
    BY <1>5, <2>2
  <2>4. Scored(r)' /\ Scored(b)'
    BY <1>4, <1>7, <2>1, <2>3 DEF Scored, Scope
  <2> QED
    BY <2>2, <2>3, <2>4 DEF Results, Scored
<1>11. CASE WriteL1(j)
  <2>1. work' = [o |-> o, ready |-> ready, step |-> "gate", retrieval |-> r, generation |-> g]
    BY <1>5, <1>11 DEF WriteL1
  <2>2. /\ work'.retrieval = r /\ work'.generation = g /\ work'.step = "gate"
        /\ work'.ready = work.ready
    BY <1>5, <2>1
  <2>3. Scored(r)' /\ Scored(g)'
    BY <1>4, <1>7, <2>2 DEF Scored, Scope
  <2>4. l1'.sample = ~ready /\ l1'.of = {work[b].of : b \in {c \in Blocks : ~work[c].skipped}}
    BY <1>5, <1>11 DEF WriteL1, Payload
  <2>5. \A b \in Blocks : ~work[b].skipped => work[b].of = Scope
    BY <1>5, <1>7 DEF Blocks, Scored
  <2>6. l1'.of \subseteq {IF l1'.sample THEN None ELSE manifest'.to}
    <3>1. l1'.of \subseteq {Scope}
      BY <2>4, <2>5
    <3>2. CASE work.ready
      <4>1. Scope = manifest'.to
        BY <1>4, <3>2 DEF Scope
      <4>2. l1'.sample = ~work.ready
        BY <1>11 DEF WriteL1, Payload
      <4>3. ~l1'.sample
        BY <3>2, <4>2, Zenon
      <4> QED
        BY <3>1, <4>1, <4>3
    <3>3. CASE ~work.ready
      <4>1. Scope = None /\ l1'.sample
        BY <1>5, <2>4, <3>3 DEF Scope
      <4> QED
        BY <3>1, <4>1
    <3> QED
      BY <3>2, <3>3
  <2> QED
    BY <2>1, <2>2, <2>3, <2>6 DEF Results, Scored
<1>12. CASE Gate(j)
  <2> DEFINE passed == work.o.gate = "none" \/ Failures(work.o.gate = "lenient") = {}
             next == IF passed THEN "passed" ELSE "failed"
  <2>0. step = "gate"
    BY <1>4, <1>12 DEF Gate, Scoring
  <2>1. work' = [work EXCEPT !.step = next]
    BY <1>12 DEF Gate
  <2>2. next = "passed" => passed
    OBVIOUS
  <2>3. next # "gate"
    OBVIOUS
  <2> HIDE DEF passed, next
  <2>4. work' = [o |-> o, ready |-> ready, step |-> next, retrieval |-> r, generation |-> g]
    BY <1>5, <2>1
  <2>5. /\ work'.retrieval = r /\ work'.generation = g /\ work'.step = next
        /\ work'.ready = work.ready /\ work'.o = work.o
        /\ work.retrieval = r /\ work.generation = g
    BY <1>5, <2>4
  <2>6. Scored(r)' /\ Scored(g)'
    BY <1>4, <1>7, <2>5 DEF Scored, Scope
  <2>7. \A m \in Floors : work'[OwnerOf(m)] = work[OwnerOf(m)]
    BY <2>5 DEF OwnerOf
  <2>8. next = "passed" /\ work'.o.gate # "none" => Failures(work.o.gate = "lenient")' = {}
    <3> SUFFICES ASSUME next = "passed", work.o.gate # "none"
                 PROVE  Failures(work.o.gate = "lenient")' = {}
      BY <2>5
    <3>1. Failures(work.o.gate = "lenient") = {}
      BY <2>2 DEF passed
    <3> QED
      BY <2>5, <2>7, <3>1 DEF Failures
  <2>9. l1' = l1 /\ l1.of \subseteq {IF l1.sample THEN None ELSE manifest.to}
    BY <1>4, <1>12, <2>0 DEF Results, Gate
  <2>10. l1'.of \subseteq {IF l1'.sample THEN None ELSE manifest'.to}
    BY <1>4, <2>9
  <2> QED
    BY <2>4, <2>5, <2>6, <2>8, <2>10 DEF Results, Scored
<1> QED
  BY <1>2, <1>8, <1>9, <1>10, <1>11, <1>12

(* Where one job is past the lock no evaluation but it works.              *)
LEMMA NoOtherScores ==
  ASSUME IInv, NEW i \in Jobs, job[i] \in Past, NEW j \in Scorers, job[j] = "working"
  PROVE  j = i
<1>1. j \in Jobs
  BY DEF Jobs
<1> QED
  BY <1>1 DEF IInv, Held, Past

(* No evaluation is left at work.                                          *)
LEMMA NoScore ==
  ASSUME \A j \in Scorers : job'[j] # "working"
  PROVE  Results'
BY DEF Results

(* A job goes on to a place where it does not work.                        *)
LEMMA Elsewhere ==
  ASSUME IInv, NEW i \in Jobs, NEW place \in Stages \ {"working"}, Goto(i, place)
  PROVE  \A j \in Scorers : job'[j] = "working" => job[j] = "working" /\ j # i
<1>1. \A j \in Scorers : j \in Jobs
  BY DEF Jobs
<1> QED
  BY <1>1 DEF IInv, TypeOK, Goto

LEMMA ResultsHold == IInv /\ Results /\ [Next]_vars => Results'
<1> SUFFICES ASSUME IInv, Results, [Next]_vars PROVE Results'
  OBVIOUS
<1>1. CASE (\E q \in Asked : Begin(q)) \/ Find \/ Reply \/ Crash \/ Restart \/ UNCHANGED vars
  BY <1>1, ResultsAside DEF Begin, Find, Reply, Crash, Restart, vars, disk, helpers
<1>2. ASSUME NEW i \in Jobs, Call(i) \/ Acquire(i) \/ StopService(i) \/ StartService(i) \/ Release(i)
      PROVE  Results'
  <2>1. PICK place \in Stages \ {"working"} : Goto(i, place)
    BY <1>2 DEF Call, Acquire, StopService, StartService, Release, Stages
  <2>2. UNCHANGED <<work, manifest, l1>>
    BY <1>2 DEF Call, Acquire, StopService, StartService, Release, disk
  <2> QED
    BY <2>1, <2>2, Elsewhere, ResultsAside
<1>3. ASSUME NEW i \in Jobs, Fail(i)
      PROVE  Results'
  <2>1. Goto(i, "ending") /\ "ending" \in Stages \ {"working"} /\ job[i] \in Past
    BY <1>3 DEF Fail, Stages, Past
  <2>2. \A j \in Scorers : job'[j] = "working" => job[j] = "working" /\ j # i
    BY <2>1, Elsewhere
  <2> QED
    BY <2>1, <2>2, NoOtherScores, NoScore
<1>4. ASSUME NEW i \in Jobs, BeginWrite(i)
      PROVE  Results'
  <2>1. job[i] \in Past /\ i \in Writers /\ Goto(i, "working")
    BY <1>4 DEF BeginWrite, Past
  <2>2. \A j \in Scorers : j \in Jobs /\ j # i
    BY <2>1, HostAssumption DEF Jobs
  <2>3. \A j \in Scorers : job'[j] = job[j]
    BY <2>1, <2>2 DEF Goto, IInv, TypeOK
  <2> QED
    BY <2>1, <2>2, <2>3, NoOtherScores, NoScore
<1>5. ASSUME NEW i \in Jobs, Checkpoint(i) \/ Delete(i) \/ Upsert(i) \/ Flag(i)
      PROVE  Results'
  <2>1. job[i] \in Past /\ i \in Writers /\ job' = job
    BY <1>5 DEF Checkpoint, Delete, Upsert, Flag, Writing, Past
  <2>2. \A j \in Scorers : j # i
    BY <2>1, HostAssumption
  <2> QED
    BY <2>1, <2>2, NoOtherScores, NoScore
<1>6. ASSUME NEW i \in Jobs, EndWrite(i)
      PROVE  Results'
  <2>1. Goto(i, "ending") /\ "ending" \in Stages \ {"working"} /\ job[i] \in Past
    BY <1>6 DEF EndWrite, Stages, Past
  <2>2. \A j \in Scorers : job'[j] = "working" => job[j] = "working" /\ j # i
    BY <2>1, Elsewhere
  <2> QED
    BY <2>1, <2>2, NoOtherScores, NoScore
<1>7. ASSUME NEW i \in Jobs,
             \/ BeginScore(i) \/ Retrieval(i) \/ Generation(i)
             \/ WriteL1(i) \/ Gate(i) \/ EndScore(i)
      PROVE  Results'
  <2>1. i \in Scorers
    BY <1>7 DEF BeginScore, Retrieval, Generation, WriteL1, Gate, EndScore, Scoring
  <2> QED
    BY <1>7, <2>1, ScoreSteps
<1>8. CASE Deploy
  <2>1. UNCHANGED <<work, manifest, job>> /\ (l1' = l1 \/ l1' = Brought)
    BY <1>8 DEF Deploy, helpers
  <2>2. Brought.of = {}
    BY DEF Brought
  <2>3. CASE l1' = l1
    BY <2>1, <2>3, ResultsAside
  <2>4. CASE l1' = Brought
    BY <2>1, <2>2, <2>4 DEF Results, Scored, Scope, Failures
  <2> QED
    BY <2>1, <2>3, <2>4
<1>9. CASE Publish
  <2>1. lock = None /\ job' = job
    BY <1>9 DEF Publish, helpers
  <2>2. \A j \in Scorers : job[j] # "working"
    BY <2>1, HostAssumption DEF Jobs, IInv, Held, Past
  <2> QED
    BY <2>1, <2>2, NoScore
<1>10. CASE Reboot
  <2>1. \A j \in Scorers : job'[j] # "working"
    BY <1>10 DEF Reboot, Jobs
  <2> QED
    BY <2>1, NoScore
<1> QED
  BY <1>1, <1>2, <1>3, <1>4, <1>5, <1>6, <1>7, <1>8, <1>9, <1>10 DEF Next, HelperStep

(* Results that passed the gate have every metric of it at its floor, or   *)
(* were let off by the operator; and results not marked a sample are of    *)
(* the dump in use, whatever else was deployed, failed or waited.          *)
THEOREM GatedResultsStand == Spec => []ResultsStand
<1>1. Init => Results
  BY DEF Init, Results, Jobs
<1>2. IInv /\ Results => ResultsStand
  <2> SUFFICES ASSUME IInv, Results, NEW j \in Scorers, job[j] = "working",
                      work.step \in {"passed", "failed"}
               PROVE  /\ work.step = "passed" /\ work.o.gate # "none" =>
                           \A m \in Floors : LET b == work[OwnerOf(m)] IN
                             IF b.skipped THEN work.o.gate = "lenient" ELSE m \in b.scored \ b.low
                      /\ l1.of \subseteq {IF l1.sample THEN None ELSE manifest.to}
    BY DEF ResultsStand
  <2>1. l1.of \subseteq {IF l1.sample THEN None ELSE manifest.to}
    BY DEF Results
  <2>2. ASSUME work.step = "passed", work.o.gate # "none", NEW m \in Floors
        PROVE  LET b == work[OwnerOf(m)] IN
                 IF b.skipped THEN work.o.gate = "lenient" ELSE m \in b.scored \ b.low
    <3> DEFINE lenient == work.o.gate = "lenient"
               b == work[OwnerOf(m)]
    <3>1. Failures(lenient) = {}
      BY <2>2 DEF Results
    <3> HIDE DEF lenient
    <3>2. ~(IF b.skipped THEN ~lenient ELSE m \notin b.scored \/ m \in b.low)
      BY <3>1 DEF Failures
    <3> QED
      BY <3>2 DEF lenient
  <2> QED
    BY <2>1, <2>2
<1> QED
  BY InitHolds, StepHolds, ResultsHold, <1>1, <1>2, PTL DEF Spec

-----------------------------------------------------------------------------
(* The dump.  When no job writes it, a dump whose last job finished holds  *)
(* the texto ordenado in the version that the manifest names, and a        *)
(* lexicon read under the manifest of now is of the passages of now.       *)

Busy == \E j \in Writers : job[j] = "working"

(* Passages that are told apart.                                           *)
Stock(chunks) ==
  /\ chunks \subseteq Chunks /\ IsFiniteSet(chunks)
  /\ \A c \in chunks : c.n > 0
  /\ \A b, c \in chunks : Id(b) = Id(c) => b = c

(* The texto ordenado is there, in one version.                            *)
Bears(chunks, v) == Written(chunks, TO) /\ \A c \in chunks : c.doc = TO => c.v = v

Dated ==
  /\ manifest \in [documents : SUBSET Nat, indexed : SUBSET Nat, to : Nat]
  /\ Stock(index)
  /\ TO \in manifest.indexed => Bears(index, manifest.to)

Complete == whole /\ ~Busy => TO \in manifest.indexed

(* What a writer has come to: the texto ordenado is flagged or still due,  *)
(* and what was written of it is of the version the manifest names.        *)
Midway ==
  Busy =>
    /\ work \in [listing : Listings, todo : SUBSET Nat,
                  step : {"checkpoint", "delete", "upsert", "flag"}]
    /\ work.todo \subseteq DOMAIN work.listing
    /\ TO \in work.todo \cup manifest.indexed
    /\ work.step # "checkpoint" =>
         /\ work.todo # {} /\ Due \notin manifest.indexed
         /\ Due = TO =>
              /\ manifest.to = work.listing[TO]
              /\ work.step = "upsert" => ~Written(index, TO)
              /\ work.step = "flag" => Bears(index, manifest.to)

Lexical ==
  lexicon # None =>
    /\ \E count, same, rows : lexicon = [count |-> count, sameManifest |-> same, rows |-> rows]
    /\ Stock(lexicon.rows)
    /\ lexicon.sameManifest /\ whole /\ ~Busy => lexicon.rows = index

DInv == Dated /\ Complete /\ Midway /\ Lexical

(* What a listing puts into a dump.                                        *)
LEMMA PassagesStock ==
  ASSUME NEW listing \in Listings, NEW d \in DOMAIN listing
  PROVE  /\ d \in Nat /\ Stock(Passages(d, listing[d]))
         /\ \A c \in Passages(d, listing[d]) : c.doc = d
<1> DEFINE parts == Passages(d, listing[d])
<1>1. /\ d \in Nat
      /\ IsFiniteSet(parts) /\ parts \subseteq Chunks
      /\ \A c \in parts : c.doc = d /\ c.n > 0
      /\ \A b, c \in parts : b.n = c.n => b = c
  BY DumpAssumption
<1> HIDE DEF parts
<1>2. Stock(parts)
  BY <1>1 DEF Stock, Id
<1> QED
  BY <1>1, <1>2 DEF parts

LEMMA VersionOfTO ==
  ASSUME NEW listing \in Listings
  PROVE  /\ TO \in DOMAIN listing /\ listing[TO] \in Nat
         /\ Bears(Passages(TO, listing[TO]), listing[TO])
<1> DEFINE parts == Passages(TO, listing[TO])
<1>1. /\ TO \in DOMAIN listing /\ parts # {} /\ parts \subseteq Chunks
      /\ \A c \in parts : c.doc = TO /\ c.v = listing[TO]
  BY DumpAssumption
<1> HIDE DEF parts
<1>2. listing[TO] \in Nat
  BY <1>1 DEF Chunks
<1>3. Bears(parts, listing[TO])
  BY <1>1 DEF Bears, Written
<1> QED
  BY <1>1, <1>2, <1>3 DEF parts

LEMMA DumpStock ==
  ASSUME NEW listing \in Listings
  PROVE  /\ ManifestOf(listing) \in [documents : SUBSET Nat, indexed : SUBSET Nat, to : Nat]
         /\ Stock(Dump(listing)) /\ Bears(Dump(listing), listing[TO])
<1> DEFINE D == DOMAIN listing
           f == [d \in D |-> Passages(d, listing[d])]
           all == Dump(listing)
<1>1. D \subseteq Nat /\ IsFiniteSet(D) /\ TO \in D /\ listing[TO] \in Nat
  BY DumpAssumption, VersionOfTO
<1>2. \A d \in D : f[d] = Passages(d, listing[d]) /\ Stock(f[d]) /\ \A c \in f[d] : c.doc = d
  BY PassagesStock
<1>3. all = UNION {f[d] : d \in D}
  BY DEF Dump
<1>4. IsFiniteSet(all)
  <2> DEFINE T == {f[d] : d \in D}
  <2>1. f \in Surjection(D, T)
    BY DEF Surjection
  <2>2. IsFiniteSet(T)
    BY <1>1, <2>1, FS_Surjection
  <2>3. \A t \in T : IsFiniteSet(t)
    BY <1>2 DEF Stock
  <2> QED
    BY <1>3, <2>2, <2>3, FS_UNION
<1> HIDE DEF f, all
<1>5. \A c \in all : \E d \in D : c \in f[d] /\ c.doc = d
  BY <1>2, <1>3
<1>6. \A c \in all : c \in Chunks /\ c.n > 0
  BY <1>2, <1>5 DEF Stock
<1>7. ASSUME NEW b \in all, NEW c \in all, Id(b) = Id(c)
      PROVE  b = c
  <2>1. b.doc = c.doc
    BY <1>7 DEF Id
  <2>2. PICK d \in D : b \in f[d] /\ c \in f[d]
    BY <1>5, <2>1
  <2> QED
    BY <1>2, <1>7, <2>2 DEF Stock
<1>8. Stock(all)
  BY <1>4, <1>6, <1>7 DEF Stock
<1>9. Bears(all, listing[TO])
  <2>1. Bears(f[TO], listing[TO]) /\ f[TO] \subseteq all
    BY <1>1, <1>2, <1>3, VersionOfTO
  <2>2. \A c \in all : c.doc = TO => c \in f[TO]
    BY <1>5
  <2> QED
    BY <2>1, <2>2 DEF Bears, Written
<1>10. ManifestOf(listing) \in [documents : SUBSET Nat, indexed : SUBSET Nat, to : Nat]
  BY <1>1 DEF ManifestOf
<1> QED
  BY <1>8, <1>9, <1>10 DEF all

(* A step that leaves the dump and its writer alone.                       *)
LEMMA DumpAside ==
  ASSUME DInv, UNCHANGED <<manifest, index, whole>>, Busy' <=> Busy, Busy => work' = work,
         lexicon' = lexicon \/ lexicon' = None
  PROVE  DInv'
<1>1. Dated' /\ Complete'
  BY DEF DInv, Dated, Complete
<1>2. Midway'
  BY DEF DInv, Midway, Due
<1>3. Lexical'
  BY DEF DInv, Lexical
<1> QED
  BY <1>1, <1>2, <1>3 DEF DInv

(* A save makes the lexicon one of another manifest.                       *)
LEMMA SavedLexicon ==
  ASSUME Lexical, Saved
  PROVE  lexicon' # None =>
           /\ \E count, same, rows : lexicon' = [count |-> count, sameManifest |-> same, rows |-> rows]
           /\ Stock(lexicon'.rows) /\ ~lexicon'.sameManifest
<1> SUFFICES ASSUME lexicon' # None
             PROVE  /\ \E count, same, rows :
                         lexicon' = [count |-> count, sameManifest |-> same, rows |-> rows]
                    /\ Stock(lexicon'.rows) /\ ~lexicon'.sameManifest
  OBVIOUS
<1>1. lexicon # None
  BY DEF Saved
<1>2. PICK count, same, rows : lexicon = [count |-> count, sameManifest |-> same, rows |-> rows]
  BY <1>1 DEF Lexical
<1>3. lexicon' = [lexicon EXCEPT !.sameManifest = FALSE]
  BY <1>1 DEF Saved
<1>4. ASSUME NEW no
      PROVE  [lexicon EXCEPT !.sameManifest = no] = [count |-> count, sameManifest |-> no, rows |-> rows]
  BY <1>2
<1>5. lexicon' = [count |-> count, sameManifest |-> FALSE, rows |-> rows]
  BY <1>3, <1>4
<1>6. lexicon'.rows = lexicon.rows /\ lexicon'.sameManifest = FALSE
  BY <1>2, <1>5
<1>7. Stock(lexicon'.rows)
  BY <1>1, <1>6 DEF Lexical
<1> QED
  BY <1>5, <1>6, <1>7

LEMMA SavedLexical ==
  ASSUME Lexical, Saved
  PROVE  Lexical'
BY SavedLexicon DEF Lexical

(* A job goes from one place to another, neither of them at work.          *)
LEMMA StillBusy ==
  ASSUME IInv, NEW j \in Jobs, job[j] # "working",
         NEW place \in Stages \ {"working"}, Goto(j, place)
  PROVE  Busy' <=> Busy
<1>1. \A i \in Writers : i \in Jobs
  BY DEF Jobs
<1>2. \A i \in Jobs : job'[i] = IF i = j THEN place ELSE job[i]
  BY DEF Goto, IInv, TypeOK
<1> QED
  BY <1>1, <1>2 DEF Busy

(* Only a writer that works writes.                                        *)
LEMMA IdleWriters ==
  ASSUME IInv, NEW j \in Jobs, job[j] \in Past, \A i \in Writers : i = j => job[i] # "working"
  PROVE  ~Busy
BY DEF Busy, IInv, Held, Past, Jobs

(* The steps of an evaluation.                                             *)
LEMMA ScorersAside ==
  ASSUME IInv, DInv, NEW j \in Scorers,
         \/ BeginScore(j) \/ Retrieval(j) \/ Generation(j) \/ WriteL1(j) \/ Gate(j) \/ EndScore(j)
  PROVE  DInv'
<1>1. j \in Jobs /\ j \notin Writers /\ job[j] \in Past
  BY HostAssumption DEF Jobs, Past, BeginScore, Retrieval, Generation, WriteL1, Gate, EndScore, Scoring
<1>2. ~Busy
  BY <1>1, IdleWriters
<1>3. UNCHANGED <<manifest, index, whole, lexicon>>
  BY DEF BeginScore, Retrieval, Generation, WriteL1, Gate, EndScore, Scoring, disk, service
<1>4. PICK place : Goto(j, place) \/ job' = job
  BY DEF BeginScore, Retrieval, Generation, WriteL1, Gate, EndScore, Scoring
<1>5. \A i \in Writers : job'[i] = job[i]
  BY <1>1, <1>4 DEF Goto, IInv, TypeOK, Jobs
<1>6. ~Busy'
  BY <1>2, <1>5 DEF Busy
<1> QED
  BY <1>2, <1>3, <1>6, DumpAside

(* The steps of the script and of the service that write nothing.          *)
LEMMA OthersAside ==
  ASSUME IInv, DInv,
         \/ \E q \in Asked : Begin(q)
         \/ Reply \/ Crash \/ Restart \/ Deploy
         \/ \E j \in Jobs : Call(j) \/ Acquire(j) \/ StopService(j) \/ StartService(j) \/ Release(j)
  PROVE  DInv'
<1>1. CASE (\E q \in Asked : Begin(q)) \/ Reply \/ Crash \/ Restart \/ Deploy
  <2>1. UNCHANGED <<manifest, index, whole, work, job>> /\ (lexicon' = lexicon \/ lexicon' = None)
    BY <1>1 DEF Begin, Reply, Crash, Restart, Deploy, Started, Gone, disk, helpers
  <2> QED
    BY <2>1, DumpAside DEF Busy
<1>2. ASSUME NEW j \in Jobs,
             Call(j) \/ Acquire(j) \/ StopService(j) \/ StartService(j) \/ Release(j)
      PROVE  DInv'
  <2>1. UNCHANGED <<manifest, index, whole, work>> /\ (lexicon' = lexicon \/ lexicon' = None)
    BY <1>2 DEF Call, Acquire, StopService, StartService, Release, Stopped, Started, Gone,
                disk, helpers, service
  <2>2. job[j] # "working" /\ \E place \in Stages \ {"working"} : Goto(j, place)
    BY <1>2 DEF Call, Acquire, StopService, StartService, Release, Stages
  <2>3. Busy' <=> Busy
    BY <2>2, StillBusy
  <2> QED
    BY <2>1, <2>3, DumpAside
<1> QED
  BY <1>1, <1>2

(* The lexicon of a turn: that of the passages stored, if the dump is      *)
(* whole and nobody writes it.                                             *)
LEMMA LexiconRows ==
  ASSUME DInv
  PROVE  /\ \E count, same, rows : LexiconNow = [count |-> count, sameManifest |-> same, rows |-> rows]
         /\ Stock(LexiconNow.rows)
         /\ whole /\ ~Busy => LexiconNow.rows = index
<1> DEFINE old == lexicon # None /\ lexicon.count = Cardinality(index) /\ lexicon.sameManifest
           new == [count |-> Cardinality(index), sameManifest |-> TRUE, rows |-> index]
<1>1. LexiconNow = IF old THEN lexicon ELSE new
  BY DEF LexiconNow
<1>2. CASE old
  BY <1>1, <1>2 DEF DInv, Lexical
<1>3. CASE ~old
  <2>1. ASSUME NEW yes
        PROVE  [count |-> Cardinality(index), sameManifest |-> yes, rows |-> index].rows = index
    OBVIOUS
  <2>2. new.rows = index
    BY <2>1
  <2> HIDE DEF old
  <2>3. LexiconNow = new
    BY <1>1, <1>3
  <2> QED
    BY <2>2, <2>3 DEF DInv, Dated
<1> QED
  BY <1>2, <1>3

LEMMA FindKeeps ==
  ASSUME DInv, Find
  PROVE  DInv'
<1>1. UNCHANGED <<manifest, index, whole, work, job>> /\ lexicon' = LexiconNow
  BY DEF Find, disk, helpers
<1>2. Dated' /\ Complete' /\ Midway'
  BY <1>1 DEF DInv, Dated, Complete, Midway, Busy, Due
<1>3. Lexical'
  BY <1>1, LexiconRows DEF Lexical, Busy
<1> QED
  BY <1>2, <1>3 DEF DInv

(* Whatever fails, a dump that was being written is not whole.             *)
LEMMA FailKeeps ==
  ASSUME IInv, DInv, NEW j \in Jobs, Fail(j)
  PROVE  DInv'
<1>1. UNCHANGED <<manifest, index, lexicon>> /\ Goto(j, "ending") /\ job[j] \in Past
  BY DEF Fail, service, Past
<1>2. CASE job[j] = "working" /\ j \in Writers
  <2>1. whole' = FALSE
    BY <1>2 DEF Fail
  <2>2. \A i \in Writers : job'[i] # "working"
    BY <1>1, <1>2, OneWorks DEF Goto, IInv, TypeOK, Jobs
  <2> QED
    BY <1>1, <2>1, <2>2 DEF DInv, Dated, Complete, Midway, Lexical, Busy
<1>3. CASE ~(job[j] = "working" /\ j \in Writers)
  <2>1. whole' = whole
    BY <1>3 DEF Fail
  <2>2. ~Busy
    BY <1>1, <1>3, IdleWriters
  <2>3. \A i \in Writers : job'[i] # "working"
    BY <1>1, <2>2 DEF Goto, IInv, TypeOK, Jobs, Busy
  <2>4. ~Busy'
    BY <2>3 DEF Busy
  <2> QED
    BY <1>1, <2>1, <2>2, <2>4, DumpAside
<1> QED
  BY <1>2, <1>3

(* What a publication or the start of the host leaves.                     *)
LEMMA PublishKeeps ==
  ASSUME IInv, DInv, Publish
  PROVE  DInv'
<1>1. PICK listing \in Listings : manifest' = ManifestOf(listing) /\ index' = Dump(listing)
  BY DEF Publish
<1>2. lock = None /\ job' = job /\ Saved
  BY DEF Publish, helpers
<1>3. \A i \in Writers : job'[i] # "working"
  BY <1>2, HostAssumption DEF IInv, Held, Past, Jobs
<1>4. manifest'.to = listing[TO] /\ manifest'.indexed = DOMAIN listing
  BY <1>1 DEF ManifestOf
<1>5. Dated'
  BY <1>1, <1>4, DumpStock DEF Dated
<1>6. Complete' /\ Midway'
  BY <1>3, <1>4, VersionOfTO DEF Complete, Midway, Busy
<1>7. Lexical'
  BY <1>2, SavedLexicon DEF Lexical, DInv
<1> QED
  BY <1>5, <1>6, <1>7 DEF DInv

LEMMA RebootKeeps ==
  ASSUME DInv, Reboot
  PROVE  DInv'
<1>1. UNCHANGED <<manifest, index>> /\ lexicon' = None
  BY DEF Reboot, Started, Gone
<1>2. \A i \in Writers : job'[i] # "working"
  BY DEF Reboot, Jobs
<1>3. whole' => whole /\ ~Busy
  BY DEF Reboot, Busy
<1> QED
  BY <1>1, <1>2, <1>3 DEF DInv, Dated, Complete, Midway, Lexical, Busy

(* A writer begins with all it does not find flagged, and with a texto     *)
(* ordenado that has a newer version.                                      *)
LEMMA BeginKeeps ==
  ASSUME IInv, DInv, NEW j \in Jobs, BeginWrite(j)
  PROVE  DInv'
<1>1. PICK listing \in Listings :
        work' = [listing |-> listing, todo |-> Todo(listing), step |-> "checkpoint"]
  BY DEF BeginWrite
<1>2. UNCHANGED <<manifest, index, whole, lexicon>> /\ job[j] = "stopped" /\ j \in Writers
      /\ Goto(j, "working")
  BY DEF BeginWrite, disk, service
<1>3. Busy'
  BY <1>2 DEF Busy, Goto, IInv, TypeOK
<1>4. DOMAIN listing \subseteq Nat /\ TO \in DOMAIN listing
  BY PassagesStock, VersionOfTO
<1>5. Todo(listing) \subseteq DOMAIN listing /\ TO \in Todo(listing) \cup manifest.indexed
  BY <1>4 DEF Todo
<1>6. Midway'
  <2>1. Todo(listing) \in SUBSET Nat
    BY <1>4, <1>5
  <2> DEFINE todo == Todo(listing)
  <2> HIDE DEF todo
  <2>2. work' = [listing |-> listing, todo |-> todo, step |-> "checkpoint"]
    BY <1>1 DEF todo
  <2>3. todo \in SUBSET Nat /\ todo \subseteq DOMAIN listing /\ TO \in todo \cup manifest'.indexed
    BY <1>2, <1>5, <2>1 DEF todo
  <2> QED
    BY <2>2, <2>3 DEF Midway
<1>7. Lexical'
  BY <1>2, <1>3 DEF DInv, Lexical
<1> QED
  BY <1>2, <1>3, <1>6, <1>7 DEF DInv, Dated, Complete

(* What a writer in the middle of its work stands at.                      *)
LEMMA WriterAt ==
  ASSUME DInv, NEW j, NEW step, Writing(j, step)
  PROVE  /\ Busy /\ Busy'
         /\ \E listing \in Listings, todo \in SUBSET Nat :
              /\ work = [listing |-> listing, todo |-> todo, step |-> step]
              /\ todo \subseteq DOMAIN listing /\ TO \in todo \cup manifest.indexed
              /\ Due \in todo /\ Due \in DOMAIN listing
<1>1. j \in Writers /\ job[j] = "working" /\ job' = job /\ work.step = step /\ work.todo # {}
  BY DEF Writing
<1>2. Busy /\ Busy'
  BY <1>1 DEF Busy
<1>3. PICK listing \in Listings, todo \in SUBSET Nat, at \in {"checkpoint", "delete", "upsert", "flag"} :
        work = [listing |-> listing, todo |-> todo, step |-> at]
  BY <1>2 DEF DInv, Midway
<1>4. work.listing = listing /\ work.todo = todo /\ at = step
  BY <1>1, <1>3
<1>5. todo \subseteq DOMAIN listing /\ TO \in todo \cup manifest.indexed
  BY <1>2, <1>4 DEF DInv, Midway
<1>6. Due \in todo
  BY <1>1, <1>4, MinOf DEF Due
<1> QED
  BY <1>2, <1>3, <1>4, <1>5, <1>6

(* The document is put in the manifest, not flagged; the texto ordenado in *)
(* the version that is to be written.                                      *)
LEMMA CheckpointKeeps ==
  ASSUME DInv, NEW j, Checkpoint(j)
  PROVE  DInv'
<1>1. Writing(j, "checkpoint") /\ Saved /\ index' = index /\ work' = [work EXCEPT !.step = "delete"]
  BY DEF Checkpoint
<1>2. PICK listing \in Listings, todo \in SUBSET Nat :
        /\ work = [listing |-> listing, todo |-> todo, step |-> "checkpoint"]
        /\ todo \subseteq DOMAIN listing /\ TO \in todo \cup manifest.indexed
        /\ Due \in todo /\ Due \in DOMAIN listing
  BY <1>1, WriterAt
<1>3. Busy' /\ whole' = whole
  BY <1>1, WriterAt DEF Writing
<1>4. work' = [listing |-> listing, todo |-> todo, step |-> "delete"] /\ Due' = Due
  BY <1>1, <1>2 DEF Due
<1>5. listing[TO] \in Nat /\ Due \in Nat
  BY <1>2, VersionOfTO
<1>6. /\ manifest' \in [documents : SUBSET Nat, indexed : SUBSET Nat, to : Nat]
      /\ manifest'.indexed = manifest.indexed \ {Due}
      /\ manifest'.to = IF Due = TO THEN listing[TO] ELSE manifest.to
  <2>1. manifest' = [documents |-> manifest.documents \cup {Due},
                     indexed |-> manifest.indexed \ {Due},
                     to |-> IF Due = TO THEN listing[TO] ELSE manifest.to]
    BY <1>2 DEF Checkpoint
  <2> QED
    BY <1>5, <2>1 DEF DInv, Dated
<1>7. Dated'
  BY <1>1, <1>6 DEF DInv, Dated
<1>8. Midway'
  <2>1. TO \in todo \cup manifest'.indexed
    BY <1>2, <1>6
  <2>2. work'.step = "delete" /\ work'.todo = todo /\ work'.listing = listing
    BY <1>4
  <2>3. Due' \notin manifest'.indexed /\ todo # {}
    BY <1>2, <1>4, <1>6
  <2>4. Due' = TO => manifest'.to = listing[TO]
    BY <1>4, <1>6
  <2>5. work' \in [listing : Listings, todo : SUBSET Nat,
                   step : {"checkpoint", "delete", "upsert", "flag"}]
    BY <1>4
  <2> QED
    BY <1>2, <2>1, <2>2, <2>3, <2>4, <2>5 DEF Midway
<1>9. Complete' /\ Lexical'
  BY <1>1, <1>3, SavedLexical DEF DInv, Complete
<1> QED
  BY <1>7, <1>8, <1>9 DEF DInv

(* What was stored of it goes.                                             *)
LEMMA DeleteKeeps ==
  ASSUME DInv, NEW j, Delete(j)
  PROVE  DInv'
<1>1. /\ Writing(j, "delete") /\ manifest' = manifest /\ lexicon' = lexicon
      /\ work' = [work EXCEPT !.step = "upsert"]
      /\ index' = {c \in index : c.doc # Due}
  BY DEF Delete
<1>2. PICK listing \in Listings, todo \in SUBSET Nat :
        /\ work = [listing |-> listing, todo |-> todo, step |-> "delete"]
        /\ todo \subseteq DOMAIN listing /\ TO \in todo \cup manifest.indexed
        /\ Due \in todo /\ Due \in DOMAIN listing
  BY <1>1, WriterAt
<1>3. Busy /\ Busy' /\ whole' = whole
  BY <1>1, WriterAt DEF Writing
<1>4. work' = [listing |-> listing, todo |-> todo, step |-> "upsert"] /\ Due' = Due
  BY <1>1, <1>2 DEF Due
<1>5. /\ Due \notin manifest.indexed
      /\ Due = TO => manifest.to = listing[TO]
  BY <1>2, <1>3 DEF DInv, Midway
<1>6. Stock(index')
  <2>1. index' \in SUBSET index /\ IsFiniteSet(index)
    BY <1>1 DEF DInv, Dated, Stock
  <2>2. IsFiniteSet(index')
    BY <2>1, FS_Subset
  <2> QED
    BY <2>1, <2>2 DEF DInv, Dated, Stock
<1>7. TO \in manifest'.indexed => Bears(index', manifest'.to)
  <2> SUFFICES ASSUME TO \in manifest.indexed PROVE Bears(index', manifest.to)
    BY <1>1
  <2>1. Bears(index, manifest.to) /\ TO # Due
    BY <1>5 DEF DInv, Dated
  <2> QED
    BY <1>1, <2>1 DEF Bears, Written
<1>8. Dated'
  BY <1>1, <1>6, <1>7 DEF DInv, Dated
<1>9. Midway'
  <2>1. work'.step = "upsert" /\ work'.todo = todo /\ work'.listing = listing
    BY <1>4
  <2>2. Due' = TO => ~Written(index', TO)
    BY <1>1, <1>4 DEF Written
  <2>3. Written(index, TO)' <=> Written(index', TO)
    BY DEF Written
  <2>4. work' \in [listing : Listings, todo : SUBSET Nat,
                   step : {"checkpoint", "delete", "upsert", "flag"}]
    BY <1>4
  <2> QED
    BY <1>1, <1>2, <1>4, <1>5, <2>1, <2>2, <2>3, <2>4 DEF Midway
<1>10. Complete' /\ Lexical'
  BY <1>1, <1>3 DEF DInv, Complete, Lexical
<1> QED
  BY <1>8, <1>9, <1>10 DEF DInv

(* Its passages come, in the place of any of the same name.                *)
LEMMA UpsertKeeps ==
  ASSUME DInv, NEW j, Upsert(j)
  PROVE  DInv'
<1>1. /\ Writing(j, "upsert") /\ manifest' = manifest /\ lexicon' = lexicon
      /\ work' = [work EXCEPT !.step = "flag"]
  BY DEF Upsert
<1>2. PICK listing \in Listings, todo \in SUBSET Nat :
        /\ work = [listing |-> listing, todo |-> todo, step |-> "upsert"]
        /\ todo \subseteq DOMAIN listing /\ TO \in todo \cup manifest.indexed
        /\ Due \in todo /\ Due \in DOMAIN listing
  BY <1>1, WriterAt
<1>3. Busy /\ Busy' /\ whole' = whole
  BY <1>1, WriterAt DEF Writing
<1>4. work' = [listing |-> listing, todo |-> todo, step |-> "flag"] /\ Due' = Due
  BY <1>1, <1>2 DEF Due
<1>5. /\ Due \notin manifest.indexed
      /\ Due = TO => manifest.to = listing[TO] /\ ~Written(index, TO)
  BY <1>2, <1>3 DEF DInv, Midway
<1> DEFINE new == Passages(Due, listing[Due])
           old == {c \in index : \A e \in new : Id(c) # Id(e)}
<1>6. index' = old \cup new
  BY <1>2 DEF Upsert
<1>7. Stock(new) /\ \A c \in new : c.doc = Due
  BY <1>2, PassagesStock
<1>8. Due = TO => Bears(new, listing[TO])
  <2>1. Bears(Passages(TO, listing[TO]), listing[TO])
    BY VersionOfTO
  <2> QED
    BY <2>1
<1> HIDE DEF new
<1>9. Stock(index')
  <2>1. old \in SUBSET index /\ IsFiniteSet(index) /\ IsFiniteSet(new)
    BY <1>7 DEF DInv, Dated, Stock
  <2>2. IsFiniteSet(index')
    <3>1. IsFiniteSet(old)
      BY <2>1, FS_Subset
    <3> HIDE DEF old
    <3> QED
      BY <1>6, <2>1, <3>1, FS_Union
  <2>3. index' \subseteq Chunks /\ \A c \in index' : c.n > 0
    BY <1>6, <1>7 DEF DInv, Dated, Stock
  <2>4. ASSUME NEW b \in index', NEW c \in index', Id(b) = Id(c)
        PROVE  b = c
    <3>1. CASE b \in new /\ c \in new
      BY <1>7, <2>4, <3>1 DEF Stock
    <3>2. CASE b \in old /\ c \in old
      BY <2>4, <3>2 DEF DInv, Dated, Stock
    <3>3. ~(b \in new /\ c \in old) /\ ~(b \in old /\ c \in new)
      BY <2>4
    <3> QED
      BY <1>6, <3>1, <3>2, <3>3
  <2> QED
    BY <2>2, <2>3, <2>4 DEF Stock
<1>10. TO \in manifest'.indexed => Bears(index', manifest'.to)
  <2> SUFFICES ASSUME TO \in manifest.indexed PROVE Bears(index', manifest.to)
    BY <1>1
  <2>1. Bears(index, manifest.to) /\ TO # Due
    BY <1>5 DEF DInv, Dated
  <2>2. \A c \in index : c.doc = TO => c \in old
    BY <1>7, <2>1 DEF Id
  <2>3. \A c \in index' : c.doc = TO => c \in index
    BY <1>6, <1>7, <2>1
  <2> QED
    BY <1>6, <2>1, <2>2, <2>3 DEF Bears, Written
<1>11. Dated'
  BY <1>1, <1>9, <1>10 DEF DInv, Dated
<1>12. Due' = TO => Bears(index', manifest'.to)
  <2> SUFFICES ASSUME Due = TO PROVE Bears(index', listing[TO])
    BY <1>1, <1>4, <1>5
  <2>1. \A c \in old : c.doc # TO
    BY <1>5 DEF Written
  <2> QED
    BY <1>6, <1>8, <2>1 DEF Bears, Written
<1>13. Midway'
  <2>1. work'.step = "flag" /\ work'.todo = todo /\ work'.listing = listing
    BY <1>4
  <2>2. Bears(index, manifest.to)' <=> Bears(index', manifest'.to)
    BY DEF Bears, Written
  <2>3. work' \in [listing : Listings, todo : SUBSET Nat,
                   step : {"checkpoint", "delete", "upsert", "flag"}]
    BY <1>4
  <2> QED
    BY <1>1, <1>2, <1>4, <1>5, <1>12, <2>1, <2>2, <2>3 DEF Midway
<1>14. Complete' /\ Lexical'
  BY <1>1, <1>3 DEF DInv, Complete, Lexical
<1> QED
  BY <1>11, <1>13, <1>14 DEF DInv

(* It is flagged, and another is due.                                      *)
LEMMA FlagKeeps ==
  ASSUME DInv, NEW j, Flag(j)
  PROVE  DInv'
<1>1. /\ Writing(j, "flag") /\ index' = index /\ Saved
      /\ manifest' = [manifest EXCEPT !.indexed = @ \cup {Due}]
      /\ work' = [work EXCEPT !.todo = @ \ {Due}, !.step = "checkpoint"]
  BY DEF Flag
<1>2. PICK listing \in Listings, todo \in SUBSET Nat :
        /\ work = [listing |-> listing, todo |-> todo, step |-> "flag"]
        /\ todo \subseteq DOMAIN listing /\ TO \in todo \cup manifest.indexed
        /\ Due \in todo /\ Due \in DOMAIN listing
  BY <1>1, WriterAt
<1>3. Busy /\ Busy' /\ whole' = whole
  BY <1>1, WriterAt DEF Writing
<1>4. Due = TO => Bears(index, manifest.to)
  BY <1>2, <1>3 DEF DInv, Midway
<1>5. work' = [listing |-> listing, todo |-> todo \ {Due}, step |-> "checkpoint"]
  BY <1>1, <1>2
<1>6. /\ manifest' \in [documents : SUBSET Nat, indexed : SUBSET Nat, to : Nat]
      /\ manifest'.indexed = manifest.indexed \cup {Due}
      /\ manifest'.to = manifest.to
  BY <1>1, <1>2 DEF DInv, Dated
<1>7. Dated'
  <2>1. TO \in manifest'.indexed => Bears(index', manifest'.to)
    BY <1>1, <1>4, <1>6 DEF DInv, Dated
  <2> QED
    BY <1>1, <1>6, <2>1 DEF DInv, Dated
<1>8. Midway'
  <2>1. work'.step = "checkpoint" /\ work'.todo = todo \ {Due} /\ work'.listing = listing
    BY <1>5
  <2>2. TO \in (todo \ {Due}) \cup manifest'.indexed
    BY <1>2, <1>6
  <2>3. work' \in [listing : Listings, todo : SUBSET Nat,
                   step : {"checkpoint", "delete", "upsert", "flag"}]
    BY <1>5
  <2> QED
    BY <1>2, <2>1, <2>2, <2>3 DEF Midway
<1>9. Complete' /\ Lexical'
  BY <1>1, <1>3, SavedLexical DEF DInv, Complete
<1> QED
  BY <1>7, <1>8, <1>9 DEF DInv

(* A writer that is done leaves the texto ordenado flagged.                *)
LEMMA EndKeeps ==
  ASSUME IInv, DInv, NEW j \in Jobs, EndWrite(j)
  PROVE  DInv'
<1>1. /\ UNCHANGED <<manifest, index>> /\ Saved /\ Goto(j, "ending")
      /\ job[j] = "working" /\ j \in Writers /\ work.todo = {}
  BY DEF EndWrite
<1>2. Busy
  BY <1>1 DEF Busy
<1>3. TO \in manifest.indexed
  BY <1>1, <1>2 DEF DInv, Midway
<1>4. \A i \in Writers : job'[i] # "working"
  BY <1>1, OneWorks DEF Goto, IInv, TypeOK, Jobs
<1>5. Lexical'
  BY <1>1, SavedLexicon DEF Lexical, DInv
<1>6. Dated' /\ Complete' /\ Midway'
  BY <1>1, <1>3, <1>4 DEF DInv, Dated, Complete, Midway, Busy
<1> QED
  BY <1>5, <1>6 DEF DInv

LEMMA DumpHolds == IInv /\ DInv /\ [Next]_vars => DInv'
<1> SUFFICES ASSUME IInv, DInv, [Next]_vars PROVE DInv'
  OBVIOUS
<1>1. CASE \/ \E q \in Asked : Begin(q)
           \/ Reply \/ Crash \/ Restart \/ Deploy
  BY <1>1, OthersAside
<1>2. CASE Find \/ Publish \/ Reboot
  BY <1>2, FindKeeps, PublishKeeps, RebootKeeps
<1>3. ASSUME NEW j \in Jobs, Call(j) \/ HelperStep(j)
      PROVE  DInv'
  <2>1. CASE Call(j) \/ Acquire(j) \/ StopService(j) \/ StartService(j) \/ Release(j)
    BY <2>1, OthersAside
  <2>2. CASE Fail(j) \/ BeginWrite(j) \/ EndWrite(j)
    BY <2>2, FailKeeps, BeginKeeps, EndKeeps
  <2>3. CASE Checkpoint(j) \/ Delete(j) \/ Upsert(j) \/ Flag(j)
    BY <2>3, CheckpointKeeps, DeleteKeeps, UpsertKeeps, FlagKeeps
  <2>4. CASE \/ BeginScore(j) \/ Retrieval(j) \/ Generation(j)
             \/ WriteL1(j) \/ Gate(j) \/ EndScore(j)
    <3>1. j \in Scorers
      BY <2>4 DEF BeginScore, Retrieval, Generation, WriteL1, Gate, EndScore, Scoring
    <3> QED
      BY <2>4, <3>1, ScorersAside
  <2> QED
    BY <1>3, <2>1, <2>2, <2>3, <2>4 DEF HelperStep
<1>4. CASE UNCHANGED vars
  BY <1>4, DumpAside DEF vars, disk, helpers, service, Busy
<1> QED
  BY <1>1, <1>2, <1>3, <1>4 DEF Next

LEMMA DumpInit == Init => DInv
<1> SUFFICES ASSUME Init PROVE DInv
  OBVIOUS
<1>1. PICK listing \in Listings : manifest = ManifestOf(listing) /\ index = Dump(listing)
  BY DEF Init
<1>2. manifest.to = listing[TO] /\ manifest.indexed = DOMAIN listing
  BY <1>1 DEF ManifestOf
<1>3. ~Busy /\ lexicon = None
  BY DEF Init, Busy, Jobs
<1>4. Dated
  BY <1>1, <1>2, DumpStock DEF Dated
<1> QED
  BY <1>2, <1>3, <1>4, VersionOfTO DEF DInv, Complete, Midway, Lexical

-----------------------------------------------------------------------------
(* The page.  The evaluation it shows is the one on disk: what writes it   *)
(* has the service down, or starts it again.                               *)

Paged == svc = "up" /\ ~cut /\ ~published => page = l1

LEMMA PageHolds == IInv /\ Paged /\ [Next]_vars => Paged'
<1> SUFFICES ASSUME IInv, Paged, [Next]_vars PROVE Paged'
  OBVIOUS
<1>1. CASE (\E q \in Asked : Begin(q)) \/ Find \/ Reply \/ UNCHANGED vars
  BY <1>1 DEF Paged, Begin, Find, Reply, disk, vars, helpers, service
<1>2. CASE Crash \/ Restart \/ Deploy \/ Reboot
  BY <1>2 DEF Paged, Crash, Restart, Deploy, Reboot, Started, disk
<1>3. CASE Publish
  BY <1>3 DEF Paged, Publish
<1>4. ASSUME NEW j \in Jobs, Call(j) \/ Acquire(j) \/ Fail(j) \/ Release(j) \/ BeginWrite(j)
      PROVE  Paged'
  BY <1>4 DEF Paged, Call, Acquire, Fail, Release, BeginWrite, disk, service
<1>5. ASSUME NEW j \in Jobs, StopService(j) \/ StartService(j)
      PROVE  Paged'
  BY <1>5 DEF Paged, StopService, StartService, Stopped, Started, disk, service
<1>6. ASSUME NEW j \in Jobs, Checkpoint(j) \/ Delete(j) \/ Upsert(j) \/ Flag(j) \/ EndWrite(j)
      PROVE  Paged'
  BY <1>6 DEF Paged, Checkpoint, Delete, Upsert, Flag, EndWrite, Writing
<1>7. ASSUME NEW j \in Jobs,
             BeginScore(j) \/ Retrieval(j) \/ Generation(j) \/ Gate(j) \/ EndScore(j)
      PROVE  Paged'
  BY <1>7 DEF Paged, BeginScore, Retrieval, Generation, Gate, EndScore, Scoring, disk, service
<1>8. ASSUME NEW j \in Jobs, WriteL1(j)
      PROVE  Paged'
  <2>1. svc = "stopped" \/ cut
    BY <1>8 DEF WriteL1, Scoring, IInv, Down
  <2> QED
    BY <1>8, <2>1 DEF Paged, WriteL1, Scoring, service
<1> QED
  BY <1>1, <1>2, <1>3, <1>4, <1>5, <1>6, <1>7, <1>8 DEF Next, HelperStep

-----------------------------------------------------------------------------
(* The turn.  Unless it is set apart, no job is where it may write, so     *)
(* that the version the answer is dated by is still that of the manifest.  *)

Fielded(t) ==
  \E q, at, date, apart, result :
    q \in Asked /\ t = [q |-> q, at |-> at, date |-> date, apart |-> apart, result |-> result]

Turned ==
  turn # None =>
    /\ svc = "up"
    /\ Fielded(turn)
    /\ ~turn.apart =>
         /\ \A j \in Jobs : job[j] \notin {"stopped", "working", "ending"}
         /\ turn.date = manifest.to

LEMMA BeginTurned ==
  ASSUME IInv, NEW q \in Asked, Begin(q)
  PROVE  Turned'
<1> DEFINE set == published \/ (cut /\ lock # None)
<1>1. turn' = [q |-> q, at |-> "asked", date |-> manifest.to, apart |-> set, result |-> None]
  BY DEF Begin
<1>2. ~set => \A j \in Jobs : job[j] \notin {"stopped", "working", "ending"}
  <2> SUFFICES ASSUME ~set, NEW j \in Jobs, job[j] \in {"stopped", "working", "ending"}
               PROVE  FALSE
    OBVIOUS
  <2>1. lock = j
    BY DEF IInv, Held, Past
  <2>2. svc = "stopped" \/ cut
    BY DEF IInv, Down
  <2> QED
    BY <2>1, <2>2, HostAssumption DEF Begin
<1> HIDE DEF set
<1>3. UNCHANGED <<svc, job, manifest>> /\ svc = "up"
  BY DEF Begin, disk, helpers
<1>4. turn'.apart = set /\ turn'.date = manifest.to
  BY <1>1
<1>5. Fielded(turn')
  BY <1>1 DEF Fielded
<1> QED
  BY <1>2, <1>3, <1>4, <1>5 DEF Turned

LEMMA FindTurned ==
  ASSUME Turned, Find
  PROVE  /\ Turned'
         /\ turn'.q = turn.q /\ turn'.at = "found" /\ turn'.date = turn.date
         /\ turn'.apart = turn.apart
         /\ turn' = [turn EXCEPT !.at = "found", !.result = turn'.result]
<1>1. PICK new : turn' = [turn EXCEPT !.at = "found", !.result = new]
  BY DEF Find
<1>2. PICK q, at, date, apart, result :
        /\ q \in Asked
        /\ turn = [q |-> q, at |-> at, date |-> date, apart |-> apart, result |-> result]
  BY DEF Find, Turned, Fielded
<1>3. turn' = [q |-> q, at |-> "found", date |-> date, apart |-> apart, result |-> new]
  BY <1>1, <1>2
<1>4. UNCHANGED <<svc, job, manifest>>
  BY DEF Find, disk, helpers
<1>5. turn'.q = turn.q /\ turn'.at = "found" /\ turn'.date = turn.date
      /\ turn'.apart = turn.apart /\ turn'.result = new
  BY <1>2, <1>3
<1>6. Fielded(turn')
  BY <1>2, <1>3 DEF Fielded
<1>7. Turned'
  BY <1>4, <1>5, <1>6 DEF Turned, Find
<1> QED
  BY <1>1, <1>5, <1>7

(* Of the other steps, each ends the turn or sets it apart, or touches     *)
(* neither it nor what it reads.                                           *)
LEMMA TurnStands ==
  ASSUME IInv, Turned, [Next]_vars, ~Find, \A q \in Asked : ~Begin(q)
  PROVE  /\ Turned'
         /\ turn' # None /\ ~turn'.apart => UNCHANGED <<turn, index, whole>>
<1> DEFINE Good == /\ Turned'
                   /\ turn' # None /\ ~turn'.apart => UNCHANGED <<turn, index, whole>>
<1>1. ASSUME turn' = None
      PROVE  Good
  BY <1>1 DEF Turned
<1>2. ASSUME UNCHANGED <<turn, index, whole, manifest, svc>>,
             \A j \in Jobs : job'[j] \in {"stopped", "working", "ending"} =>
                               job[j] \in {"stopped", "working", "ending"}
      PROVE  Good
  BY <1>2 DEF Turned
<1>3. ASSUME UNCHANGED <<turn, svc>>, NEW j \in Jobs, job[j] \in {"stopped", "working", "ending"}
      PROVE  Good
  BY <1>3 DEF Turned
<1>4. CASE Reply \/ Crash \/ Restart \/ Deploy \/ Reboot
  BY <1>1, <1>4 DEF Reply, Crash, Restart, Deploy, Reboot, Started, Gone
<1>5. CASE UNCHANGED vars
  BY <1>2, <1>5 DEF vars, disk, helpers, service
<1>6. CASE Publish
  <2>1. UNCHANGED <<svc, job>> /\ turn' = IF turn = None THEN None ELSE [turn EXCEPT !.apart = TRUE]
    BY <1>6 DEF Publish, helpers
  <2>2. CASE turn = None
    BY <1>1, <2>1, <2>2
  <2>3. CASE turn # None
    <3>1. PICK q, at, date, apart, result :
            /\ q \in Asked
            /\ turn = [q |-> q, at |-> at, date |-> date, apart |-> apart, result |-> result]
      BY <2>3 DEF Turned, Fielded
    <3> DEFINE yes == TRUE
    <3>2. yes /\ turn' = [turn EXCEPT !.apart = yes]
      BY <2>1, <2>3
    <3> HIDE DEF yes
    <3>3. turn' = [q |-> q, at |-> at, date |-> date, apart |-> yes, result |-> result]
      BY <3>1, <3>2
    <3>4. turn'.apart
      BY <3>2, <3>3
    <3>5. svc' = "up"
      BY <2>1, <2>3 DEF Turned
    <3>6. Fielded(turn')
      BY <3>1, <3>3 DEF Fielded
    <3> QED
      BY <3>4, <3>5, <3>6 DEF Turned
  <2> QED
    BY <2>2, <2>3
<1>7. ASSUME NEW j \in Jobs, Call(j) \/ Acquire(j) \/ Release(j)
      PROVE  Good
  <2>1. UNCHANGED <<turn, index, whole, manifest, svc>>
        /\ \E place \in {"waiting", "locked", "idle"} : Goto(j, place)
    BY <1>7 DEF Call, Acquire, Release, disk, service
  <2> QED
    BY <1>2, <2>1 DEF Goto, IInv, TypeOK
<1>8. ASSUME NEW j \in Jobs, StopService(j)
      PROVE  Good
  BY <1>1, <1>8 DEF StopService, Stopped, Gone
<1>9. ASSUME NEW j \in Jobs, StartService(j)
      PROVE  Good
  BY <1>1, <1>3, <1>9 DEF StartService, Started, Gone, service
<1>10. ASSUME NEW j \in Jobs, Fail(j) \/ BeginWrite(j) \/ EndWrite(j) \/ BeginScore(j) \/ EndScore(j)
       PROVE  Good
  BY <1>3, <1>10 DEF Fail, BeginWrite, EndWrite, BeginScore, EndScore, Scoring, service
<1>11. ASSUME NEW j \in Jobs,
              \/ Checkpoint(j) \/ Delete(j) \/ Upsert(j) \/ Flag(j)
              \/ Retrieval(j) \/ Generation(j) \/ WriteL1(j) \/ Gate(j)
       PROVE  Good
  BY <1>3, <1>11 DEF Checkpoint, Delete, Upsert, Flag, Writing,
                     Retrieval, Generation, WriteL1, Gate, Scoring, service
<1> QED
  BY <1>4, <1>5, <1>6, <1>7, <1>8, <1>9, <1>10, <1>11 DEF Next, HelperStep

(* A turn ranks all the passages stored, and some of the lexicon's.        *)
LEMMA FindRanks ==
  ASSUME DInv, Find
  PROVE  \E rank :
           /\ Rankings(rank, index, LexiconNow.rows)
           /\ turn' = [turn EXCEPT !.at = "found",
                         !.result = Route(turn.q, rank, manifest.documents, manifest.to, index)]
           /\ Len(Of(rank.dense, Comms)) <= Cardinality({c \in index : c.doc # TO})
<1> DEFINE rows == LexiconNow.rows
<1>1. PICK dense \in Orders(index), words \in SUBSET rows :
        \E lexical \in Orders(words) :
          turn' = [turn EXCEPT !.at = "found",
                     !.result = Route(turn.q, [dense |-> dense, lexical |-> lexical],
                                      manifest.documents, manifest.to, index)]
  BY DEF Find
<1>9. PICK lexical \in Orders(words) :
        turn' = [turn EXCEPT !.at = "found",
                   !.result = Route(turn.q, [dense |-> dense, lexical |-> lexical],
                                    manifest.documents, manifest.to, index)]
  BY <1>1
<1>2. Stock(index) /\ Stock(rows)
  BY LexiconRows DEF DInv, Dated
<1> HIDE DEF rows
<1>3. IsFiniteSet(words) /\ \A b, c \in words : Id(b) = Id(c) => b = c
  BY <1>2, FS_Subset DEF Stock
<1>4. /\ dense \in Seq(index) /\ Apart(dense)
      /\ \A c \in index : \E i \in 1 .. Len(dense) : dense[i] = c
  BY <1>2, RankingOf, RankingApart DEF Stock, Orders
<1>5. lexical \in Seq(rows) /\ Apart(lexical)
  <2>1. lexical \in Seq(words) /\ Apart(lexical)
    BY <1>3, RankingOf, RankingApart DEF Orders
  <2> QED
    BY <2>1, SeqMonotonic
<1>6. Len(Of(dense, Comms)) <= Cardinality({c \in index : c.doc # TO})
  <2> DEFINE T == {c \in index : c.doc # TO}
  <2>1. Of(dense, Comms) \in Seq(Those(index, Comms)) /\ Apart(Of(dense, Comms))
    BY <1>2, <1>4, OfList DEF Stock
  <2>2. Those(index, Comms) = T
    BY <1>2 DEF Those, Stock, Chunks, Comms, TO
  <2>3. IsFiniteSet(T)
    BY <1>2, FS_Subset DEF Stock
  <2> HIDE DEF T
  <2>4. Of(dense, Comms) \in Seq(T)
    BY <2>1, <2>2
  <2>5. Len(Of(dense, Comms)) <= Cardinality(T)
    BY <2>1, <2>3, <2>4, ApartCount
  <2> QED
    BY <2>5 DEF T
<1> DEFINE rank == [dense |-> dense, lexical |-> lexical]
<1>7. rank.dense = dense /\ rank.lexical = lexical
  OBVIOUS
<1>8. Rankings(rank, index, rows)
  BY <1>2, <1>4, <1>5, <1>7 DEF Rankings, Stock
<1> QED
  BY <1>9, <1>6, <1>7, <1>8 DEF rows

(* What a turn answers with: what its route found, and perhaps what that   *)
(* referred to.                                                            *)
LEMMA FindShape ==
  ASSUME DInv, Turned, Find
  PROVE  \/ turn'.result.silencio /\ turn'.result.hits = <<>>
         \/ \E rank, found :
              /\ Rankings(rank, index, LexiconNow.rows)
              /\ Len(Of(rank.dense, Comms)) <= Cardinality({c \in index : c.doc # TO})
              /\ Basis(found, turn.q, rank, index, LexiconNow.rows, manifest.to)
              /\ turn'.result = found \/ Followed(turn'.result, found, manifest.documents, index)
<1>1. PICK rank :
        /\ Rankings(rank, index, LexiconNow.rows)
        /\ turn' = [turn EXCEPT !.at = "found",
                      !.result = Route(turn.q, rank, manifest.documents, manifest.to, index)]
        /\ Len(Of(rank.dense, Comms)) <= Cardinality({c \in index : c.doc # TO})
  BY FindRanks
<1>2. PICK q, at, date, apart, result :
        /\ q \in Asked
        /\ turn = [q |-> q, at |-> at, date |-> date, apart |-> apart, result |-> result]
  BY DEF Find, Turned, Fielded
<1> DEFINE out == Route(turn.q, rank, manifest.documents, manifest.to, index)
<1>3. turn'.result = out
  <2> HIDE DEF out
  <2>1. turn' = [turn EXCEPT !.at = "found", !.result = out]
    BY <1>1 DEF out
  <2> QED
    BY <1>2, <2>1
<1>4. manifest.to \in Nat
  BY DEF DInv, Dated
<1>5. \/ out.silencio /\ out.hits = <<>>
      \/ \E found : /\ Basis(found, turn.q, rank, index, LexiconNow.rows, manifest.to)
                    /\ out = found \/ Followed(out, found, manifest.documents, index)
  <2> DEFINE q1 == turn.q  rows == LexiconNow.rows  docs == manifest.documents
             to == manifest.to
  <2>1. out = Route(q1, rank, docs, to, index) /\ Rankings(rank, index, rows)
    BY <1>1
  <2> HIDE DEF q1, rows, docs, to, out
  <2>2. to \in Nat
    BY <1>4 DEF to
  <2>3. \/ out.silencio /\ out.hits = <<>>
        \/ \E found : /\ Basis(found, q1, rank, index, rows, to)
                      /\ out = found \/ Followed(out, found, docs, index)
    BY <2>1, <2>2, RouteShape
  <2> QED
    BY <2>3 DEF q1, rows, docs, to
<1> HIDE DEF out
<1> QED
  BY <1>1, <1>3, <1>5

(* All of a document is of its version.                                    *)
LEMMA SectionOf ==
  ASSUME NEW stored, NEW v, Bears(stored, v), NEW d
  PROVE  /\ Section(stored, d).doc = d
         /\ d = TO => Section(stored, d).v = v
<1> DEFINE parts == {c \in stored : c.doc = d}
<1>1. Section(stored, d).doc = d
      /\ Section(stored, d).v = IF parts = {} THEN 0 ELSE (CHOOSE c \in parts : TRUE).v
  BY DEF Section
<1>2. ASSUME d = TO
      PROVE  parts # {} /\ \A c \in parts : c.v = v
  BY <1>2 DEF Bears, Written
<1> HIDE DEF parts
<1> QED
  BY <1>1, <1>2

(* The passages of an answer over a store and a lexicon of the same are of *)
(* the store, or all that a document of it says.                           *)
Quoted(c, stored, asOf) ==
  /\ c.doc = TO => c.v = asOf
  /\ c \in stored \/ c = Section(stored, c.doc)

Reached(out, found, documents, stored) == out = found \/ Followed(out, found, documents, stored)

LEMMA ResultQuotes ==
  ASSUME NEW q, NEW rank, NEW stored, NEW asOf, NEW documents, Bears(stored, asOf),
         NEW found, Basis(found, q, rank, stored, stored, asOf),
         NEW out, Reached(out, found, documents, stored)
  PROVE  \A i \in DOMAIN out.hits : Quoted(out.hits[i], stored, asOf)
<1> SUFFICES ASSUME NEW i \in DOMAIN out.hits
             PROVE  Quoted(out.hits[i], stored, asOf)
  OBVIOUS
<1> DEFINE Good(c) == /\ c.doc = TO => c.v = asOf
                      /\ c \in stored \/ c = Section(stored, c.doc)
           s == found.hits
<1>1. \A d : Good(Section(stored, d))
  BY SectionOf
<1>2. (\E S : s \in Seq(S)) /\ \A k \in 1 .. Len(s) : Good(s[k])
  <2>1. CASE found.kind = "named"
    <3>1. s \in Seq({Section(stored, q.ids[1])})
      BY <2>1 DEF Basis
    <3>2. \A k \in 1 .. Len(s) : s[k] = Section(stored, q.ids[1])
      BY <3>1, ElementOfSeq
    <3> HIDE DEF Good, s
    <3> QED
      BY <1>1, <3>1, <3>2
  <2>2. CASE found.kind # "named"
    <3>1. s \in Seq(stored)
      BY <2>2 DEF Basis
    <3>2. \A k \in 1 .. Len(s) : s[k] \in stored
      BY <3>1, ElementOfSeq
    <3> QED
      BY <3>1, <3>2 DEF Bears
  <2> QED
    BY <2>1, <2>2
<1>3. PICK S : s \in Seq(S)
  BY <1>2
<1> HIDE DEF Good
<1>4. Good(out.hits[i])
  <2>1. CASE out = found
    BY <1>2, <1>3, <2>1
  <2>2. CASE Followed(out, found, documents, stored)
    <3>1. PICK target \in documents : out = Hits(found.kind, Append(s, Section(stored, target)))
      BY <2>2 DEF Followed
    <3> DEFINE x == Section(stored, target)
    <3> HIDE DEF x
    <3>2. out.hits = Append(s, x)
      BY <3>1 DEF Hits, x
    <3> HIDE DEF s
    <3>3. s \in Seq(S \cup {x}) /\ Len(s) \in Nat
      BY <1>3, SeqMonotonic
    <3>4. /\ DOMAIN Append(s, x) = 1 .. Len(s) + 1 /\ Append(s, x)[Len(s) + 1] = x
          /\ \A k \in 1 .. Len(s) : Append(s, x)[k] = s[k]
      BY <3>3, AppendProperties
    <3>5. i \in 1 .. Len(s) \/ i = Len(s) + 1
      BY <3>2, <3>3, <3>4
    <3>6. Good(x)
      BY <1>1 DEF x
    <3> QED
      BY <1>2, <3>2, <3>4, <3>5, <3>6
  <2> QED
    BY <2>1, <2>2 DEF Reached
<1> QED
  BY <1>4 DEF Good, Quoted

Sound(out, stored, asOf) == \A i \in DOMAIN out.hits : Quoted(out.hits[i], stored, asOf)

(* What a turn found is so, unless it is set apart.                        *)
Quotes ==
  turn # None /\ turn.at = "found" /\ ~turn.apart /\ whole =>
    Sound(turn.result, index, turn.date)

LEMMA FindQuotes ==
  ASSUME IInv, DInv, Turned, Find
  PROVE  Quotes'
<1>1. UNCHANGED <<manifest, index, whole>> /\ turn'.date = turn.date /\ turn'.apart = turn.apart
  BY FindTurned DEF Find, disk
<1> SUFFICES ASSUME ~turn.apart, whole, turn'.result.hits # <<>>
             PROVE  Sound(turn'.result, index, turn.date)
  BY <1>1 DEF Quotes, Sound
<1>2. ~Busy /\ turn.date = manifest.to
  BY DEF Turned, Find, Busy, Jobs
<1>3. Bears(index, manifest.to) /\ LexiconNow.rows = index
  BY <1>2, LexiconRows DEF DInv, Complete, Dated
<1>4. PICK rank, found :
        /\ Basis(found, turn.q, rank, index, index, manifest.to)
        /\ Reached(turn'.result, found, manifest.documents, index)
  BY <1>3, FindShape DEF Reached
<1> DEFINE out == turn'.result  to == manifest.to  documents == manifest.documents  q == turn.q
<1>5. /\ Basis(found, q, rank, index, index, to) /\ Bears(index, to)
      /\ Reached(out, found, documents, index)
  BY <1>3, <1>4
<1> HIDE DEF out, to, documents, q
<1>6. Sound(out, index, to)
  BY <1>5, ResultQuotes DEF Sound
<1> QED
  BY <1>2, <1>6 DEF out, to

(* A result that any route reached is routed as it was asked.              *)
LEMMA ResultRouted ==
  ASSUME NEW q, NEW rank, NEW stored, NEW rows, NEW asOf \in Nat, NEW documents,
         Rankings(rank, stored, rows), NEW full,
         full => rows = stored /\ Written(stored, TO),
         Len(Of(rank.dense, Comms)) <= Cardinality({c \in stored : c.doc # TO}),
         IsFiniteSet(stored),
         NEW r, Basis(r, q, rank, stored, rows, asOf),
         NEW out, Reached(out, r, documents, stored)
  PROVE  Routed(out, q, stored, asOf, full)
<1> DEFINE hits == out.hits
           followed == hits # <<>> /\ Last(hits).n = 0 /\ (Len(hits) > 1 \/ out.kind # "named")
           found == IF followed THEN Front(hits) ELSE hits
           later == {d \in Comms : d > asOf}
<1>1. /\ out.kind = r.kind /\ Apart(hits) /\ r.hits = found
      /\ followed => \A i \in 1 .. Len(r.hits) : r.hits[i].doc # Last(hits).doc
  BY FollowedTold DEF Reached
<1>2. Later(asOf) = later
  BY DEF Later, Comms
<1>3. PICK S : r.hits \in Seq(S)
  BY DEF Basis
<1>4. DOMAIN r.hits = 1 .. Len(r.hits) /\ Len(r.hits) <= K
  BY <1>3 DEF Basis
<1>5. ASSUME ExclusiveNamedId(q) # None
      PROVE  \A i \in DOMAIN r.hits : r.hits[i].doc = q.ids[1]
  <2>1. r.hits \in Seq({Section(stored, q.ids[1])})
    BY <1>5 DEF Basis
  <2>2. \A i \in 1 .. Len(r.hits) : r.hits[i] = Section(stored, q.ids[1])
    BY <2>1, ElementOfSeq
  <2>3. Section(stored, q.ids[1]).doc = q.ids[1]
    BY DEF Section
  <2> QED
    BY <1>4, <2>2, <2>3
<1>6. ASSUME r.kind = "vigente"
      PROVE  /\ \A i, j \in DOMAIN r.hits : i < j /\ r.hits[j].doc = TO => r.hits[i].doc = TO
             /\ \A i \in DOMAIN r.hits : r.hits[i].doc \in {TO} \cup later
  BY <1>2, <1>4, <1>6 DEF Basis, Leading
<1>7. ASSUME r.kind = "vigente", full, K > 1, q.back \/ \A c \in stored : ~c.back,
             \E c \in stored : c.doc \in later,
             Cardinality({c \in stored : c.doc # TO}) <= Candidates
      PROVE  /\ \E i \in DOMAIN r.hits : r.hits[i].doc \in {TO}
             /\ \E i \in DOMAIN r.hits : r.hits[i].doc \in later
  <2>1. Len(Of(rank.dense, Comms)) <= Candidates
    <3>1. Of(rank.dense, Comms) \in Seq(Those(stored, Comms))
      BY OfList DEF Rankings
    <3>2. Cardinality({c \in stored : c.doc # TO}) \in Nat
      BY FS_CardinalityType, FS_Subset
    <3> QED
      BY <1>7, <3>1, <3>2, RouterAssumption
  <2>2. BothThere(q, rank, stored, rows, asOf)
    BY <1>2, <1>7, <2>1 DEF BothThere
  <2> QED
    BY <1>2, <1>4, <1>7, <2>2 DEF Basis
<1> HIDE DEF followed, hits, later
<1>8. /\ Len(found) <= K /\ Apart(hits)
      /\ followed => \A i \in DOMAIN found : found[i].doc # Last(hits).doc
  BY <1>1, <1>4
<1> HIDE DEF found
<1> QED
  BY <1>1, <1>5, <1>6, <1>7, <1>8 DEF Routed, Apart, found, followed, hits, later

LEMMA FindRouted ==
  ASSUME IInv, DInv, Turned, Find
  PROVE  RoutedAsAsked'
<1>1. /\ UNCHANGED <<manifest, index, whole>> /\ turn'.date = turn.date
      /\ turn'.apart = turn.apart /\ turn'.q = turn.q
  BY FindTurned DEF Find, disk
<1> SUFFICES ASSUME ~turn.apart, ~turn'.result.silencio
             PROVE  Routed(turn'.result, turn.q, index, turn.date, whole)
  BY <1>1 DEF RoutedAsAsked
<1>2. ~Busy /\ turn.date = manifest.to /\ manifest.to \in Nat /\ Stock(index)
  BY DEF Turned, Find, Busy, Jobs, DInv, Dated
<1>3. whole => LexiconNow.rows = index /\ Written(index, TO)
  BY <1>2, LexiconRows DEF DInv, Complete, Dated, Bears
<1>4. PICK rank, found :
        /\ Rankings(rank, index, LexiconNow.rows)
        /\ Len(Of(rank.dense, Comms)) <= Cardinality({c \in index : c.doc # TO})
        /\ Basis(found, turn.q, rank, index, LexiconNow.rows, manifest.to)
        /\ Reached(turn'.result, found, manifest.documents, index)
  BY FindShape DEF Reached
<1> DEFINE out == turn'.result  to == manifest.to  documents == manifest.documents  q == turn.q
           rows == LexiconNow.rows
<1>5. /\ Rankings(rank, index, rows) /\ Basis(found, q, rank, index, rows, to)
      /\ Len(Of(rank.dense, Comms)) <= Cardinality({c \in index : c.doc # TO})
      /\ Reached(out, found, documents, index)
      /\ to \in Nat /\ IsFiniteSet(index)
      /\ whole => rows = index /\ Written(index, TO)
  BY <1>2, <1>3, <1>4 DEF Stock
<1> HIDE DEF out, to, documents, q, rows
<1>6. Routed(out, q, index, to, whole)
  BY <1>5, ResultRouted
<1> QED
  BY <1>2, <1>6 DEF out, to, q

-----------------------------------------------------------------------------
(* Every step keeps all of it.                                             *)

HInv == IInv /\ DInv /\ Turned /\ Paged /\ Quotes /\ RoutedAsAsked

LEMMA HostInit == Init => HInv
<1> SUFFICES ASSUME Init PROVE HInv
  OBVIOUS
<1>1. IInv /\ DInv
  BY InitHolds, DumpInit
<1>2. turn = None /\ page = l1
  BY DEF Init
<1> QED
  BY <1>1, <1>2 DEF HInv, Turned, Paged, Quotes, RoutedAsAsked

LEMMA HostHolds == HInv /\ [Next]_vars => HInv'
<1> SUFFICES ASSUME HInv, [Next]_vars PROVE HInv'
  OBVIOUS
<1>1. IInv /\ DInv /\ Turned /\ Paged /\ Quotes /\ RoutedAsAsked
  BY DEF HInv
<1>2. IInv' /\ DInv' /\ Paged'
  BY <1>1, StepHolds, DumpHolds, PageHolds
<1>3. Turned' /\ Quotes' /\ RoutedAsAsked'
  <2>1. CASE Find
    BY <1>1, <2>1, FindTurned, FindQuotes, FindRouted
  <2>2. ASSUME NEW q \in Asked, Begin(q)
        PROVE  Turned' /\ Quotes' /\ RoutedAsAsked'
    <3>1. turn'.at = "asked"
      BY <2>2 DEF Begin
    <3>2. Turned'
      BY <1>1, <2>2, BeginTurned
    <3> QED
      BY <3>1, <3>2 DEF Quotes, RoutedAsAsked
  <2>3. CASE ~Find /\ \A q \in Asked : ~Begin(q)
    <3>1. Turned' /\ (turn' # None /\ ~turn'.apart => UNCHANGED <<turn, index, whole>>)
      BY <1>1, <2>3, TurnStands
    <3>2. CASE turn' = None \/ turn'.apart
      BY <3>1, <3>2 DEF Quotes, RoutedAsAsked
    <3>3. CASE UNCHANGED <<turn, index, whole>>
      BY <1>1, <3>1, <3>3 DEF Quotes, RoutedAsAsked
    <3> QED
      BY <3>1, <3>2, <3>3
  <2> QED
    BY <2>1, <2>2, <2>3
<1> QED
  BY <1>2, <1>3 DEF HInv

(* The service shows what is on disk, although it keeps the manifest, the  *)
(* lexicon and the results of the evaluation in memory: with any number of *)
(* passages, documents, jobs and questions, an answer after a job that     *)
(* finished is dated by the version of the texto ordenado that it quotes,  *)
(* and quotes what the index holds; and the page shows the last results.   *)
THEOREM TurnsServeWhatIsThere == Spec => []ServesWhatIsThere
<1>1. HInv => ServesWhatIsThere
  BY DEF HInv, Quotes, Sound, Quoted, Paged, ServesWhatIsThere
<1> QED
  BY HostInit, HostHolds, <1>1, PTL DEF Spec

(* Whatever the two rankings say, an answer is routed as it was asked: a   *)
(* question that names a comunicación gets that one, one about the rule in *)
(* force gets the texto ordenado first and then what came after it, with a *)
(* place for either when both have something to say and the candidates     *)
(* hold every comunicación; nothing comes twice and no more than K come,   *)
(* but for the one that was referred to.                                   *)
THEOREM TurnsAreRouted == Spec => []RoutedAsAsked
<1>1. HInv => RoutedAsAsked
  BY DEF HInv
<1> QED
  BY HostInit, HostHolds, <1>1, PTL DEF Spec
=============================================================================
