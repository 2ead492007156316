-------------------------- MODULE Workload_proofs ---------------------------
(***************************************************************************)
(* Proofs about Workload: for any number of workers, cycles, actions,      *)
(* interrupts and collections, what start(), wait() and run() leave        *)
(* behind, what they report, and what may go wrong.                        *)
(***************************************************************************)
EXTENDS Workload, SequenceTheorems, TLAPS

-----------------------------------------------------------------------------
(* The inductive invariant, by what its parts are about. *)

Worker_ == [name : (1 .. MaxCycles) \X (1 .. NumWorkers), thread : Places,
            ran : BOOLEAN, made : Nat]

ObjectsInv == objects \in Seq(Worker_)

\* The counters, and where a call has left them.
CountsInv ==
  /\ cycle \in 0 .. MaxCycles /\ left \in 0 .. Repeat
  /\ pc \in Calls \cup {"idle", "raised", "destroy", "restarting", "end",
                       "terminated"}
  /\ pc \notin Calls \cup {"terminated"} => left = 0
  /\ pc = "loop" => cycle + left <= MaxCycles
  /\ pc \in Calls \ {"loop"} /\ left > 0 => cycle + left <= MaxCycles + 1
  /\ pc \in TryBlock \cup {"publish"} => cycle > 0
  /\ leaving \in BOOLEAN /\ (leaving => pc \in {"destroy", "end", "terminated"})
  /\ collector = NoOne \/ collector \in DOMAIN objects

ListInv(list, ids) ==
  /\ list \in Seq(Nat) /\ Len(list) <= NumWorkers
  /\ \A k \in DOMAIN list : list[k] \in ids
  /\ \A j, k \in DOMAIN list : list[j] = list[k] => j = k

\* A call's workers become the live ones and the other way round, so one list
\* is always empty.
ListsInv ==
  /\ ListInv(live, DOMAIN objects) /\ ListInv(workers, DOMAIN objects)
  /\ live = << >> \/ workers = << >>
  /\ pc \in {"idle", "restarting", "end", "loop", "wait"} => workers = << >>
  /\ pc \in TryBlock \cup {"publish", "unwind"} => live = << >>
  /\ pc = "construct" => Len(workers) < NumWorkers
  /\ pc \in {"setup", "launch", "append", "publish"} => Len(workers) = NumWorkers

LoopsInv ==
  /\ started \in 0 .. NumWorkers /\ done \in 0 .. NumWorkers
  /\ pc \in {"construct", "setup"} => started = 0
  /\ pc \in {"launch", "append"} => started < NumWorkers
  /\ pc = "unwind" => started <= Len(workers) /\ done <= started
  /\ pc \in {"join", "capture", "destroy"} => done <= Len(workers)

TypeInv == ObjectsInv /\ CountsInv /\ ListsInv /\ LoopsInv

-----------------------------------------------------------------------------
(* What a step does to the worker objects. *)

AnyWorkerStep(id) ==
  Act(id) \/ WantPython(id) \/ Attach(id) \/ Detach(id) \/ Finish(id)

\* One worker's thread changes its place, and what it made may grow; the rest of
\* the objects stays.
Moves(id) ==
  /\ DOMAIN objects' = DOMAIN objects /\ Len(objects') = Len(objects)
  /\ \A o \in DOMAIN objects :
       /\ objects'[o].name = objects[o].name /\ objects'[o].ran = objects[o].ran
       /\ o # id => objects'[o] = objects[o]

LEMMA ReplacedMoves ==
  ASSUME ObjectsInv, NEW id \in DOMAIN objects, NEW new \in Worker_,
         new.name = objects[id].name, new.ran = objects[id].ran,
         objects' = [objects EXCEPT ![id] = new]
  PROVE  ObjectsInv' /\ Moves(id) /\ objects'[id] = new
BY DEF ObjectsInv, Moves

LEMMA BecomesMoves ==
  ASSUME ObjectsInv, NEW id \in DOMAIN objects, NEW place \in Places,
         Becomes(id, place)
  PROVE  /\ ObjectsInv' /\ Moves(id)
         /\ objects'[id].thread = place /\ objects'[id].made = objects[id].made
<1> DEFINE new == [objects[id] EXCEPT !.thread = place]
<1>1. objects[id] \in Worker_
  BY DEF ObjectsInv
<1>2. objects' = [objects EXCEPT ![id] = new]
  BY DEF Becomes
<1>3. /\ new \in Worker_ /\ new.name = objects[id].name
      /\ new.ran = objects[id].ran /\ new.made = objects[id].made
      /\ new.thread = place
  BY <1>1 DEF Worker_
<1> HIDE DEF new
<1>4. QED
  BY <1>2, <1>3, ReplacedMoves

LEMMA MadeMoves ==
  ASSUME ObjectsInv, NEW id \in DOMAIN objects, NEW place \in Places,
         objects' = [objects EXCEPT ![id].thread = place, ![id].made = @ + 1]
  PROVE  ObjectsInv' /\ Moves(id) /\ objects'[id].thread = place
<1> DEFINE moved == [objects[id] EXCEPT !.thread = place]
           new   == [moved EXCEPT !.made = @ + 1]
           half  == [objects EXCEPT ![id] = moved]
<1>1. objects[id] \in Worker_
  BY DEF ObjectsInv
<1>2. /\ new \in Worker_ /\ new.name = objects[id].name
      /\ new.ran = objects[id].ran /\ new.thread = place
  BY <1>1 DEF Worker_
<1>3. objects' = [half EXCEPT ![id] = [half[id] EXCEPT !.made = @ + 1]]
  OBVIOUS
<1>4. half[id] = moved
  OBVIOUS
<1>5. objects' = [half EXCEPT ![id] = new]
  BY <1>3, <1>4
<1>6. objects' = [objects EXCEPT ![id] = new]
  <2> HIDE DEF new, moved
  <2>1. QED
    BY <1>5
<1> HIDE DEF new
<1>7. QED
  BY <1>2, <1>6, ReplacedMoves

LEMMA ActMoves ==
  ASSUME ObjectsInv, NEW id \in DOMAIN objects,
         objects' = [objects EXCEPT ![id].made = @ + 1]
  PROVE  ObjectsInv' /\ Moves(id) /\ objects'[id].thread = objects[id].thread
<1> DEFINE new == [objects[id] EXCEPT !.made = @ + 1]
<1>1. objects[id] \in Worker_
  BY DEF ObjectsInv
<1>2. /\ new \in Worker_ /\ new.name = objects[id].name
      /\ new.ran = objects[id].ran /\ new.thread = objects[id].thread
  BY <1>1 DEF Worker_
<1>3. objects' = [objects EXCEPT ![id] = new]
  OBVIOUS
<1> HIDE DEF new
<1>4. QED
  BY <1>2, <1>3, ReplacedMoves

\* A step of a worker's thread leaves the main thread alone, unless it ends the
\* process.
LEMMA WorkerMoves ==
  ASSUME ObjectsInv, NEW id \in DOMAIN objects, AnyWorkerStep(id)
  PROVE  /\ ObjectsInv' /\ Moves(id) /\ Alive /\ Running(id)
         /\ objects'[id].thread \in Threads \cup {"finished"}
         /\ pc' = pc \/ (pc' = "terminated" /\ UNCHANGED objects /\ ~serverUp)
         /\ UNCHANGED <<workerFrame, collector>>
<1> USE DEF Threads, ToAttach, Attached, Running, Thread, Places
<1>1. CASE Act(id)
  BY <1>1, ActMoves DEF Act
<1>2. CASE WantPython(id)
  BY <1>2, MadeMoves DEF WantPython
<1>3. CASE Attach(id)
  BY <1>3, BecomesMoves DEF Attach
<1>4. CASE Detach(id)
  <2>1. CASE pc' = "terminated"
    BY <1>4, <2>1, BecomesMoves DEF Detach, Goto, Moves, ObjectsInv, Alive
  <2>2. CASE pc' # "terminated"
    BY <1>4, <2>2, BecomesMoves DEF Detach, Goto
  <2>3. QED
    BY <2>1, <2>2
<1>5. CASE Finish(id)
  BY <1>5, BecomesMoves DEF Finish
<1>6. QED
  BY <1>1, <1>2, <1>3, <1>4, <1>5 DEF AnyWorkerStep

\* The other steps on the objects: the constructor's and run_thread()'s.
LEMMA ConstructMakes ==
  ASSUME TypeInv, Construct
  PROVE  LET id == Len(objects) + 1 IN
         /\ ObjectsInv' /\ DOMAIN objects' = DOMAIN objects \cup {id}
         /\ id \notin DOMAIN objects /\ Len(objects') = id /\ id \in Nat
         /\ \A o \in DOMAIN objects : objects'[o] = objects[o]
         /\ objects'[id] = Object(<<cycle, Len(workers) + 1>>)
<1> DEFINE new == Object(<<cycle, Len(workers) + 1>>)
<1>1. pc = "construct" /\ objects' = Append(objects, new)
  BY DEF Construct, At
<1>2. cycle \in 1 .. MaxCycles /\ Len(workers) + 1 \in 1 .. NumWorkers
  BY <1>1, WorkloadAssumption
     DEF TypeInv, CountsInv, ListsInv, ListInv, TryBlock
<1>3. new \in Worker_
  BY <1>2 DEF Object, Worker_, Places
<1> HIDE DEF new
<1>4. objects \in Seq(Worker_) /\ DOMAIN objects = 1 .. Len(objects)
      /\ Len(objects) \in Nat
  BY DEF TypeInv, ObjectsInv
<1>5. /\ objects' \in Seq(Worker_) /\ Len(objects') = Len(objects) + 1
      /\ DOMAIN objects' = 1 .. Len(objects) + 1
      /\ \A o \in DOMAIN objects : objects'[o] = objects[o]
      /\ objects'[Len(objects) + 1] = new
  BY <1>1, <1>3, <1>4
<1>6. QED
  BY <1>4, <1>5 DEF ObjectsInv, new

LEMMA LaunchMoves ==
  ASSUME TypeInv, Launch
  PROVE  LET id == workers[started + 1] IN
         /\ started + 1 \in DOMAIN workers /\ id \in DOMAIN objects
         /\ ObjectsInv' /\ DOMAIN objects' = DOMAIN objects
         /\ \A o \in DOMAIN objects \ {id} : objects'[o] = objects[o]
         /\ objects'[id].name = objects[id].name
         /\ objects'[id].thread = "native" /\ objects'[id].ran
<1> DEFINE id   == workers[started + 1]
           moved == [objects[id] EXCEPT !.thread = "native"]
           new   == [moved EXCEPT !.ran = TRUE]
           half  == [objects EXCEPT ![id] = moved]
<1>1. pc = "launch"
  BY DEF Launch, At
<1>2. started + 1 \in DOMAIN workers /\ id \in DOMAIN objects
  <2>1. workers \in Seq(Nat) /\ Len(workers) = NumWorkers
    BY <1>1 DEF TypeInv, ListsInv, ListInv
  <2>2. started \in 0 .. NumWorkers /\ started < NumWorkers
    BY <1>1 DEF TypeInv, LoopsInv
  <2>3. started + 1 \in DOMAIN workers
    BY <2>1, <2>2, WorkloadAssumption
  <2>4. QED
    BY <2>3 DEF TypeInv, ListsInv, ListInv
<1>3. objects[id] \in Worker_
  BY <1>2 DEF TypeInv, ObjectsInv
<1>4. /\ new \in Worker_ /\ new.name = objects[id].name
      /\ new.thread = "native" /\ new.ran
  BY <1>3 DEF Worker_, Places, Threads
<1>5. objects' = [objects EXCEPT ![id].thread = "native", ![id].ran = TRUE]
  BY DEF Launch
<1>6. objects' = [half EXCEPT ![id] = [half[id] EXCEPT !.ran = TRUE]]
  BY <1>5
<1>7. half[id] = moved
  BY <1>2
<1>8. objects' = [half EXCEPT ![id] = new]
  BY <1>6, <1>7
<1>9. objects' = [objects EXCEPT ![id] = new]
  <2> HIDE DEF new, moved, id
  <2>1. QED
    BY <1>8
<1> HIDE DEF new, id
<1>10. QED
  BY <1>2, <1>4, <1>9 DEF TypeInv, ObjectsInv, id

\* join() in a failed start and in wait(), and the destructor's.
Joins(place) ==
  /\ done + 1 \in DOMAIN workers /\ done' = done + 1
  /\ ~Running(Next1) /\ Becomes(Next1, place)
  /\ UNCHANGED <<pc, workers, started, live, cycle, left>>

LEMMA JoinsMoves ==
  ASSUME TypeInv, NEW place \in {"none", "gone"}, Joins(place)
  PROVE  /\ Next1 \in DOMAIN objects /\ ObjectsInv' /\ Moves(Next1)
         /\ objects'[Next1].thread = place
         /\ objects'[Next1].made = objects[Next1].made
         /\ ~Running(Next1)
<1>1. Next1 \in DOMAIN objects
  BY DEF Joins, Next1, TypeInv, ListsInv, ListInv
<1>2. QED
  BY <1>1, BecomesMoves DEF Joins, TypeInv, Places

LEMMA UnwindKinds ==
  ASSUME TypeInv, Unwind
  PROVE  \/ pc = "unwind" /\ Joins("none")
         \/ /\ pc = "unwind" /\ done >= ToJoin /\ pc' = "raised" /\ left' = 0
            /\ UNCHANGED <<objects, done, workers, started, live, cycle>>
BY DEF Unwind, At, Goto, Joins, ToJoin, TypeInv, LoopsInv, ListsInv, ListInv

LEMMA JoinKinds ==
  ASSUME TypeInv, Join
  PROVE  \/ pc = "join" /\ Joins("none")
         \/ /\ pc = "join" /\ done = Len(workers) /\ pc' = "capture" /\ done' = 0
            /\ UNCHANGED <<objects, workers, started, live, cycle, left>>
BY DEF Join, At, Goto, Joins, Waited, TypeInv, LoopsInv, ListsInv, ListInv

LEMMA DestroyKinds ==
  ASSUME TypeInv, Destroy
  PROVE  \/ pc = "destroy" /\ Joins("gone")
         \/ /\ pc = "destroy" /\ done = Len(workers)
            /\ pc' = (IF leaving THEN "end" ELSE "idle") /\ workers' = << >>
            /\ UNCHANGED <<objects, done, started, live, cycle, left>>
BY DEF Destroy, At, Goto, Joins, TypeInv, LoopsInv, ListsInv, ListInv

\* The steps that leave the objects alone.
Elsewhere ==
  \/ AppendStarted \/ Setup \/ StepFails \/ Publish \/ EnterWait \/ Capture
  \/ WriteCsv \/ Loop \/ CallStart \/ CallWait \/ CallRun \/ Interrupt
  \/ Handle \/ Leave \/ StopServer \/ StartServer \/ ResumeTheWorld
  \/ UNCHANGED vars
  \/ \E id \in DOMAIN objects : StopTheWorld(id)

LEMMA ElsewhereKeeps == Elsewhere => UNCHANGED objects
BY DEF Elsewhere, AppendStarted, Setup, StepFails, FailStart, Publish,
   EnterWait, Capture, WriteCsv, Loop, CallStart, CallWait, CallRun,
   Interrupt, Handle, Leave, StopServer, StartServer, ResumeTheWorld, vars,
   StopTheWorld

LEMMA StepKinds ==
  ASSUME [Next]_vars
  PROVE  \/ Construct \/ Launch \/ Unwind \/ Join \/ Destroy \/ Elsewhere
         \/ \E id \in DOMAIN objects : AnyWorkerStep(id)
BY DEF Next, InCall, Worker, Elsewhere, AnyWorkerStep

\* Objects are only added, and keep their names.
LEMMA ObjectsStep ==
  ASSUME TypeInv, [Next]_vars
  PROVE  /\ ObjectsInv' /\ DOMAIN objects \subseteq DOMAIN objects'
         /\ \A o \in DOMAIN objects : objects'[o].name = objects[o].name
<1>1. CASE Construct
  BY <1>1, ConstructMakes
<1>2. CASE Launch
  BY <1>2, LaunchMoves
<1>3. CASE Unwind \/ Join \/ Destroy
  <2>1. CASE Joins("none") \/ Joins("gone")
    BY <2>1, JoinsMoves DEF Moves
  <2>2. CASE UNCHANGED objects
    BY <2>2 DEF TypeInv, ObjectsInv
  <2>3. QED
    BY <1>3, <2>1, <2>2, UnwindKinds, JoinKinds, DestroyKinds
<1>4. CASE Elsewhere
  BY <1>4, ElsewhereKeeps DEF TypeInv, ObjectsInv
<1>5. ASSUME NEW id \in DOMAIN objects, AnyWorkerStep(id)
      PROVE  /\ ObjectsInv' /\ DOMAIN objects \subseteq DOMAIN objects'
             /\ \A o \in DOMAIN objects : objects'[o].name = objects[o].name
  BY <1>5, WorkerMoves DEF TypeInv, Moves
<1>6. QED
  BY <1>1, <1>2, <1>3, <1>4, <1>5, StepKinds
-----------------------------------------------------------------------------
(* The types and the control of the main thread. *)

LEMMA EmptyList == \A ids : ListInv(<< >>, ids)
BY WorkloadAssumption DEF ListInv

LEMMA GrownIds ==
  ASSUME NEW ids, NEW more, ids \subseteq more, NEW list, ListInv(list, ids)
  PROVE  ListInv(list, more)
BY DEF ListInv

LEMMA AppendedList ==
  ASSUME NEW ids, NEW id \in Nat, id \notin ids, NEW list, ListInv(list, ids),
         Len(list) < NumWorkers
  PROVE  ListInv(Append(list, id), ids \cup {id})
<1>1. list \in Seq(Nat) /\ Len(list) \in Nat /\ DOMAIN list = 1 .. Len(list)
  BY DEF ListInv
<1>2. /\ Append(list, id) \in Seq(Nat) /\ Len(Append(list, id)) = Len(list) + 1
      /\ DOMAIN Append(list, id) = 1 .. Len(list) + 1
      /\ \A k \in DOMAIN list : Append(list, id)[k] = list[k]
      /\ Append(list, id)[Len(list) + 1] = id
  BY <1>1
<1>3. QED
  BY <1>1, <1>2, WorkloadAssumption DEF ListInv

LEMMA CountsStep ==
  ASSUME TypeInv, [Next]_vars
  PROVE  CountsInv'
<1> USE DEF TypeInv, CountsInv, ListsInv, Calls, TryBlock, Goto, At, local
<1>0. DOMAIN objects \subseteq DOMAIN objects'
  BY ObjectsStep
<1>1. CASE Construct
  BY <1>0, <1>1, WorkloadAssumption DEF Construct
<1>2. CASE Setup
  BY <1>0, <1>2, WorkloadAssumption DEF Setup
<1>3. CASE Launch
  BY <1>0, <1>3, WorkloadAssumption DEF Launch
<1>4. CASE AppendStarted
  BY <1>0, <1>4, WorkloadAssumption DEF AppendStarted
<1>5. CASE StepFails
  BY <1>0, <1>5, WorkloadAssumption DEF StepFails, FailStart
<1>6. CASE Publish
  BY <1>0, <1>6, WorkloadAssumption DEF Publish
<1>7. CASE Unwind
  BY <1>0, <1>7, WorkloadAssumption DEF Unwind
<1>8. CASE EnterWait
  BY <1>0, <1>8, WorkloadAssumption DEF EnterWait
<1>9. CASE Join
  BY <1>0, <1>9, WorkloadAssumption DEF Join
<1>10. CASE Capture
  BY <1>0, <1>10, WorkloadAssumption DEF Capture
<1>11. CASE WriteCsv
  BY <1>0, <1>11, WorkloadAssumption DEF WriteCsv
<1>12. CASE Loop
  BY <1>0, <1>12, WorkloadAssumption DEF Loop, EnterStart, NextCycle
<1>13. CASE CallStart
  BY <1>0, <1>13, WorkloadAssumption DEF CallStart, EnterStart, NextCycle
<1>14. CASE CallWait
  BY <1>0, <1>14, WorkloadAssumption DEF CallWait
<1>15. CASE CallRun
  BY <1>0, <1>15, WorkloadAssumption DEF CallRun
<1>16. CASE Interrupt
  BY <1>0, <1>16, WorkloadAssumption DEF Interrupt, FailStart
<1>17. CASE Handle \/ Leave \/ Destroy
  <2>1. CASE Handle
    BY <1>0, <2>1 DEF Handle
  <2>2. CASE Leave
    <3>1. /\ pc' = "destroy" /\ leaving' = TRUE
          /\ UNCHANGED <<cycle, left, collector>>
      BY <2>2 DEF Leave
    <3>2. left = 0
      BY <2>2 DEF Leave
    <3>3. QED
      BY <1>0, <3>1, <3>2
  <2>3. CASE Destroy
    BY <1>0, <2>3 DEF Destroy
  <2>4. QED
    BY <1>17, <2>1, <2>2, <2>3
<1>18. CASE StopServer \/ StartServer
  BY <1>0, <1>18, WorkloadAssumption DEF StopServer, StartServer
<1>19. ASSUME NEW id \in DOMAIN objects, AnyWorkerStep(id)
       PROVE  CountsInv'
  BY <1>0, <1>19, WorkerMoves, WorkloadAssumption
     DEF workerFrame, local, Alive
<1>20. ASSUME NEW id \in DOMAIN objects, StopTheWorld(id)
       PROVE  CountsInv'
  BY <1>0, <1>20 DEF StopTheWorld, workerFrame, local
<1>21. CASE ResumeTheWorld
  BY <1>0, <1>21 DEF ResumeTheWorld, workerFrame, local
<1>22. CASE UNCHANGED vars
  BY <1>22 DEF vars, local
<1>23. QED
  BY <1>1, <1>2, <1>3, <1>4, <1>5, <1>6, <1>7, <1>8, <1>9, <1>10, <1>11, <1>12,
     <1>13, <1>14, <1>15, <1>16, <1>17, <1>18, <1>19, <1>20, <1>21, <1>22
     DEF Next, InCall, Worker, AnyWorkerStep

LEMMA ListsStep ==
  ASSUME TypeInv, [Next]_vars
  PROVE  ListsInv'
<1> USE DEF CountsInv, ListsInv, Calls, TryBlock, Goto, At, local
<1>0. /\ CountsInv /\ ListsInv /\ NumWorkers \in Nat \ {0}
      /\ ListInv(live, DOMAIN objects') /\ ListInv(workers, DOMAIN objects')
      /\ ListInv(<< >>, DOMAIN objects')
      /\ Len(<< >>) = 0
  BY ObjectsStep, GrownIds, EmptyList, WorkloadAssumption DEF TypeInv
<1>1. CASE Construct
  <2>1. pc = "construct" /\ Len(workers) < NumWorkers
    BY <1>0, <1>1 DEF Construct
  <2>2. /\ DOMAIN objects' = DOMAIN objects \cup {NextWorker}
        /\ NextWorker \notin DOMAIN objects /\ NextWorker \in Nat
    BY <1>1, ConstructMakes DEF NextWorker
  <2>3. workers' = Append(workers, NextWorker)
    BY <1>1 DEF Construct
  <2>4. ListInv(workers', DOMAIN objects')
    BY <1>0, <2>1, <2>2, <2>3, AppendedList DEF TypeInv
  <2>5. Len(workers') \in Nat /\ Len(workers') <= NumWorkers
    BY <2>4 DEF ListInv
  <2>6. /\ pc' = (IF Len(workers') = NumWorkers THEN "setup" ELSE "construct")
        /\ live' = live /\ live = << >>
    BY <1>0, <1>1 DEF Construct
  <2>7. QED
    BY <1>0, <2>4, <2>5, <2>6
<1>2. CASE Setup
  BY <1>0, <1>2 DEF Setup
<1>3. CASE Launch
  BY <1>0, <1>3 DEF Launch
<1>4. CASE AppendStarted
  BY <1>0, <1>4 DEF AppendStarted
<1>5. CASE StepFails
  BY <1>0, <1>5 DEF StepFails, FailStart
<1>6. CASE Publish
  BY <1>0, <1>6 DEF Publish
<1>7. CASE Unwind
  BY <1>0, <1>7 DEF Unwind
<1>8. CASE EnterWait
  BY <1>0, <1>8 DEF EnterWait
<1>9. CASE Join
  BY <1>0, <1>9 DEF Join
<1>10. CASE Capture
  BY <1>0, <1>10 DEF Capture
<1>11. CASE WriteCsv
  BY <1>0, <1>11 DEF WriteCsv
<1>12. CASE Loop
  BY <1>0, <1>12 DEF Loop, EnterStart
<1>13. CASE CallStart
  BY <1>0, <1>13 DEF CallStart, EnterStart
<1>14. CASE CallWait
  BY <1>0, <1>14 DEF CallWait
<1>15. CASE CallRun
  BY <1>0, <1>15 DEF CallRun
<1>16. CASE Interrupt
  BY <1>0, <1>16 DEF Interrupt, FailStart
<1>17. CASE Handle
  BY <1>0, <1>17 DEF Handle
<1>18. CASE Leave
  <2>1. workers' = workers \o live /\ live' = << >> /\ pc' = "destroy"
    BY <1>18 DEF Leave
  <2>2. workers \in Seq(Nat) /\ live \in Seq(Nat)
    BY <1>0 DEF ListInv
  <2>3. workers' = workers \/ workers' = live
    <3>1. CASE live = << >>
      BY <2>1, <2>2, <3>1, ConcatEmptySeq
    <3>2. CASE workers = << >>
      BY <2>1, <2>2, <3>2, ConcatEmptySeq
    <3>3. QED
      BY <1>0, <3>1, <3>2
  <2>4. QED
    BY <1>0, <2>1, <2>3
<1>19. CASE Destroy
  BY <1>0, <1>19 DEF Destroy
<1>20. CASE StopServer
  BY <1>0, <1>20 DEF StopServer
<1>21. CASE StartServer
  BY <1>0, <1>21 DEF StartServer
<1>22. CASE ResumeTheWorld
  BY <1>0, <1>22 DEF ResumeTheWorld, workerFrame
<1>23. ASSUME NEW id \in DOMAIN objects, AnyWorkerStep(id)
       PROVE  ListsInv'
  BY <1>0, <1>23, WorkerMoves DEF TypeInv, workerFrame, Alive
<1>24. ASSUME NEW id \in DOMAIN objects, StopTheWorld(id)
       PROVE  ListsInv'
  BY <1>0, <1>24 DEF StopTheWorld, workerFrame
<1>25. CASE UNCHANGED vars
  BY <1>0, <1>25 DEF vars
<1>26. QED
  <2> HIDE DEF ListsInv
  <2> QED
    BY <1>1, <1>2, <1>3, <1>4, <1>5, <1>6, <1>7, <1>8, <1>9, <1>10, <1>11,
       <1>12, <1>13, <1>14, <1>15, <1>16, <1>17, <1>18, <1>19, <1>20, <1>21,
       <1>22, <1>23, <1>24, <1>25
       DEF Next, InCall, Worker, AnyWorkerStep

LEMMA LoopsStep ==
  ASSUME TypeInv, [Next]_vars
  PROVE  LoopsInv'
<1>0. /\ CountsInv /\ ListsInv /\ LoopsInv /\ NumWorkers \in Nat \ {0}
      /\ Len(live) \in 0 .. NumWorkers /\ Len(workers) \in 0 .. NumWorkers
      /\ Len(<< >>) = 0
  BY WorkloadAssumption DEF TypeInv, ListInv, ListsInv
<1> USE DEF CountsInv, ListsInv, LoopsInv, Calls, TryBlock, Goto, At, local
<1>1. CASE Construct
  <2>1. pc' \in {"construct", "setup"} /\ started' = 0 /\ done' = done
    BY <1>0, <1>1 DEF Construct
  <2>2. QED
    BY <1>0, <2>1
<1>2. CASE Setup
  BY <1>0, <1>2 DEF Setup
<1>3. CASE Launch
  BY <1>0, <1>3 DEF Launch
<1>4. CASE AppendStarted
  BY <1>0, <1>4 DEF AppendStarted
<1>5. CASE StepFails
  BY <1>0, <1>5 DEF StepFails, FailStart
<1>6. CASE Publish
  BY <1>0, <1>6 DEF Publish
<1>7. CASE Unwind
  BY <1>0, <1>7 DEF Unwind, ToJoin
<1>8. CASE EnterWait
  BY <1>0, <1>8 DEF EnterWait
<1>9. CASE Join
  BY <1>0, <1>9 DEF Join, Waited
<1>10. CASE Capture
  BY <1>0, <1>10 DEF Capture
<1>11. CASE WriteCsv
  BY <1>0, <1>11 DEF WriteCsv
<1>12. CASE Loop
  BY <1>0, <1>12 DEF Loop, EnterStart
<1>13. CASE CallStart
  BY <1>0, <1>13 DEF CallStart, EnterStart
<1>14. CASE CallWait
  BY <1>0, <1>14 DEF CallWait
<1>15. CASE CallRun
  BY <1>0, <1>15 DEF CallRun
<1>16. CASE Interrupt
  BY <1>0, <1>16 DEF Interrupt, FailStart
<1>17. CASE Handle
  BY <1>0, <1>17 DEF Handle
<1>18. CASE Leave
  <2>1. done' = 0 /\ started' = started /\ pc' = "destroy"
    BY <1>18 DEF Leave
  <2>2. workers' \in Seq(Nat)
    BY <1>18, ListsStep DEF ListInv, Next, InCall
  <2>3. QED
    BY <1>0, <2>1, <2>2
<1>19. CASE Destroy
  BY <1>0, <1>19 DEF Destroy
<1>20. CASE StopServer
  BY <1>0, <1>20 DEF StopServer
<1>21. CASE StartServer
  BY <1>0, <1>21 DEF StartServer
<1>22. CASE ResumeTheWorld
  BY <1>0, <1>22 DEF ResumeTheWorld, workerFrame
<1>23. ASSUME NEW id \in DOMAIN objects, AnyWorkerStep(id)
       PROVE  LoopsInv'
  BY <1>0, <1>23, WorkerMoves DEF TypeInv, workerFrame, Alive
<1>24. ASSUME NEW id \in DOMAIN objects, StopTheWorld(id)
       PROVE  LoopsInv'
  BY <1>0, <1>24 DEF StopTheWorld, workerFrame
<1>25. CASE UNCHANGED vars
  BY <1>0, <1>25 DEF vars
<1>26. QED
  BY <1>1, <1>2, <1>3, <1>4, <1>5, <1>6, <1>7, <1>8, <1>9, <1>10, <1>11,
     <1>12, <1>13, <1>14, <1>15, <1>16, <1>17, <1>18, <1>19, <1>20, <1>21,
     <1>22, <1>23, <1>24, <1>25
     DEF Next, InCall, Worker, AnyWorkerStep

LEMMA TypeStep ==
  ASSUME TypeInv, [Next]_vars
  PROVE  TypeInv'
BY ObjectsStep, CountsStep, ListsStep, LoopsStep DEF TypeInv

-----------------------------------------------------------------------------
(* What becomes of the lists of workers. *)

Starting == TryBlock \cup {"publish"}

KeepsLists ==
  /\ UNCHANGED <<cycle, live, workers>>
  /\ pc' \in Starting => pc \in Starting
  /\ pc' = "construct" => pc = "construct"

OpensCycle ==
  /\ pc \notin Starting /\ pc' = "construct"
  /\ cycle' = cycle + 1 /\ live = << >> /\ live' = << >>
  /\ workers = << >> /\ workers' = << >>

PublishesCycle ==
  /\ pc = "publish" /\ pc' \in {"wait", "idle"}
  /\ cycle' = cycle /\ live' = workers /\ workers' = << >>

TakesLive ==
  /\ pc = "wait" /\ pc' \in {"raised", "join"}
  /\ cycle' = cycle /\ live' = << >> /\ workers' = live

DropsWorkers ==
  /\ pc \in {"csv", "destroy"} /\ pc' \in {"idle", "loop", "end"}
  /\ UNCHANGED <<cycle, live>> /\ workers' = << >>
  /\ pc = "destroy" => done = Len(workers)

Leaves ==
  /\ pc \in {"idle", "raised"} /\ pc' = "destroy" /\ cycle' = cycle
  /\ live' = << >>
  /\ \/ live = << >> /\ workers' = workers
     \/ workers = << >> /\ workers' = live

LEMMA LeaveKinds ==
  ASSUME TypeInv, Leave
  PROVE  Leaves
<1>1. /\ pc \in {"idle", "raised"} /\ pc' = "destroy" /\ cycle' = cycle
      /\ workers' = workers \o live /\ live' = << >>
  BY DEF Leave, At, Goto
<1>2. workers \in Seq(Nat) /\ live \in Seq(Nat)
  BY DEF TypeInv, ListsInv, ListInv
<1>3. CASE live = << >>
  BY <1>1, <1>2, <1>3, ConcatEmptySeq DEF Leaves
<1>4. CASE workers = << >>
  BY <1>1, <1>2, <1>4, ConcatEmptySeq DEF Leaves
<1>5. QED
  BY <1>3, <1>4 DEF TypeInv, ListsInv

LEMMA ListKinds ==
  ASSUME TypeInv, [Next]_vars, ~Construct
  PROVE  KeepsLists \/ OpensCycle \/ PublishesCycle \/ TakesLive
         \/ DropsWorkers \/ Leaves
<1> USE DEF At, Goto, local, TryBlock, Calls, Starting, KeepsLists
<1>1. CASE Setup
  BY <1>1 DEF Setup
<1>2. CASE Launch
  BY <1>2 DEF Launch
<1>3. CASE AppendStarted
  BY <1>3 DEF AppendStarted
<1>4. CASE StepFails
  BY <1>4 DEF StepFails, FailStart
<1>5. CASE Publish
  BY <1>5 DEF Publish, PublishesCycle
<1>6. CASE Unwind
  BY <1>6 DEF Unwind
<1>7. CASE EnterWait
  BY <1>7 DEF EnterWait, TakesLive
<1>8. CASE Join
  BY <1>8 DEF Join
<1>9. CASE Capture
  BY <1>9 DEF Capture
<1>10. CASE WriteCsv
  BY <1>10 DEF WriteCsv, DropsWorkers
<1>11. CASE Loop
  BY <1>11 DEF Loop, EnterStart, NextCycle, OpensCycle, TypeInv,
     ListsInv
<1>12. CASE CallStart
  BY <1>12 DEF CallStart, EnterStart, NextCycle, OpensCycle,
     TypeInv, ListsInv
<1>13. CASE CallWait
  BY <1>13 DEF CallWait
<1>14. CASE CallRun
  BY <1>14 DEF CallRun
<1>15. CASE Interrupt
  BY <1>15 DEF Interrupt, FailStart
<1>16. CASE Handle
  BY <1>16 DEF Handle
<1>17. CASE Leave
  BY <1>17, LeaveKinds
<1>18. CASE Destroy
  BY <1>18, DestroyKinds DEF Joins, DropsWorkers
<1>19. CASE StopServer
  BY <1>19 DEF StopServer
<1>20. CASE StartServer
  BY <1>20 DEF StartServer
<1>21. CASE ResumeTheWorld
  BY <1>21 DEF ResumeTheWorld, workerFrame
<1>22. ASSUME NEW id \in DOMAIN objects, AnyWorkerStep(id)
       PROVE  KeepsLists
  BY <1>22, WorkerMoves DEF TypeInv, workerFrame
<1>23. ASSUME NEW id \in DOMAIN objects, StopTheWorld(id)
       PROVE  KeepsLists
  BY <1>23 DEF StopTheWorld, workerFrame
<1>24. CASE UNCHANGED vars
  BY <1>24 DEF vars
<1>25. QED
  BY <1>1, <1>2, <1>3, <1>4, <1>5, <1>6, <1>7, <1>8, <1>9, <1>10, <1>11,
     <1>12, <1>13, <1>14, <1>15, <1>16, <1>17, <1>18, <1>19, <1>20, <1>21,
     <1>22, <1>23, <1>24
     DEF Next, InCall, Worker, AnyWorkerStep

-----------------------------------------------------------------------------
(* Names. *)

CycleOf(id) == objects[id].name[1]

Listed == Elements(live) \cup Elements(workers)

\* The listed workers are of the last cycle; while it starts and while it is
\* live it has no others.
NamesInv ==
  /\ \A id \in DOMAIN objects : CycleOf(id) <= cycle
  /\ \A id \in Listed : CycleOf(id) = cycle
  /\ pc = "construct" =>
       \A id \in DOMAIN objects :
         CycleOf(id) = cycle => objects[id].name[2] <= Len(workers)
  /\ pc \in Starting =>
       \A id \in DOMAIN objects :
         CycleOf(id) = cycle => id \in Elements(workers)
  /\ live # << >> =>
       \A id \in DOMAIN objects :
         CycleOf(id) = cycle => id \in Elements(live)
  /\ NamesUnique

LEMMA NamesKept ==
  ASSUME TypeInv, [Next]_vars, ~Construct
  PROVE  /\ DOMAIN objects' = DOMAIN objects
         /\ \A o \in DOMAIN objects : objects'[o].name = objects[o].name
<1>1. CASE Launch
  BY <1>1, LaunchMoves
<1>2. CASE Unwind \/ Join \/ Destroy
  <2>1. CASE Joins("none") \/ Joins("gone")
    BY <2>1, JoinsMoves DEF Moves
  <2>2. QED
    BY <1>2, <2>1, UnwindKinds, JoinKinds, DestroyKinds
<1>3. CASE Elsewhere
  BY <1>3, ElsewhereKeeps
<1>4. ASSUME NEW id \in DOMAIN objects, AnyWorkerStep(id)
      PROVE  /\ DOMAIN objects' = DOMAIN objects
             /\ \A o \in DOMAIN objects : objects'[o].name = objects[o].name
  BY <1>4, WorkerMoves DEF TypeInv, Moves
<1>5. QED
  BY <1>1, <1>2, <1>3, <1>4, StepKinds

LEMMA NameParts ==
  ASSUME ObjectsInv, NEW o \in DOMAIN objects
  PROVE  objects[o].name[1] \in Nat /\ objects[o].name[2] \in Nat
<1>1. objects[o] \in Worker_
  BY DEF ObjectsInv
<1>2. objects[o].name \in (1 .. MaxCycles) \X (1 .. NumWorkers)
  BY <1>1 DEF Worker_
<1>3. /\ objects[o].name[1] \in 1 .. MaxCycles
      /\ objects[o].name[2] \in 1 .. NumWorkers
  BY <1>2
<1>4. QED
  BY <1>3, WorkloadAssumption

LEMMA NamesStep ==
  ASSUME TypeInv, NamesInv, [Next]_vars
  PROVE  NamesInv'
<1>1. CASE Construct
  <2> DEFINE id == Len(objects) + 1
  <2>1. /\ DOMAIN objects' = DOMAIN objects \cup {id}
        /\ id \notin DOMAIN objects /\ id \in Nat
        /\ \A o \in DOMAIN objects : objects'[o] = objects[o]
        /\ objects'[id].name = <<cycle, Len(workers) + 1>>
    BY <1>1, ConstructMakes DEF Object
  <2>2. /\ pc = "construct" /\ live = << >> /\ live' = live /\ cycle' = cycle
        /\ workers' = Append(workers, id) /\ cycle \in Nat
        /\ workers \in Seq(Nat) /\ Len(workers) \in Nat
    BY <1>1 DEF Construct, At, NextWorker, TypeInv, ListsInv, ListInv,
                TryBlock, CountsInv
  <2>3. /\ Len(workers') = Len(workers) + 1
        /\ Elements(workers') = Elements(workers) \cup {id}
    <3>1. /\ DOMAIN workers = 1 .. Len(workers)
          /\ DOMAIN workers' = 1 .. Len(workers) + 1
          /\ \A k \in DOMAIN workers : workers'[k] = workers[k]
          /\ workers'[Len(workers) + 1] = id
      BY <2>1, <2>2
    <3>2. Len(workers') = Len(workers) + 1
      BY <2>1, <2>2
    <3>3. QED
      BY <2>2, <3>1, <3>2 DEF Elements
  <2>4. Elements(live) = {} /\ Elements(live') = {}
    BY <2>2 DEF Elements
  <2>5. \A o \in Elements(workers) : o \in DOMAIN objects
    BY DEF Elements, TypeInv, ListsInv, ListInv
  <2>6. \A o \in DOMAIN objects :
          objects[o].name[1] <= cycle /\ objects[o].name[2] \in Nat
    BY NameParts DEF NamesInv, CycleOf, TypeInv
  <2> HIDE DEF id
  <2>7. objects'[id].name[1] = cycle /\ objects'[id].name[2] = Len(workers) + 1
    BY <2>1
  <2>8. \A o \in DOMAIN objects :
          objects[o].name[1] = cycle =>
            objects[o].name[2] <= Len(workers) /\ o \in Elements(workers)
    BY <2>2 DEF NamesInv, CycleOf, Starting, TryBlock
  <2>9. NamesUnique'
    BY <2>1, <2>2, <2>6, <2>7, <2>8 DEF NamesInv, NamesUnique
  <2>10. QED
    BY <2>1, <2>2, <2>3, <2>4, <2>5, <2>6, <2>7, <2>8, <2>9
       DEF NamesInv, CycleOf, Listed
<1>2. CASE ~Construct
  <2>1. /\ DOMAIN objects' = DOMAIN objects
        /\ \A o \in DOMAIN objects : objects'[o].name = objects[o].name
    BY <1>2, NamesKept
  <2>2. NamesUnique' /\ \A o \in DOMAIN objects : objects'[o].name[1] <= cycle
    BY <2>1 DEF NamesInv, NamesUnique, CycleOf
  <2>3. Elements(<< >>) = {} /\ cycle \in Nat
    BY DEF Elements, TypeInv, CountsInv
  <2>4. \A o \in Listed : o \in DOMAIN objects /\ o \in DOMAIN objects'
    BY <2>1 DEF Listed, Elements, TypeInv, ListsInv, ListInv
  <2>5. \A o \in DOMAIN objects : objects[o].name[1] \in Nat
    BY NameParts DEF TypeInv
  <2> USE DEF NamesInv, CycleOf, Listed
  <2>6. CASE KeepsLists
    BY <2>1, <2>2, <2>4, <2>6 DEF KeepsLists
  <2>7. CASE OpensCycle
    BY <2>1, <2>2, <2>3, <2>5, <2>7 DEF OpensCycle
  <2>8. CASE PublishesCycle
    BY <2>1, <2>2, <2>3, <2>4, <2>8 DEF PublishesCycle, Starting, TryBlock
  <2>9. CASE TakesLive
    BY <2>1, <2>2, <2>3, <2>4, <2>9 DEF TakesLive, Starting, TryBlock
  <2>10. CASE DropsWorkers
    BY <2>1, <2>2, <2>3, <2>4, <2>10 DEF DropsWorkers, Starting, TryBlock
  <2>11. CASE Leaves
    BY <2>1, <2>2, <2>3, <2>4, <2>11 DEF Leaves, Starting, TryBlock
  <2>12. QED
    BY <1>2, <2>6, <2>7, <2>8, <2>9, <2>10, <2>11, ListKinds
<1>3. QED
  BY <1>1, <1>2

-----------------------------------------------------------------------------
(* What becomes of the threads. *)

\* A step of another thread than the main one, or none.
Aside ==
  \/ ResumeTheWorld \/ UNCHANGED vars
  \/ \E id \in DOMAIN objects : AnyWorkerStep(id) \/ StopTheWorld(id)

MainStep ==
  \/ Construct \/ Setup \/ Launch \/ AppendStarted \/ StepFails \/ Publish
  \/ Unwind \/ EnterWait \/ Join \/ Capture \/ WriteCsv \/ Loop \/ CallStart
  \/ CallWait \/ CallRun \/ Interrupt \/ Handle \/ Leave \/ Destroy
  \/ StopServer \/ StartServer

LEMMA MainOrAside == [Next]_vars => MainStep \/ Aside
BY DEF Next, InCall, Worker, MainStep, Aside, AnyWorkerStep

LEMMA AsideKeeps ==
  ASSUME TypeInv, Aside
  PROVE  /\ UNCHANGED <<cycle, live, results, local, leaving, serverUp,
                        history, provoked>>
         /\ UNCHANGED <<workers, started, done, left, reports, csv, resetAt,
                        failed>>
         /\ pc' = pc \/ (pc' = "terminated" /\ UNCHANGED objects /\ ~serverUp)
         /\ pc' = "terminated" => UNCHANGED objects
<1>1. CASE ResumeTheWorld
  BY <1>1 DEF ResumeTheWorld, workerFrame, local, results, history
<1>2. CASE UNCHANGED vars
  BY <1>2 DEF vars, local, results, history
<1>3. ASSUME NEW id \in DOMAIN objects, AnyWorkerStep(id)
      PROVE  /\ UNCHANGED workerFrame
             /\ \/ pc' = pc /\ Alive
                \/ pc' = "terminated" /\ UNCHANGED objects /\ ~serverUp
  BY <1>3, WorkerMoves DEF TypeInv
<1>4. ASSUME NEW id \in DOMAIN objects, StopTheWorld(id)
      PROVE  UNCHANGED <<objects, pc, workerFrame>>
  BY <1>4 DEF StopTheWorld
<1>5. QED
  BY <1>1, <1>2, <1>3, <1>4 DEF Aside, workerFrame, local, results, history,
                                Alive

\* A process that has ended stays so.
LEMMA EndIsFinal ==
  ASSUME TypeInv, [Next]_vars, Alive'
  PROVE  Alive
<1>1. CASE MainStep
  BY <1>1 DEF MainStep, Alive, At, Construct, Setup, Launch, AppendStarted,
     StepFails, Publish, Unwind, EnterWait, Join, Capture, WriteCsv, Loop,
     CallStart, CallWait, CallRun, Interrupt, Handle, Leave, Destroy,
     StopServer, StartServer, TryBlock, Calls
<1>2. CASE Aside
  BY <1>2, AsideKeeps DEF Alive
<1>3. QED
  BY <1>1, <1>2, MainOrAside

\* The worker run_thread() starts.
Launched(o) == Launch /\ o = workers[started + 1]

\* A thread that does not run is left alone, or joined once more.
LEMMA RestingStep ==
  ASSUME TypeInv, [Next]_vars, NEW o \in DOMAIN objects, ~Running(o),
         ~Launched(o)
  PROVE  /\ o \in DOMAIN objects' /\ ~Running(o)'
         /\ objects'[o].made = objects[o].made
         /\ objects'[o].ran = objects[o].ran
         /\ \/ objects'[o].thread = objects[o].thread
            \/ Joins("none") /\ objects'[o].thread = "none"
            \/ /\ pc = "destroy" /\ Joins("gone")
               /\ objects'[o].thread = "gone"
<1>0. objects'[o] = objects[o] => ~Running(o)'
  BY DEF Running, Thread
<1>1. CASE Construct
  BY <1>0, <1>1, ConstructMakes
<1>2. CASE Launch
  BY <1>0, <1>2, LaunchMoves DEF Launched
<1>3. CASE Unwind \/ Join \/ Destroy
  <2>1. ASSUME NEW place \in {"none", "gone"}, Joins(place)
        PROVE  \/ objects'[o] = objects[o]
               \/ /\ objects'[o].thread = place
                  /\ objects'[o].made = objects[o].made
                  /\ objects'[o].ran = objects[o].ran
    BY <2>1, JoinsMoves DEF Moves
  <2>2. CASE Joins("none") \/ (pc = "destroy" /\ Joins("gone"))
    BY <1>0, <2>1, <2>2, JoinsMoves
       DEF Moves, Running, Thread, Threads, ToAttach, Attached
  <2>3. QED
    BY <1>0, <1>3, <2>2, UnwindKinds, JoinKinds, DestroyKinds
<1>4. CASE Elsewhere
  BY <1>0, <1>4, ElsewhereKeeps
<1>5. ASSUME NEW id \in DOMAIN objects, AnyWorkerStep(id)
      PROVE  o \in DOMAIN objects' /\ objects'[o] = objects[o]
  BY <1>5, WorkerMoves DEF TypeInv, Moves
<1>6. QED
  BY <1>0, <1>1, <1>2, <1>3, <1>4, <1>5, StepKinds

LEMMA NewAtRest ==
  ASSUME TypeInv, [Next]_vars, NEW o \in DOMAIN objects', o \notin DOMAIN objects
  PROVE  /\ Construct /\ ~Running(o)'
         /\ objects'[o] = Object(<<cycle, Len(workers) + 1>>)
<1>1. Construct
  BY NamesKept
<1>2. objects'[o] = Object(<<cycle, Len(workers) + 1>>)
  BY <1>1, ConstructMakes
<1>3. objects'[o].thread = "none"
  BY <1>2 DEF Object
<1>4. QED
  BY <1>1, <1>2, <1>3 DEF Running, Thread, Threads, ToAttach, Attached

LEMMA ProvokedStep ==
  ASSUME TypeInv, [Next]_vars
  PROVE  provoked \subseteq provoked'
<1>1. CASE Construct
  BY <1>1 DEF Construct
<1>2. CASE Setup
  BY <1>2 DEF Setup
<1>3. CASE Launch
  BY <1>3 DEF Launch
<1>4. CASE AppendStarted
  BY <1>4 DEF AppendStarted
<1>5. CASE StepFails
  BY <1>5 DEF StepFails, FailStart
<1>6. CASE Publish
  BY <1>6 DEF Publish
<1>7. CASE Unwind
  BY <1>7 DEF Unwind
<1>8. CASE EnterWait
  BY <1>8 DEF EnterWait
<1>9. CASE Join
  BY <1>9 DEF Join
<1>10. CASE Capture
  BY <1>10 DEF Capture
<1>11. CASE WriteCsv
  BY <1>11 DEF WriteCsv
<1>12. CASE Loop
  BY <1>12 DEF Loop, EnterStart
<1>13. CASE CallStart
  BY <1>13 DEF CallStart, EnterStart
<1>14. CASE CallWait
  BY <1>14 DEF CallWait
<1>15. CASE CallRun
  BY <1>15 DEF CallRun
<1>16. CASE Interrupt
  BY <1>16 DEF Interrupt, FailStart
<1>17. CASE Handle
  BY <1>17 DEF Handle
<1>18. CASE Leave
  BY <1>18 DEF Leave
<1>19. CASE Destroy
  BY <1>19 DEF Destroy
<1>20. CASE StopServer
  BY <1>20 DEF StopServer
<1>21. CASE StartServer
  BY <1>21 DEF StartServer
<1>22. CASE Aside
  BY <1>22, AsideKeeps
<1>23. QED
  BY <1>1, <1>2, <1>3, <1>4, <1>5, <1>6, <1>7, <1>8, <1>9, <1>10, <1>11,
     <1>12, <1>13, <1>14, <1>15, <1>16, <1>17, <1>18, <1>19, <1>20, <1>21,
     <1>22, MainOrAside DEF MainStep

LEMMA InterruptIsNoted == Interrupt => "interrupt" \in provoked'
BY DEF Interrupt

LEMMA LeavingIsNoted == Leave /\ live # << >> => "abandon" \in provoked'
BY DEF Leave

-----------------------------------------------------------------------------
(* Threads run for a listed worker only. *)

ListedInv == Alive => \A id \in DOMAIN objects : Running(id) => id \in Listed

\* The loops that join have joined what they have gone through, and wait()
\* has joined everything when it reads the statistics.
JoinedInv ==
  /\ pc \in {"unwind", "destroy"} => \A k \in 1 .. done : ~Running(workers[k])
  /\ pc = "join" => \A k \in 1 .. done : Thread(workers[k]) = "none"
  /\ pc \in {"capture", "csv"} =>
       \A k \in DOMAIN workers : Thread(workers[k]) = "none"

\* How many workers start() has launched.
Launches == started + (IF pc = "append" THEN 1 ELSE 0)

\* Of the workers in start(), those it has launched run, and after an
\* exception none does.
StartInv ==
  /\ pc \in TryBlock \cup {"unwind"} /\ ~Excepted({"interrupt"}) =>
       \A k \in DOMAIN workers : k > Launches => ~Running(workers[k])
  /\ pc \in {"raised", "destroy"} /\ ~Excepted({"interrupt", "abandon"}) =>
       \A k \in DOMAIN workers : ~Running(workers[k])

ThreadsInv == ListedInv /\ JoinedInv /\ StartInv

LEMMA NoneRests == \A o : Thread(o) = "none" => ~Running(o)
BY DEF Running, Threads, ToAttach, Attached

LEMMA ListedStep ==
  ASSUME TypeInv, ThreadsInv, [Next]_vars
  PROVE  ListedInv'
<1> SUFFICES ASSUME Alive', NEW o \in DOMAIN objects', Running(o)'
             PROVE  o \in Listed'
  BY DEF ListedInv
<1>1. Alive
  BY EndIsFinal
<1>2. o \in DOMAIN objects
  BY NewAtRest
<1>3. Running(o) \/ Launched(o)
  BY <1>2, RestingStep
<1>4. CASE Launched(o)
  <2>1. started + 1 \in DOMAIN workers /\ workers' = workers
    BY <1>4, LaunchMoves DEF Launched, Launch, local
  <2>2. QED
    BY <1>4, <2>1 DEF Launched, Listed, Elements
<1>5. CASE Running(o)
  <2>1. o \in Elements(live) \/ o \in Elements(workers)
    BY <1>1, <1>2, <1>5 DEF ThreadsInv, ListedInv, Listed
  <2>2. CASE Construct
    <3>1. live' = live /\ workers' = Append(workers, NextWorker)
          /\ workers \in Seq(Nat) /\ NextWorker \in Nat
      BY <2>2 DEF Construct, NextWorker, TypeInv, ListsInv, ListInv, ObjectsInv
    <3>2. \A k \in DOMAIN workers :
            k \in DOMAIN workers' /\ workers'[k] = workers[k]
      BY <3>1
    <3>3. QED
      BY <2>1, <3>1, <3>2 DEF Listed, Elements
  <2>3. CASE KeepsLists \/ PublishesCycle \/ TakesLive \/ Leaves
    BY <2>1, <2>3 DEF KeepsLists, PublishesCycle, TakesLive, Leaves, Listed,
       Elements, TypeInv, ListsInv
  <2>4. CASE OpensCycle
    BY <2>1, <2>4 DEF OpensCycle, Elements, TypeInv
  <2>5. CASE DropsWorkers
    <3>1. ~(o \in Elements(workers))
      BY <1>5, <2>5, NoneRests
         DEF DropsWorkers, Elements, ThreadsInv, JoinedInv, TypeInv, ListsInv,
             ListInv
    <3>2. QED
      BY <2>1, <2>5, <3>1 DEF DropsWorkers, Listed
  <2>6. QED
    BY <2>2, <2>3, <2>4, <2>5, ListKinds
<1>6. QED
  BY <1>3, <1>4, <1>5

\* Whatever does not run in a list still does not after a step that launches
\* none of it.
LEMMA RestingList ==
  ASSUME TypeInv, [Next]_vars, ~Launch, NEW ks \in SUBSET DOMAIN workers,
         \A k \in ks : ~Running(workers[k])
  PROVE  \A k \in ks : objects'[workers[k]].thread \notin Threads
<1> SUFFICES ASSUME NEW k \in ks
             PROVE  objects'[workers[k]].thread \notin Threads
  OBVIOUS
<1>1. workers[k] \in DOMAIN objects
  BY DEF TypeInv, ListsInv, ListInv
<1>2. QED
  BY <1>1, RestingStep DEF Launched, Running, Thread

\* A loop goes on, starts, or is left.
LEMMA LoopKinds ==
  ASSUME TypeInv, [Next]_vars, pc' \in {"unwind", "join", "destroy"}
  PROVE  \/ pc = "join" /\ pc' = "join" /\ Joins("none")
         \/ pc = "unwind" /\ pc' = "unwind" /\ Joins("none")
         \/ pc = "destroy" /\ pc' = "destroy" /\ Joins("gone")
         \/ done' = 0
         \/ pc' = pc /\ UNCHANGED <<done, workers>> /\ Aside
<1> USE DEF At, Goto, local, Joins
<1>1. CASE Construct
  BY <1>1 DEF Construct
<1>2. CASE Setup
  BY <1>2 DEF Setup
<1>3. CASE Launch
  BY <1>3 DEF Launch
<1>4. CASE AppendStarted
  BY <1>4 DEF AppendStarted
<1>5. CASE StepFails
  BY <1>5 DEF StepFails, FailStart
<1>6. CASE Publish
  BY <1>6 DEF Publish
<1>7. CASE Unwind
  BY <1>7, UnwindKinds DEF Unwind
<1>8. CASE EnterWait
  BY <1>8 DEF EnterWait
<1>9. CASE Join
  BY <1>9, JoinKinds DEF Join
<1>10. CASE Capture
  BY <1>10 DEF Capture
<1>11. CASE WriteCsv
  BY <1>11 DEF WriteCsv
<1>12. CASE Loop
  BY <1>12 DEF Loop, EnterStart
<1>13. CASE CallStart
  BY <1>13 DEF CallStart, EnterStart
<1>14. CASE CallWait
  BY <1>14 DEF CallWait
<1>15. CASE CallRun
  BY <1>15 DEF CallRun
<1>16. CASE Interrupt
  BY <1>16 DEF Interrupt, FailStart
<1>17. CASE Handle
  BY <1>17 DEF Handle
<1>18. CASE Leave
  BY <1>18 DEF Leave
<1>19. CASE Destroy
  BY <1>19, DestroyKinds DEF Destroy
<1>20. CASE StopServer
  BY <1>20 DEF StopServer
<1>21. CASE StartServer
  BY <1>21 DEF StartServer
<1>22. CASE Aside
  BY <1>22, AsideKeeps
<1>23. QED
  BY <1>1, <1>2, <1>3, <1>4, <1>5, <1>6, <1>7, <1>8, <1>9, <1>10, <1>11,
     <1>12, <1>13, <1>14, <1>15, <1>16, <1>17, <1>18, <1>19, <1>20, <1>21,
     <1>22, MainOrAside DEF MainStep

LEMMA ReadingKinds ==
  ASSUME TypeInv, [Next]_vars, pc' \in {"capture", "csv"}
  PROVE  \/ /\ pc = "join" /\ done = Len(workers)
            /\ UNCHANGED <<objects, workers>>
         \/ pc \in {"capture", "csv"} /\ workers' = workers /\ ~Launch
<1> USE DEF At, Goto, local, TryBlock, Calls
<1>1. CASE Construct
  BY <1>1 DEF Construct
<1>2. CASE Setup
  BY <1>2 DEF Setup
<1>3. CASE Launch
  BY <1>3 DEF Launch
<1>4. CASE AppendStarted
  BY <1>4 DEF AppendStarted
<1>5. CASE StepFails
  BY <1>5 DEF StepFails, FailStart
<1>6. CASE Publish
  BY <1>6 DEF Publish
<1>7. CASE Unwind
  BY <1>7, UnwindKinds DEF Unwind, Joins
<1>8. CASE EnterWait
  BY <1>8 DEF EnterWait
<1>9. CASE Join
  BY <1>9, JoinKinds DEF Join, Joins
<1>10. CASE Capture
  <2>1. pc = "capture" /\ workers' = workers
    BY <1>10 DEF Capture
  <2>2. QED
    BY <2>1 DEF Launch
<1>11. CASE WriteCsv
  BY <1>11 DEF WriteCsv
<1>12. CASE Loop
  BY <1>12 DEF Loop, EnterStart
<1>13. CASE CallStart
  BY <1>13 DEF CallStart, EnterStart
<1>14. CASE CallWait
  BY <1>14 DEF CallWait
<1>15. CASE CallRun
  BY <1>15 DEF CallRun
<1>16. CASE Interrupt
  BY <1>16 DEF Interrupt, FailStart
<1>17. CASE Handle
  BY <1>17 DEF Handle
<1>18. CASE Leave
  BY <1>18 DEF Leave
<1>19. CASE Destroy
  BY <1>19, DestroyKinds DEF Destroy, Joins
<1>20. CASE StopServer
  BY <1>20 DEF StopServer
<1>21. CASE StartServer
  BY <1>21 DEF StartServer
<1>22. CASE Aside
  BY <1>22, AsideKeeps DEF Launch
<1>23. QED
  BY <1>1, <1>2, <1>3, <1>4, <1>5, <1>6, <1>7, <1>8, <1>9, <1>10, <1>11,
     <1>12, <1>13, <1>14, <1>15, <1>16, <1>17, <1>18, <1>19, <1>20, <1>21,
     <1>22, MainOrAside DEF MainStep

LEMMA JoinedStep ==
  ASSUME TypeInv, ThreadsInv, [Next]_vars
  PROVE  JoinedInv'
<1>0. /\ done \in Nat /\ workers \in Seq(Nat)
      /\ DOMAIN workers = 1 .. Len(workers) /\ Len(workers) \in Nat
      /\ \A k \in DOMAIN workers : workers[k] \in DOMAIN objects
  BY DEF TypeInv, LoopsInv, ListsInv, ListInv
<1> DEFINE Rests(o) == objects'[o].thread \notin Threads
           Joined(o) == objects'[o].thread = "none"
<1>1. ASSUME pc' \in {"unwind", "destroy"}, NEW k \in 1 .. done'
      PROVE  Rests(workers'[k])
  <2>1. CASE done' = 0
    BY <1>1, <2>1
  <2>2. ASSUME pc \in {"unwind", "destroy"},
               NEW place \in {"none", "gone"}, Joins(place)
        PROVE  Rests(workers'[k])
    <3>1. /\ workers' = workers /\ done' = done + 1 /\ done + 1 \in DOMAIN workers
          /\ \A j \in 1 .. done : j \in DOMAIN workers /\ ~Running(workers[j])
      BY <1>0, <2>2 DEF Joins, ThreadsInv, JoinedInv
    <3>2. objects'[workers[done + 1]].thread = place
      BY <2>2, JoinsMoves DEF Next1
    <3>3. ~Launch
      BY <2>2 DEF Launch, At
    <3>4. \A j \in 1 .. done : Rests(workers[j])
      BY <3>1, <3>3, RestingList
    <3>5. QED
      BY <1>0, <1>1, <3>1, <3>2, <3>4 DEF Threads, ToAttach, Attached
  <2>3. CASE pc' = pc /\ UNCHANGED <<done, workers>> /\ Aside
    <3>1. \A j \in 1 .. done : j \in DOMAIN workers /\ ~Running(workers[j])
      BY <1>0, <1>1, <2>3 DEF ThreadsInv, JoinedInv, TypeInv, LoopsInv
    <3>2. ~Launch
      BY <1>1, <2>3 DEF Launch, At
    <3>3. \A j \in 1 .. done : Rests(workers[j])
      BY <3>1, <3>2, RestingList
    <3>4. QED
      BY <1>1, <2>3, <3>3
  <2>4. QED
    BY <1>1, <2>1, <2>2, <2>3, LoopKinds
<1>2. ASSUME pc' = "join", NEW k \in 1 .. done'
      PROVE  Joined(workers'[k])
  <2>1. CASE done' = 0
    BY <1>2, <2>1
  <2>2. CASE pc = "join" /\ Joins("none")
    <3>1. /\ workers' = workers /\ done' = done + 1 /\ done + 1 \in DOMAIN workers
          /\ \A j \in 1 .. done :
               j \in DOMAIN workers /\ Thread(workers[j]) = "none"
      BY <1>0, <2>2 DEF Joins, ThreadsInv, JoinedInv
    <3>2. objects'[workers[done + 1]].thread = "none"
      BY <2>2, JoinsMoves DEF Next1
    <3>3. ASSUME NEW j \in 1 .. done
          PROVE  Joined(workers[j])
      <4>1. workers[j] # workers[done + 1]
        BY <1>0, <3>1 DEF TypeInv, ListsInv, ListInv
      <4>2. objects'[workers[j]] = objects[workers[j]]
        BY <1>0, <2>2, <3>1, <4>1, JoinsMoves DEF Moves, Next1
      <4>3. QED
        BY <3>1, <4>2 DEF Thread
    <3>4. QED
      BY <1>0, <1>2, <3>1, <3>2, <3>3
  <2>3. CASE pc' = pc /\ UNCHANGED <<done, workers>> /\ Aside
    <3>1. /\ k \in DOMAIN workers /\ workers[k] \in DOMAIN objects
          /\ Thread(workers[k]) = "none"
      BY <1>0, <1>2, <2>3 DEF ThreadsInv, JoinedInv, TypeInv, LoopsInv
    <3>2. ~Launched(workers[k]) /\ ~Joins("gone")
      BY <1>0, <1>2, <2>3 DEF Launched, Launch, At, Joins
    <3>3. QED
      BY <2>3, <3>1, <3>2, NoneRests, RestingStep DEF Thread
  <2>4. QED
    BY <1>2, <2>1, <2>2, <2>3, LoopKinds
<1>3. ASSUME pc' \in {"capture", "csv"}, NEW k \in DOMAIN workers'
      PROVE  Joined(workers'[k])
  <2>1. CASE pc = "join" /\ done = Len(workers) /\ UNCHANGED <<objects, workers>>
    BY <1>0, <1>3, <2>1 DEF ThreadsInv, JoinedInv, Thread
  <2>2. CASE pc \in {"capture", "csv"} /\ workers' = workers /\ ~Launch
    <3>1. workers[k] \in DOMAIN objects /\ Thread(workers[k]) = "none"
      BY <1>0, <1>3, <2>2 DEF ThreadsInv, JoinedInv
    <3>2. QED
      BY <2>2, <3>1, NoneRests, RestingStep DEF Thread, Launched
  <2>3. QED
    BY <1>3, <2>1, <2>2, ReadingKinds
<1>4. QED
  BY <1>1, <1>2, <1>3 DEF JoinedInv, Running, Thread

LEMMA AsideIsNoLaunch ==
  ASSUME TypeInv, Aside, pc' # "terminated"
  PROVE  ~Launch
BY AsideKeeps DEF Launch, At, Goto

LEMMA StartKinds ==
  ASSUME TypeInv, [Next]_vars, ~Interrupt, pc' \in TryBlock \cup {"unwind"}
  PROVE  \/ workers' = << >>
         \/ Construct
         \/ Launch
         \/ /\ pc \in TryBlock \cup {"unwind"} /\ workers' = workers /\ ~Launch
            /\ Launches' = Launches
<1> USE DEF At, Goto, local, TryBlock, Launches
<1>0. started \in Nat
  BY DEF TypeInv, LoopsInv
<1>1. CASE Construct
  BY <1>0, <1>1 DEF Construct
<1>2. CASE Setup
  BY <1>0, <1>2 DEF Setup, Launch
<1>3. CASE Launch
  BY <1>0, <1>3 DEF Launch
<1>4. CASE AppendStarted
  BY <1>0, <1>4 DEF AppendStarted, Launch
<1>5. CASE StepFails
  BY <1>0, <1>5 DEF StepFails, FailStart, Launch
<1>6. CASE Publish
  BY <1>0, <1>6 DEF Publish
<1>7. CASE Unwind
  BY <1>0, <1>7, UnwindKinds DEF Unwind, Joins, Launch
<1>8. CASE EnterWait
  BY <1>0, <1>8 DEF EnterWait
<1>9. CASE Join
  BY <1>0, <1>9, JoinKinds DEF Join, Joins
<1>10. CASE Capture
  BY <1>0, <1>10 DEF Capture
<1>11. CASE WriteCsv
  BY <1>0, <1>11 DEF WriteCsv
<1>12. CASE Loop
  BY <1>0, <1>12 DEF Loop, EnterStart
<1>13. CASE CallStart
  BY <1>0, <1>13 DEF CallStart, EnterStart
<1>14. CASE CallWait
  BY <1>0, <1>14 DEF CallWait
<1>15. CASE CallRun
  BY <1>0, <1>15 DEF CallRun
<1>16. CASE Interrupt
  BY <1>0, <1>16 DEF Interrupt, FailStart
<1>17. CASE Handle
  BY <1>0, <1>17 DEF Handle
<1>18. CASE Leave
  BY <1>0, <1>18 DEF Leave
<1>19. CASE Destroy
  BY <1>0, <1>19, DestroyKinds DEF Destroy, Joins
<1>20. CASE StopServer
  BY <1>0, <1>20 DEF StopServer
<1>21. CASE StartServer
  BY <1>0, <1>21 DEF StartServer
<1>22. CASE Aside
  BY <1>0, <1>22, AsideKeeps, AsideIsNoLaunch
<1>23. QED
  BY <1>1, <1>2, <1>3, <1>4, <1>5, <1>6, <1>7, <1>8, <1>9, <1>10, <1>11,
     <1>12, <1>13, <1>14, <1>15, <1>16, <1>17, <1>18, <1>19, <1>20, <1>21,
     <1>22, MainOrAside DEF MainStep

LEMMA RaisedKinds ==
  ASSUME TypeInv, [Next]_vars, ~Interrupt, pc' \in {"raised", "destroy"},
         Leave => live = << >>
  PROVE  \/ workers' = << >>
         \/ /\ pc = "unwind" /\ done >= started
            /\ UNCHANGED <<objects, workers, started>>
         \/ pc \in {"raised", "destroy"} /\ workers' = workers /\ ~Launch
<1> USE DEF At, Goto, local, TypeInv, ListsInv
<1>1. CASE Construct
  BY <1>1 DEF Construct
<1>2. CASE Setup
  BY <1>2 DEF Setup
<1>3. CASE Launch
  BY <1>3 DEF Launch
<1>4. CASE AppendStarted
  BY <1>4 DEF AppendStarted
<1>5. CASE StepFails
  BY <1>5 DEF StepFails, FailStart
<1>6. CASE Publish
  BY <1>6 DEF Publish
<1>7. CASE Unwind
  BY <1>7, UnwindKinds DEF Unwind, Joins, ToJoin
<1>8. CASE EnterWait
  BY <1>8 DEF EnterWait
<1>9. CASE Join
  BY <1>9, JoinKinds DEF Join, Joins
<1>10. CASE Capture
  BY <1>10 DEF Capture
<1>11. CASE WriteCsv
  BY <1>11 DEF WriteCsv
<1>12. CASE Loop
  BY <1>12 DEF Loop, EnterStart
<1>13. CASE CallStart
  BY <1>13 DEF CallStart, EnterStart
<1>14. CASE CallWait
  BY <1>14 DEF CallWait
<1>15. CASE CallRun
  BY <1>15 DEF CallRun
<1>16. CASE Interrupt
  BY <1>16 DEF Interrupt, FailStart
<1>17. CASE Handle
  BY <1>17 DEF Handle, Launch
<1>18. CASE Leave
  BY <1>18, LeaveKinds DEF Leave, Leaves, Launch
<1>19. CASE Destroy
  BY <1>19, DestroyKinds DEF Destroy, Joins, Launch
<1>20. CASE StopServer
  BY <1>20 DEF StopServer
<1>21. CASE StartServer
  BY <1>21 DEF StartServer
<1>22. CASE Aside
  BY <1>22, AsideKeeps, AsideIsNoLaunch
<1>23. QED
  BY <1>1, <1>2, <1>3, <1>4, <1>5, <1>6, <1>7, <1>8, <1>9, <1>10, <1>11,
     <1>12, <1>13, <1>14, <1>15, <1>16, <1>17, <1>18, <1>19, <1>20, <1>21,
     <1>22, MainOrAside DEF MainStep

LEMMA StartStep ==
  ASSUME TypeInv, ThreadsInv, [Next]_vars
  PROVE  StartInv'
<1>0. /\ started \in Nat /\ workers \in Seq(Nat) /\ Launches \in Nat
      /\ DOMAIN workers = 1 .. Len(workers) /\ Len(workers) \in Nat
      /\ \A k \in DOMAIN workers : workers[k] \in DOMAIN objects
  BY DEF TypeInv, LoopsInv, ListsInv, ListInv, Launches
<1> DEFINE Rests(o) == objects'[o].thread \notin Threads
<1>1. ASSUME ~("interrupt" \in provoked'), pc' \in TryBlock \cup {"unwind"},
             NEW k \in DOMAIN workers', k > Launches'
      PROVE  Rests(workers'[k])
  <2>1. ~Interrupt /\ ~("interrupt" \in provoked)
    BY <1>1, InterruptIsNoted, ProvokedStep
  <2>2. pc \in TryBlock \cup {"unwind"} =>
          \A j \in DOMAIN workers : j > Launches => ~Running(workers[j])
    BY <2>1 DEF ThreadsInv, StartInv, Excepted
  <2>3. CASE Construct
    <3>1. /\ pc \in TryBlock /\ pc # "append" /\ workers' = Append(workers, NextWorker)
          /\ started' = started /\ pc' # "append" /\ NextWorker \in Nat
      BY <2>3 DEF Construct, At, Goto, TryBlock, NextWorker, TypeInv, ObjectsInv
    <3>2. Launches' = Launches
      BY <3>1 DEF Launches
    <3>3. /\ DOMAIN workers' = 1 .. Len(workers) + 1
          /\ \A j \in DOMAIN workers : workers'[j] = workers[j]
          /\ workers'[Len(workers) + 1] = NextWorker
      BY <1>0, <3>1
    <3>4. CASE k \in DOMAIN workers
      <4>1. ~Running(workers[k]) /\ workers[k] \in DOMAIN objects
        BY <1>0, <1>1, <2>2, <3>1, <3>2, <3>4
      <4>2. ~Launch
        BY <2>3 DEF Construct, Launch, At
      <4>3. QED
        BY <3>3, <3>4, <4>1, <4>2, RestingStep DEF Launched, Running, Thread
    <3>5. CASE k = Len(workers) + 1
      <4>1. objects'[NextWorker].thread = "none"
        BY <2>3, ConstructMakes DEF NextWorker, Object
      <4>2. QED
        BY <3>3, <3>5, <4>1 DEF Threads, ToAttach, Attached
    <3>6. QED
      BY <1>0, <1>1, <3>3, <3>4, <3>5
  <2>4. CASE Launch
    <3>1. /\ pc = "launch" /\ pc' = "append" /\ workers' = workers
          /\ started' = started
      BY <2>4 DEF Launch, At, Goto, local
    <3>2. Launches' = started + 1 /\ Launches = started
      BY <1>0, <3>1 DEF Launches
    <3>3. started + 1 \in DOMAIN workers
      BY <2>4, LaunchMoves
    <3>4. ~Running(workers[k]) /\ workers[k] \in DOMAIN objects
      BY <1>0, <1>1, <2>2, <3>1, <3>2 DEF TryBlock
    <3>5. workers[k] # workers[started + 1]
      BY <1>0, <1>1, <3>1, <3>2, <3>3 DEF TypeInv, ListsInv, ListInv
    <3>6. QED
      BY <3>1, <3>4, <3>5, RestingStep DEF Launched, Running, Thread
  <2>5. CASE /\ pc \in TryBlock \cup {"unwind"} /\ workers' = workers /\ ~Launch
             /\ Launches' = Launches
    BY <1>0, <1>1, <2>2, <2>5, RestingStep DEF Launched, Running, Thread
  <2>6. CASE workers' = << >>
    BY <1>1, <2>6
  <2>7. QED
    BY <1>1, <2>1, <2>3, <2>4, <2>5, <2>6, StartKinds
<1>2. ASSUME provoked' \cap {"interrupt", "abandon"} = {},
             pc' \in {"raised", "destroy"}, NEW k \in DOMAIN workers'
      PROVE  Rests(workers'[k])
  <2>1. /\ ~Interrupt /\ (Leave => live = << >>)
        /\ provoked \cap {"interrupt", "abandon"} = {}
    BY <1>2, InterruptIsNoted, LeavingIsNoted, ProvokedStep
  <2>2. CASE workers' = << >>
    BY <1>2, <2>2
  <2>3. CASE /\ pc = "unwind" /\ done >= started
             /\ UNCHANGED <<objects, workers, started>>
    <3>1. \A j \in 1 .. done : ~Running(workers[j])
      BY <2>3 DEF ThreadsInv, JoinedInv
    <3>2. \A j \in DOMAIN workers : j > started => ~Running(workers[j])
      BY <1>0, <2>1, <2>3 DEF ThreadsInv, StartInv, Excepted, Launches
    <3>3. done \in Nat
      BY DEF TypeInv, LoopsInv
    <3>4. QED
      BY <1>0, <1>2, <2>3, <3>1, <3>2, <3>3 DEF Running, Thread
  <2>4. CASE pc \in {"raised", "destroy"} /\ workers' = workers /\ ~Launch
    <3>1. ~Running(workers[k])
      BY <1>2, <2>1, <2>4 DEF ThreadsInv, StartInv, Excepted
    <3>2. QED
      BY <1>0, <1>2, <2>4, <3>1, RestingStep DEF Launched, Running, Thread
  <2>5. QED
    BY <1>2, <2>1, <2>2, <2>3, <2>4, RaisedKinds
<1>3. QED
  BY <1>1, <1>2 DEF StartInv, Excepted, Running, Thread

-----------------------------------------------------------------------------
(* The theorems. *)

SafeInv == TypeInv /\ NamesInv /\ ThreadsInv

LEMMA InitSafe ==
  ASSUME Init
  PROVE  SafeInv
<1>1. /\ objects = << >> /\ live = << >> /\ workers = << >>
      /\ DOMAIN objects = {} /\ Elements(live) = {} /\ Elements(workers) = {}
  BY DEF Init, Elements
<1>2. TypeInv
  <2>1. ObjectsInv
    BY <1>1 DEF ObjectsInv
  <2>2. CountsInv
    <3>1. /\ cycle = 0 /\ left = 0 /\ pc = "idle" /\ leaving = FALSE
          /\ collector = NoOne /\ MaxCycles \in Nat /\ Repeat \in Nat
      BY WorkloadAssumption DEF Init
    <3>2. 0 \in 0 .. MaxCycles /\ 0 \in 0 .. Repeat
      BY <3>1
    <3>3. pc \notin TryBlock \cup {"publish"} /\ pc \notin Calls
      BY <3>1 DEF TryBlock, Calls
    <3>4. QED
      BY <3>1, <3>2, <3>3 DEF CountsInv
  <2>3. ListsInv
    BY <1>1, EmptyList DEF Init, ListsInv, TryBlock
  <2>4. LoopsInv
    BY WorkloadAssumption DEF Init, LoopsInv
  <2>5. QED
    BY <2>1, <2>2, <2>3, <2>4 DEF TypeInv
<1>3. NamesInv
  BY <1>1 DEF Init, NamesInv, Listed, Starting, TryBlock, NamesUnique
<1>4. ThreadsInv
  BY <1>1 DEF Init, ThreadsInv, ListedInv, JoinedInv, StartInv, TryBlock
<1>5. QED
  BY <1>2, <1>3, <1>4 DEF SafeInv

LEMMA SafeStep ==
  ASSUME SafeInv, [Next]_vars
  PROVE  SafeInv'
BY TypeStep, NamesStep, ListedStep, JoinedStep, StartStep DEF SafeInv, ThreadsInv

LEMMA AlwaysSafe == Spec => []SafeInv
BY InitSafe, SafeStep, PTL DEF Spec

\* No two workers ever have the same name, for any number of workers, cycles
\* and failed starts: loggers are found by name.
THEOREM NamesStayUnique == Spec => []NamesUnique
<1>1. SafeInv => NamesUnique
  BY DEF SafeInv, NamesInv
<1>2. QED
  BY <1>1, AlwaysSafe, PTL

\* A thread runs only for the call in progress or the live cycle, and no two
\* cycles overlap, unless a KeyboardInterrupt or a scenario that leaves its
\* context abandoned them.
THEOREM NothingIsLeftRunning == Spec => []NothingLeftRunning
<1>1. ASSUME SafeInv, Alive
      PROVE  /\ \A id \in DOMAIN objects :
                  Running(id) => \/ id \in Elements(live)
                                 \/ pc \in Calls /\ id \in Elements(workers)
                                 \/ Excepted({"interrupt", "abandon"})
             /\ \A i, j \in DOMAIN objects :
                  Running(i) /\ Running(j) =>
                    objects[i].name[1] = objects[j].name[1]
  <2>1. \A id \in DOMAIN objects : Running(id) => id \in Listed
    BY <1>1 DEF SafeInv, ThreadsInv, ListedInv
  <2>2. ASSUME NEW id \in DOMAIN objects, Running(id), id \in Elements(workers),
               ~Excepted({"interrupt", "abandon"})
        PROVE  pc \in Calls
    <3>1. pc \notin {"idle", "restarting", "end"}
      BY <1>1, <2>2 DEF SafeInv, TypeInv, ListsInv, Elements
    <3>2. pc \notin {"raised", "destroy"}
      BY <1>1, <2>2 DEF SafeInv, ThreadsInv, StartInv, Elements
    <3>3. QED
      BY <1>1, <3>1, <3>2 DEF SafeInv, TypeInv, CountsInv, Alive
  <2>3. \A id \in Listed : objects[id].name[1] = cycle
    BY <1>1 DEF SafeInv, NamesInv, CycleOf
  <2>4. QED
    BY <2>1, <2>2, <2>3 DEF Listed
<1>2. SafeInv => NothingLeftRunning
  BY <1>1 DEF NothingLeftRunning
<1>3. QED
  BY <1>2, AlwaysSafe, PTL

-----------------------------------------------------------------------------
(* The server, and what ends the process or stops the interpreter. *)

Runs == \E id \in DOMAIN objects : Running(id)

ServerInv ==
  /\ serverUp \in BOOLEAN
  /\ pc \in {"setup", "launch", "append"} => serverUp
  /\ Alive /\ ~serverUp => provoked # {} \/ ~Runs
  /\ pc = "terminated" => provoked # {}

LEMMA ServerKinds ==
  ASSUME TypeInv, ServerInv, [Next]_vars
  PROVE  /\ serverUp' \in BOOLEAN
         /\ serverUp' = serverUp \/ serverUp' \/ Leave \/ StopServer
         /\ pc' \in {"setup", "launch", "append"} => serverUp'
<1> USE DEF At, Goto, local, TryBlock, Calls, ServerInv
<1>1. CASE Construct
  BY <1>1 DEF Construct
<1>2. CASE Setup
  BY <1>2 DEF Setup
<1>3. CASE Launch
  BY <1>3 DEF Launch
<1>4. CASE AppendStarted
  BY <1>4 DEF AppendStarted
<1>5. CASE StepFails
  BY <1>5 DEF StepFails, FailStart
<1>6. CASE Publish
  BY <1>6 DEF Publish
<1>7. CASE Unwind
  BY <1>7, UnwindKinds DEF Unwind, Joins
<1>8. CASE EnterWait
  BY <1>8 DEF EnterWait
<1>9. CASE Join
  BY <1>9, JoinKinds DEF Join, Joins
<1>10. CASE Capture
  BY <1>10 DEF Capture
<1>11. CASE WriteCsv
  BY <1>11 DEF WriteCsv
<1>12. CASE Loop
  BY <1>12 DEF Loop, EnterStart
<1>13. CASE CallStart
  BY <1>13 DEF CallStart, EnterStart
<1>14. CASE CallWait
  BY <1>14 DEF CallWait
<1>15. CASE CallRun
  BY <1>15 DEF CallRun
<1>16. CASE Interrupt
  BY <1>16 DEF Interrupt, FailStart
<1>17. CASE Handle
  BY <1>17 DEF Handle
<1>18. CASE Leave
  BY <1>18, LeaveKinds DEF Leave, Leaves
<1>19. CASE Destroy
  BY <1>19, DestroyKinds DEF Destroy, Joins
<1>20. CASE StopServer
  BY <1>20 DEF StopServer
<1>21. CASE StartServer
  BY <1>21 DEF StartServer
<1>22. CASE Aside
  BY <1>22, AsideKeeps
<1>23. QED
  BY <1>1, <1>2, <1>3, <1>4, <1>5, <1>6, <1>7, <1>8, <1>9, <1>10, <1>11,
     <1>12, <1>13, <1>14, <1>15, <1>16, <1>17, <1>18, <1>19, <1>20, <1>21,
     <1>22, MainOrAside DEF MainStep

LEMMA EndKinds ==
  ASSUME TypeInv, [Next]_vars, Alive, ~Alive'
  PROVE  Runs /\ ~serverUp /\ provoked' = provoked
<1>1. ~MainStep
  BY DEF MainStep, Alive, At, Goto, local, Construct, Setup, Launch,
     AppendStarted, StepFails, FailStart, Publish, Unwind, EnterWait, Join,
     Capture, WriteCsv, Loop, EnterStart, CallStart, CallWait, CallRun,
     Interrupt, Handle, Leave, Destroy, StopServer, StartServer
<1>2. Aside
  BY <1>1, MainOrAside
<1>3. ~serverUp /\ provoked' = provoked
  BY <1>2, AsideKeeps DEF Alive
<1>4. Runs
  <2>1. CASE ResumeTheWorld \/ UNCHANGED vars
    BY <2>1 DEF ResumeTheWorld, vars, Alive
  <2>2. ASSUME NEW id \in DOMAIN objects, StopTheWorld(id)
        PROVE  FALSE
    BY <2>2 DEF StopTheWorld, Alive
  <2>3. ASSUME NEW id \in DOMAIN objects, AnyWorkerStep(id)
        PROVE  Runs
    BY <2>3, WorkerMoves DEF TypeInv, Runs
  <2>4. QED
    BY <1>2, <2>1, <2>2, <2>3 DEF Aside
<1>5. QED
  BY <1>3, <1>4

LEMMA ServerStep ==
  ASSUME SafeInv, ServerInv, [Next]_vars
  PROVE  ServerInv'
<1>0. TypeInv
  BY DEF SafeInv
<1>1. ASSUME Alive', ~serverUp', provoked' = {}
      PROVE  ~Runs'
  <2>1. Alive /\ provoked = {}
    BY <1>0, <1>1, EndIsFinal, ProvokedStep
  <2>2. CASE Leave
    <3>1. live = << >>
      BY <1>1, <2>2, LeavingIsNoted
    <3>2. UNCHANGED objects /\ pc \in {"idle", "raised"}
      BY <2>2 DEF Leave, At
    <3>3. \A id \in DOMAIN objects : ~Running(id)
      <4>1. SUFFICES ASSUME NEW id \in DOMAIN objects, Running(id)
                     PROVE  FALSE
        OBVIOUS
      <4>2. id \in Elements(workers)
        BY <2>1, <3>1, <4>1 DEF SafeInv, ThreadsInv, ListedInv, Listed, Elements
      <4>3. pc = "raised"
        BY <3>2, <4>2 DEF SafeInv, TypeInv, ListsInv, Elements
      <4>4. QED
        BY <2>1, <4>1, <4>2, <4>3
           DEF SafeInv, ThreadsInv, StartInv, Elements, Excepted
    <3>4. QED
      BY <3>2, <3>3 DEF Runs, Running, Thread
  <2>3. CASE StopServer
    BY <1>1, <2>3 DEF StopServer, Runs, Running, Thread
  <2>4. CASE serverUp' = serverUp
    <3>1. ~Runs /\ pc # "launch"
      BY <1>1, <2>1, <2>4 DEF ServerInv
    <3>2. ASSUME NEW id \in DOMAIN objects'
          PROVE  ~Running(id)'
      BY <1>0, <3>1, NewAtRest, RestingStep DEF Runs, Launched, Launch, At
    <3>3. QED
      BY <3>2 DEF Runs
  <2>5. QED
    BY <1>0, <1>1, <2>2, <2>3, <2>4, ServerKinds
<1>2. ASSUME ~Alive'
      PROVE  provoked' # {}
  <2>1. CASE Alive
    BY <1>0, <1>2, <2>1, EndKinds DEF ServerInv
  <2>2. CASE ~Alive
    BY <1>0, <2>2, ProvokedStep DEF Alive, ServerInv
  <2>3. QED
    BY <2>1, <2>2
<1>3. QED
  BY <1>0, <1>1, <1>2, ServerKinds DEF ServerInv, Alive

\* A worker ends the process only when the server was taken from a running
\* cycle, and the interpreter stops for good only in a scenario that lets a
\* running worker be destroyed.
THEOREM OnlyProvokedFailures == Spec => []FailuresHaveCause
<1>1. Init => ServerInv
  BY DEF Init, ServerInv, Runs
<1>2. SafeInv /\ ServerInv /\ [Next]_vars => ServerInv'
  BY ServerStep
<1>3. ASSUME SafeInv, ServerInv
      PROVE  FailuresHaveCause
  <2>1. ASSUME Deadlocked
        PROVE  Excepted({"interrupt", "abandon"})
    <3>1. pc = "destroy" /\ done < Len(workers) /\ Running(workers[done + 1])
      BY <2>1 DEF Deadlocked, MainBlocked, Released, Next1
    <3>2. done + 1 \in DOMAIN workers
      BY <1>3, <3>1
         DEF SafeInv, TypeInv, ListsInv, ListInv, LoopsInv
    <3>3. QED
      BY <1>3, <3>1, <3>2 DEF SafeInv, ThreadsInv, StartInv
  <2>2. QED
    BY <1>3, <2>1 DEF FailuresHaveCause, ServerInv
<1>4. SafeInv /\ ServerInv => FailuresHaveCause
  BY <1>3
<1>5. QED
  BY <1>1, <1>2, <1>4, AlwaysSafe, PTL DEF Spec

-----------------------------------------------------------------------------
(* What is reported is final. *)

\* A worker whose report is still to come from the call in progress.
Waits(o) == \E k \in DOMAIN workers :
              /\ workers[k] = o
              /\ pc \in Starting \cup {"join"} \/ (pc = "capture" /\ k > done)

\* It waits, or is live, after the step.
StillWaits(o) ==
  \/ \E k \in DOMAIN live' : live'[k] = o
  \/ \E k \in DOMAIN workers' :
       /\ workers'[k] = o
       /\ pc' \in Starting \cup {"join"} \/ (pc' = "capture" /\ k > done')

IsReported(o) == \E i \in DOMAIN reports : reports[i].id = o

FinalInv ==
  /\ reports \in Seq([id : Nat, made : Nat])
  /\ \A i \in DOMAIN reports :
       /\ reports[i].id \in DOMAIN objects
       /\ Thread(reports[i].id) \in {"none", "gone"}
       /\ reports[i].made = objects[reports[i].id].made
  /\ \A i, j \in DOMAIN reports : reports[i].id = reports[j].id => i = j
  /\ \A o \in DOMAIN objects :
       IsReported(o) => o \notin Elements(live) /\ ~Waits(o)

CsvInv ==
  /\ csv \subseteq [id : Nat, cycle : Nat]
  /\ \A row \in csv : row.id \in DOMAIN objects /\ row.cycle = CycleOf(row.id)

\* wait() goes from its joins to its reports.
LEMMA ReportKinds ==
  ASSUME TypeInv, [Next]_vars, pc' \in {"join", "capture"}
  PROVE  \/ pc = "join"
         \/ pc = "capture" /\ pc' = "capture" /\ done' \in {done, done + 1}
         \/ TakesLive
<1> USE DEF At, Goto, local, TryBlock, Calls
<1>1. CASE Construct
  BY <1>1 DEF Construct
<1>2. CASE Setup
  BY <1>2 DEF Setup
<1>3. CASE Launch
  BY <1>3 DEF Launch
<1>4. CASE AppendStarted
  BY <1>4 DEF AppendStarted
<1>5. CASE StepFails
  BY <1>5 DEF StepFails, FailStart
<1>6. CASE Publish
  BY <1>6 DEF Publish
<1>7. CASE Unwind
  BY <1>7, UnwindKinds DEF Unwind, Joins
<1>8. CASE EnterWait
  BY <1>8 DEF EnterWait, TakesLive
<1>9. CASE Join
  BY <1>9, JoinKinds DEF Join, Joins
<1>10. CASE Capture
  BY <1>10 DEF Capture
<1>11. CASE WriteCsv
  BY <1>11 DEF WriteCsv
<1>12. CASE Loop
  BY <1>12 DEF Loop, EnterStart
<1>13. CASE CallStart
  BY <1>13 DEF CallStart, EnterStart
<1>14. CASE CallWait
  BY <1>14 DEF CallWait
<1>15. CASE CallRun
  BY <1>15 DEF CallRun
<1>16. CASE Interrupt
  BY <1>16 DEF Interrupt, FailStart
<1>17. CASE Handle
  BY <1>17 DEF Handle
<1>18. CASE Leave
  BY <1>18 DEF Leave
<1>19. CASE Destroy
  BY <1>19, DestroyKinds DEF Destroy, Joins
<1>20. CASE StopServer
  BY <1>20 DEF StopServer
<1>21. CASE StartServer
  BY <1>21 DEF StartServer
<1>22. CASE Aside
  BY <1>22, AsideKeeps
<1>23. QED
  BY <1>1, <1>2, <1>3, <1>4, <1>5, <1>6, <1>7, <1>8, <1>9, <1>10, <1>11,
     <1>12, <1>13, <1>14, <1>15, <1>16, <1>17, <1>18, <1>19, <1>20, <1>21,
     <1>22, MainOrAside DEF MainStep

\* A worker waits, or is live, from its construction on.
LEMMA WaitingShrinks ==
  ASSUME TypeInv, [Next]_vars, NEW o \in DOMAIN objects,
         StillWaits(o)
  PROVE  o \in Elements(live) \/ Waits(o)
<1> USE DEF Waits, StillWaits, Elements
<1>1. CASE Construct
  <2>1. /\ pc = "construct" /\ live' = live
        /\ workers' = Append(workers, NextWorker) /\ workers \in Seq(Nat)
        /\ NextWorker \notin DOMAIN objects /\ NextWorker \in Nat
    BY <1>1, ConstructMakes
       DEF Construct, At, NextWorker, TypeInv, ListsInv, ListInv
  <2>2. /\ DOMAIN workers' = DOMAIN workers \cup {Len(workers) + 1}
        /\ \A k \in DOMAIN workers : workers'[k] = workers[k]
        /\ workers'[Len(workers) + 1] = NextWorker
    BY <2>1
  <2>3. QED
    BY <2>1, <2>2 DEF Starting, TryBlock
<1>2. CASE KeepsLists /\ ~TakesLive
  <2>1. pc' \in {"join", "capture"} =>
          \/ pc = "join"
          \/ pc = "capture" /\ pc' = "capture" /\ done' \in {done, done + 1}
    BY <1>2, ReportKinds
  <2>2. done \in Nat /\ DOMAIN workers \subseteq Nat
    BY DEF TypeInv, LoopsInv, ListsInv, ListInv
  <2>3. QED
    BY <1>2, <2>1, <2>2 DEF KeepsLists, Starting, TryBlock
<1>3. CASE OpensCycle \/ PublishesCycle \/ TakesLive \/ DropsWorkers \/ Leaves
  BY <1>3 DEF OpensCycle, PublishesCycle, TakesLive, DropsWorkers, Leaves,
     Starting, TryBlock
<1>4. QED
  BY <1>1, <1>2, <1>3, ListKinds

\* reports is added to by Capture, and emptied by run().
Captures ==
  /\ pc = "capture" /\ pc' = "capture" /\ done + 1 \in DOMAIN workers
  /\ reports' = Append(reports, Report(workers[done + 1]))
  /\ done' = done + 1 /\ UNCHANGED <<objects, live, workers, csv>>

LEMMA CaptureKinds ==
  ASSUME TypeInv, [Next]_vars
  PROVE  UNCHANGED reports \/ (CallRun /\ reports' = << >>) \/ Captures
<1>1. ASSUME Capture
      PROVE  UNCHANGED reports \/ Captures
  <2>1. /\ pc = "capture" /\ done \in Nat /\ Len(workers) \in Nat
        /\ DOMAIN workers = 1 .. Len(workers)
    BY <1>1 DEF Capture, At, TypeInv, LoopsInv, ListsInv, ListInv
  <2>2. CASE done < Len(workers)
    BY <1>1, <2>1, <2>2 DEF Capture, Captures, Next1
  <2>3. CASE ~(done < Len(workers))
    BY <1>1, <2>3 DEF Capture
  <2>4. QED
    BY <2>2, <2>3
<1>2. CASE MainStep
  BY <1>1, <1>2 DEF MainStep, results, Construct, Setup, Launch, AppendStarted,
     StepFails, FailStart, Publish, Unwind, EnterWait, Join, WriteCsv, Loop,
     CallStart, CallWait, CallRun, Interrupt, Handle, Leave, Destroy,
     StopServer, StartServer
<1>3. QED
  BY <1>2, MainOrAside, AsideKeeps

LEMMA FinalFromParts ==
  ASSUME reports' \in Seq([id : Nat, made : Nat]),
         \A i \in DOMAIN reports' :
           /\ reports'[i].id \in DOMAIN objects'
           /\ objects'[reports'[i].id].thread \in {"none", "gone"}
           /\ reports'[i].made = objects'[reports'[i].id].made
           /\ ~StillWaits(reports'[i].id),
         \A i, j \in DOMAIN reports' : reports'[i].id = reports'[j].id => i = j
  PROVE  FinalInv'
BY DEF FinalInv, IsReported, Thread, StillWaits, Waits, Elements

LEMMA FinalStep ==
  ASSUME SafeInv, FinalInv, [Next]_vars
  PROVE  FinalInv'
<1>0. /\ TypeInv /\ DOMAIN objects \subseteq DOMAIN objects'
      /\ DOMAIN workers = 1 .. Len(workers) /\ Len(workers) \in Nat
      /\ \A k \in DOMAIN workers : workers[k] \in DOMAIN objects
      /\ \A o \in DOMAIN objects : o \in Nat
  BY ObjectsStep
     DEF SafeInv, TypeInv, ListsInv, ListInv, ObjectsInv
<1> DEFINE Final(r) == /\ r.id \in DOMAIN objects'
                       /\ objects'[r.id].thread \in {"none", "gone"}
                       /\ r.made = objects'[r.id].made
\* What was reported stays final and out.
<1>1. ASSUME NEW i \in DOMAIN reports
      PROVE  Final(reports[i]) /\ ~StillWaits(reports[i].id)
  <2> DEFINE o == reports[i].id
  <2>1. /\ o \in DOMAIN objects /\ Thread(o) \in {"none", "gone"}
        /\ reports[i].made = objects[o].made
        /\ o \notin Elements(live) /\ ~Waits(o)
    BY DEF FinalInv, IsReported
  <2> HIDE DEF o
  <2>2. ~Launched(o)
    <3>1. SUFFICES ASSUME Launched(o)
                   PROVE  FALSE
      OBVIOUS
    <3>2. started + 1 \in DOMAIN workers /\ pc = "launch"
      BY <1>0, <3>1, LaunchMoves DEF Launched, Launch, At
    <3>3. QED
      BY <2>1, <3>1, <3>2 DEF Launched, Waits, Starting, TryBlock
  <2>3. ~Running(o)
    BY <2>1 DEF Running, Threads, ToAttach, Attached
  <2>4. ~StillWaits(o)
    BY <1>0, <2>1, WaitingShrinks
  <2>5. /\ o \in DOMAIN objects' /\ objects'[o].thread \in {"none", "gone"}
        /\ objects'[o].made = objects[o].made
    BY <1>0, <2>1, <2>2, <2>3, RestingStep DEF Thread
  <2>6. QED
    BY <2>1, <2>4, <2>5 DEF o
<1> HIDE DEF Final
<1>2. CASE UNCHANGED reports
  <2>1. \A i \in DOMAIN reports' : Final(reports'[i]) /\ ~StillWaits(reports'[i].id)
    BY <1>1, <1>2
  <2>2. reports' \in Seq([id : Nat, made : Nat])
    BY <1>2 DEF FinalInv
  <2>3. QED
    BY <1>2, <2>1, <2>2, FinalFromParts DEF FinalInv, Final
<1>3. CASE reports' = << >>
  BY <1>3 DEF FinalInv, IsReported
<1>4. CASE Captures
  <2> DEFINE o == workers[done + 1]
  <2>1. /\ o \in DOMAIN objects /\ o \in Nat /\ Waits(o)
        /\ Thread(o) = "none" /\ objects[o].made \in Nat
    <3>1. o \in DOMAIN objects /\ o \in Nat /\ Thread(o) = "none"
      BY <1>0, <1>4 DEF Captures, SafeInv, ThreadsInv, JoinedInv
    <3>2. objects[o] \in Worker_
      BY <3>1 DEF SafeInv, TypeInv, ObjectsInv
    <3>3. Waits(o)
      BY <1>0, <1>4 DEF Captures, Waits, TypeInv, LoopsInv
    <3>4. QED
      BY <3>1, <3>2, <3>3 DEF Worker_
  <2>2. Report(o) = [id |-> o, made |-> objects[o].made]
    BY DEF Report
  <2>3. Final(Report(o))
    BY <1>4, <2>1, <2>2 DEF Final, Captures, Thread
  <2>4. ~StillWaits(o)
    <3>1. live' = << >>
      BY <1>0, <1>4 DEF Captures, TypeInv, ListsInv
    <3>2. \A k \in DOMAIN workers : workers[k] = o => k = done + 1
      BY <1>0, <1>4 DEF Captures, TypeInv, ListsInv, ListInv
    <3>3. QED
      BY <1>4, <3>1, <3>2 DEF Captures, StillWaits, Starting, TryBlock
  <2>5. ~IsReported(o)
    BY <2>1 DEF FinalInv
  <2>6. reports' = Append(reports, Report(o))
    BY <1>4 DEF Captures
  <2>7. Report(o).id = o /\ Report(o) \in [id : Nat, made : Nat]
    BY <2>1, <2>2
  <2> HIDE DEF o
  <2>8. reports' \in Seq([id : Nat, made : Nat])
    BY <2>6, <2>7 DEF FinalInv
  <2>9. /\ DOMAIN reports' = DOMAIN reports \cup {Len(reports) + 1}
        /\ \A i \in DOMAIN reports : reports'[i] = reports[i]
        /\ reports'[Len(reports) + 1] = Report(o)
    BY <2>6, <2>7 DEF FinalInv
  <2>10. \A i \in DOMAIN reports' : Final(reports'[i]) /\ ~StillWaits(reports'[i].id)
    BY <1>1, <2>3, <2>4, <2>7, <2>9
  <2>11. \A i, j \in DOMAIN reports' :
           reports'[i].id = reports'[j].id => i = j
    BY <2>5, <2>7, <2>9 DEF FinalInv, IsReported
  <2>12. QED
    BY <2>8, <2>10, <2>11, FinalFromParts DEF Final
<1>5. QED
  BY <1>0, <1>2, <1>3, <1>4, CaptureKinds

LEMMA CsvStep ==
  ASSUME SafeInv, CsvInv, [Next]_vars
  PROVE  CsvInv'
<1>0. /\ TypeInv /\ DOMAIN objects \subseteq DOMAIN objects'
      /\ \A o \in DOMAIN objects : objects'[o].name = objects[o].name
      /\ cycle \in Nat
  BY ObjectsStep, WorkloadAssumption DEF SafeInv, TypeInv, CountsInv
<1>1. csv' \subseteq csv \cup {[id |-> id, cycle |-> cycle] : id \in Elements(workers)}
  <2>1. CASE MainStep
    BY <2>1 DEF MainStep, results, Construct, Setup, Launch, AppendStarted,
       StepFails, FailStart, Publish, Unwind, EnterWait, Join, Capture, WriteCsv,
       Loop, CallStart, CallWait, CallRun, Interrupt, Handle, Leave, Destroy,
       StopServer, StartServer
  <2>2. QED
    BY <1>0, <2>1, MainOrAside, AsideKeeps
<1>2. \A id \in Elements(workers) : id \in DOMAIN objects /\ CycleOf(id) = cycle
  BY DEF SafeInv, NamesInv, Listed, Elements, TypeInv, ListsInv, ListInv
<1>3. \A row \in csv' : row.id \in DOMAIN objects /\ row.cycle = CycleOf(row.id)
  BY <1>0, <1>1, <1>2 DEF CsvInv
<1>4. csv' \subseteq [id : Nat, cycle : Nat]
  <2>1. \A id \in Elements(workers) : id \in Nat
    BY <1>0 DEF Elements, TypeInv, ListsInv, ListInv
  <2>2. QED
    BY <1>0, <1>1, <2>1 DEF CsvInv
<1>5. QED
  BY <1>0, <1>3, <1>4 DEF CsvInv, CycleOf

-----------------------------------------------------------------------------
(* What is reported is what was due. *)

IsDue(o) ==
  /\ objects[o].ran /\ CycleOf(o) > resetAt /\ CycleOf(o) \notin failed
  /\ o \notin Elements(live)

\* The cycle in progress is no failed one, and no run() has reset it away.
CurrentInv ==
  /\ resetAt \in Nat /\ resetAt <= cycle
  /\ \A c \in failed : c \in Nat /\ c <= cycle
  /\ pc \in Starting \cup {"join", "capture"} \/ live # << >> =>
       resetAt < cycle /\ cycle \notin failed

\* start() publishes a cycle only after it launched all of it.
RanInv ==
  /\ \A id \in Elements(live) : objects[id].ran
  /\ pc \in {"publish", "join", "capture"} =>
       \A k \in DOMAIN workers : objects[workers[k]].ran
  /\ pc \in {"launch", "append"} =>
       \A k \in DOMAIN workers : k <= Launches => objects[workers[k]].ran

DueInv ==
  Alive /\ ~leaving /\ "interrupt" \notin provoked =>
    \A o \in DOMAIN objects : IsReported(o) <=> IsDue(o) /\ ~Waits(o)

FailsToStart ==
  /\ pc \in TryBlock /\ pc' = "unwind" /\ failed' = failed \cup {cycle}
  /\ UNCHANGED <<objects, cycle, live, reports, workers, resetAt, leaving>>

ResetsReports ==
  /\ CallRun /\ pc = "idle" /\ pc' = "loop" /\ failed' = failed
  /\ reports' = << >> /\ resetAt' = (IF live = << >> THEN cycle ELSE cycle - 1)
  /\ UNCHANGED <<objects, cycle, live, workers, leaving>>

LEMMA HistoryKinds ==
  ASSUME TypeInv, [Next]_vars
  PROVE  UNCHANGED <<resetAt, failed>> \/ FailsToStart \/ ResetsReports
<1>1. ASSUME FailStart, pc \in TryBlock
      PROVE  FailsToStart
  BY <1>1 DEF FailStart, Goto, FailsToStart, results
<1>2. ASSUME CallRun
      PROVE  ResetsReports
  BY <1>2 DEF CallRun, At, Goto, ResetsReports
<1>3. ASSUME StepFails \/ Interrupt
      PROVE  UNCHANGED <<resetAt, failed>> \/ FailsToStart
  BY <1>1, <1>3 DEF StepFails, Interrupt, At, TryBlock, history
<1>4. CASE MainStep
  BY <1>2, <1>3, <1>4 DEF MainStep, history, Construct, Setup, Launch,
     AppendStarted, Publish, Unwind, EnterWait, Join, Capture, WriteCsv, Loop,
     CallStart, CallWait, Handle, Leave, Destroy, StopServer, StartServer
<1>5. QED
  BY <1>4, MainOrAside, AsideKeeps

\* wait() refuses without a live cycle.
LEMMA NoEmptyWait ==
  ASSUME TypeInv, [Next]_vars, pc = "wait", pc' = "join"
  PROVE  live # << >>
<1> USE DEF At, Goto, local, TryBlock, Calls
<1>1. CASE Construct
  BY <1>1 DEF Construct
<1>2. CASE Setup
  BY <1>2 DEF Setup
<1>3. CASE Launch
  BY <1>3 DEF Launch
<1>4. CASE AppendStarted
  BY <1>4 DEF AppendStarted
<1>5. CASE StepFails
  BY <1>5 DEF StepFails, FailStart
<1>6. CASE Publish
  BY <1>6 DEF Publish
<1>7. CASE Unwind
  BY <1>7 DEF Unwind
<1>8. CASE EnterWait
  BY <1>8 DEF EnterWait
<1>9. CASE Join
  BY <1>9 DEF Join
<1>10. CASE Capture
  BY <1>10 DEF Capture
<1>11. CASE WriteCsv
  BY <1>11 DEF WriteCsv
<1>12. CASE Loop
  BY <1>12 DEF Loop, EnterStart
<1>13. CASE CallStart
  BY <1>13 DEF CallStart, EnterStart
<1>14. CASE CallWait
  BY <1>14 DEF CallWait
<1>15. CASE CallRun
  BY <1>15 DEF CallRun
<1>16. CASE Interrupt
  BY <1>16 DEF Interrupt, FailStart
<1>17. CASE Handle
  BY <1>17 DEF Handle
<1>18. CASE Leave
  BY <1>18 DEF Leave
<1>19. CASE Destroy
  BY <1>19 DEF Destroy
<1>20. CASE StopServer
  BY <1>20 DEF StopServer
<1>21. CASE StartServer
  BY <1>21 DEF StartServer
<1>22. CASE Aside
  BY <1>22, AsideKeeps
<1>23. QED
  BY <1>1, <1>2, <1>3, <1>4, <1>5, <1>6, <1>7, <1>8, <1>9, <1>10, <1>11,
     <1>12, <1>13, <1>14, <1>15, <1>16, <1>17, <1>18, <1>19, <1>20, <1>21,
     <1>22, MainOrAside DEF MainStep

LEMMA CurrentStep ==
  ASSUME SafeInv, CurrentInv, [Next]_vars
  PROVE  CurrentInv'
<1>0. /\ TypeInv /\ cycle \in Nat /\ DOMAIN workers \subseteq Nat
      /\ live # << >> => cycle # 0
  <2>1. TypeInv /\ cycle \in Nat /\ DOMAIN workers \subseteq Nat
    BY WorkloadAssumption DEF SafeInv, TypeInv, CountsInv, ListsInv, ListInv
  <2>2. ASSUME live # << >>
        PROVE  cycle # 0
    <3>1. 1 \in DOMAIN live /\ live[1] \in DOMAIN objects
      BY <2>1, <2>2 DEF TypeInv, ListsInv, ListInv
    <3>2. CycleOf(live[1]) = cycle
      BY <3>1 DEF SafeInv, NamesInv, Listed, Elements
    <3>3. objects[live[1]] \in Worker_
      BY <2>1, <3>1 DEF TypeInv, ObjectsInv
    <3>4. objects[live[1]].name \in (1 .. MaxCycles) \X (1 .. NumWorkers)
      BY <3>3 DEF Worker_
    <3>5. objects[live[1]].name[1] \in 1 .. MaxCycles
      BY <3>4
    <3>6. QED
      BY <3>2, <3>5 DEF CycleOf
  <2>3. QED
    BY <2>1, <2>2
<1>1. CASE FailsToStart
  BY <1>0, <1>1
     DEF CurrentInv, FailsToStart, Starting, TryBlock, TypeInv, ListsInv
<1>2. CASE ResetsReports
  BY <1>0, <1>2 DEF CurrentInv, ResetsReports, Starting, TryBlock
<1>3. CASE UNCHANGED <<resetAt, failed>>
  <2>1. CASE Construct
    BY <1>3, <2>1 DEF Construct, At, CurrentInv, Starting, TryBlock
  <2>2. CASE KeepsLists
    <3>1. pc' \in {"join", "capture"} /\ ~TakesLive =>
            pc \in {"join", "capture"}
      BY <1>0, ReportKinds
    <3>2. TakesLive => live = << >> /\ pc' # "capture" /\ pc = "wait"
      BY <2>2 DEF KeepsLists, TakesLive
    <3>3. ~(pc' = "join" /\ TakesLive)
      BY <1>0, <3>2, NoEmptyWait DEF TakesLive
    <3>4. QED
      BY <1>3, <2>2, <3>1, <3>2, <3>3 DEF KeepsLists, CurrentInv, TakesLive
  <2>3. CASE OpensCycle
    BY <1>0, <1>3, <2>3 DEF OpensCycle, CurrentInv
  <2>4. CASE PublishesCycle
    BY <1>3, <2>4 DEF PublishesCycle, CurrentInv, Starting, TryBlock
  <2>5. CASE TakesLive
    BY <1>0, <1>3, <2>5, NoEmptyWait
       DEF TakesLive, CurrentInv, Starting, TryBlock
  <2>6. CASE DropsWorkers \/ Leaves
    BY <1>3, <2>6 DEF DropsWorkers, Leaves, CurrentInv, Starting, TryBlock
  <2>7. QED
    BY <1>0, <2>1, <2>2, <2>3, <2>4, <2>5, <2>6, ListKinds
<1>4. QED
  BY <1>0, <1>1, <1>2, <1>3, HistoryKinds

LEMMA RanGrows ==
  ASSUME TypeInv, [Next]_vars, NEW o \in DOMAIN objects
  PROVE  /\ o \in DOMAIN objects'
         /\ objects[o].ran => objects'[o].ran
         /\ objects'[o].ran # objects[o].ran => Launched(o)
<1>1. CASE Launch
  BY <1>1, LaunchMoves DEF Launched
<1>2. CASE Construct
  BY <1>2, ConstructMakes
<1>3. CASE Unwind \/ Join \/ Destroy
  <2>1. CASE Joins("none") \/ Joins("gone")
    BY <2>1, JoinsMoves DEF Moves
  <2>2. QED
    BY <1>3, <2>1, UnwindKinds, JoinKinds, DestroyKinds
<1>4. CASE Elsewhere
  BY <1>4, ElsewhereKeeps
<1>5. ASSUME NEW id \in DOMAIN objects, AnyWorkerStep(id)
      PROVE  o \in DOMAIN objects' /\ objects'[o].ran = objects[o].ran
  BY <1>5, WorkerMoves DEF TypeInv, Moves
<1>6. QED
  BY <1>1, <1>2, <1>3, <1>4, <1>5, StepKinds

\* How start() gets on with what it has launched.
LEMMA LaunchKinds ==
  ASSUME TypeInv, [Next]_vars, pc' \in {"launch", "append", "publish"}
  PROVE  \/ Setup /\ Launches' = 0 /\ workers' = workers
         \/ /\ Launch /\ Launches' = Launches + 1 /\ workers' = workers
            /\ Launches = started /\ pc = "launch"
         \/ /\ pc \in {"launch", "append"} /\ workers' = workers
            /\ pc' # "publish" /\ Launches' = Launches
         \/ /\ pc = "append" /\ pc' = "publish" /\ workers' = workers
            /\ Launches = NumWorkers
         \/ pc = "publish" /\ workers' = workers
<1> USE DEF At, Goto, local, TryBlock, Calls, Launches
<1>0. started \in Nat /\ NumWorkers \in Nat /\ (pc = "setup" => started = 0)
  BY WorkloadAssumption DEF TypeInv, LoopsInv
<1>1. CASE Construct
  BY <1>0, <1>1 DEF Construct
<1>2. CASE Setup
  BY <1>0, <1>2 DEF Setup
<1>3. CASE Launch
  BY <1>0, <1>3 DEF Launch
<1>4. CASE AppendStarted
  BY <1>0, <1>4 DEF AppendStarted
<1>5. CASE StepFails
  BY <1>0, <1>5 DEF StepFails, FailStart
<1>6. CASE Publish
  BY <1>0, <1>6 DEF Publish
<1>7. CASE Unwind
  BY <1>0, <1>7, UnwindKinds DEF Unwind, Joins
<1>8. CASE EnterWait
  BY <1>0, <1>8 DEF EnterWait
<1>9. CASE Join
  BY <1>0, <1>9, JoinKinds DEF Join, Joins
<1>10. CASE Capture
  BY <1>0, <1>10 DEF Capture
<1>11. CASE WriteCsv
  BY <1>0, <1>11 DEF WriteCsv
<1>12. CASE Loop
  BY <1>0, <1>12 DEF Loop, EnterStart
<1>13. CASE CallStart
  BY <1>0, <1>13 DEF CallStart, EnterStart
<1>14. CASE CallWait
  BY <1>0, <1>14 DEF CallWait
<1>15. CASE CallRun
  BY <1>0, <1>15 DEF CallRun
<1>16. CASE Interrupt
  BY <1>0, <1>16 DEF Interrupt, FailStart
<1>17. CASE Handle
  BY <1>0, <1>17 DEF Handle
<1>18. CASE Leave
  BY <1>0, <1>18 DEF Leave
<1>19. CASE Destroy
  BY <1>0, <1>19, DestroyKinds DEF Destroy, Joins
<1>20. CASE StopServer
  BY <1>0, <1>20 DEF StopServer
<1>21. CASE StartServer
  BY <1>0, <1>21 DEF StartServer
<1>22. CASE Aside
  BY <1>0, <1>22, AsideKeeps
<1>23. QED
  BY <1>1, <1>2, <1>3, <1>4, <1>5, <1>6, <1>7, <1>8, <1>9, <1>10, <1>11,
     <1>12, <1>13, <1>14, <1>15, <1>16, <1>17, <1>18, <1>19, <1>20, <1>21,
     <1>22, MainOrAside DEF MainStep

LEMMA RanStep ==
  ASSUME SafeInv, RanInv, [Next]_vars
  PROVE  RanInv'
<1>0. /\ TypeInv /\ DOMAIN workers \subseteq Nat /\ started \in Nat
      /\ Launches \in Nat
      /\ \A k \in DOMAIN workers : workers[k] \in DOMAIN objects
      /\ \A k \in DOMAIN live : live[k] \in DOMAIN objects
  BY DEF SafeInv, TypeInv, ListsInv, ListInv, LoopsInv, Launches
<1>1. ASSUME NEW k \in DOMAIN live'
      PROVE  objects'[live'[k]].ran
  <2>1. live' = live \/ live' = << >> \/ (live' = workers /\ pc = "publish")
    BY <1>0, ListKinds DEF KeepsLists, OpensCycle, PublishesCycle, TakesLive,
       DropsWorkers, Leaves, Construct
  <2>2. CASE live' = live
    <3>1. live[k] \in DOMAIN objects /\ objects[live[k]].ran
      BY <1>0, <1>1, <2>2 DEF RanInv, Elements
    <3>2. QED
      BY <1>0, <2>2, <3>1, RanGrows
  <2>3. CASE live' = workers /\ pc = "publish"
    <3>1. workers[k] \in DOMAIN objects /\ objects[workers[k]].ran
      BY <1>0, <1>1, <2>3 DEF RanInv
    <3>2. QED
      BY <1>0, <2>3, <3>1, RanGrows
  <2>4. QED
    BY <1>1, <2>1, <2>2, <2>3
<1>2. ASSUME pc' \in {"join", "capture"}, NEW k \in DOMAIN workers'
      PROVE  objects'[workers'[k]].ran
  <2>1. CASE TakesLive
    <3>1. k \in DOMAIN live /\ live[k] \in DOMAIN objects /\ objects[live[k]].ran
      BY <1>0, <1>2, <2>1 DEF TakesLive, RanInv, Elements
    <3>2. QED
      BY <1>0, <2>1, <3>1, RanGrows DEF TakesLive
  <2>2. CASE pc \in {"join", "capture"}
    <3>1. workers' = workers
      BY <1>0, <1>2, <2>2, ListKinds DEF KeepsLists, OpensCycle, PublishesCycle,
         TakesLive, DropsWorkers, Leaves, Construct, At
    <3>2. workers[k] \in DOMAIN objects /\ objects[workers[k]].ran
      BY <1>0, <1>2, <2>2, <3>1 DEF RanInv
    <3>3. QED
      BY <1>0, <3>1, <3>2, RanGrows
  <2>3. QED
    BY <1>0, <1>2, <2>1, <2>2, ReportKinds
<1>3. ASSUME pc' \in {"launch", "append", "publish"}, NEW k \in DOMAIN workers',
             pc' # "publish" => k <= Launches'
      PROVE  objects'[workers'[k]].ran
  <2>1. CASE Setup /\ Launches' = 0 /\ workers' = workers
    <3>1. pc' = "launch" /\ k # 0
      BY <1>0, <2>1 DEF Setup, Goto, TypeInv, ListsInv, ListInv
    <3>2. QED
      BY <1>0, <1>3, <2>1, <3>1
  <2>2. CASE /\ Launch /\ Launches' = Launches + 1 /\ workers' = workers
             /\ Launches = started /\ pc = "launch"
    <3>1. pc' = "append"
      BY <2>2 DEF Launch, Goto
    <3>2. CASE k = started + 1
      BY <1>0, <2>2, <3>2, LaunchMoves
    <3>3. CASE k # started + 1
      <4>1. k <= Launches
        BY <1>0, <1>3, <2>2, <3>1, <3>3
      <4>2. workers[k] \in DOMAIN objects /\ objects[workers[k]].ran
        BY <1>0, <1>3, <2>2, <4>1 DEF RanInv
      <4>3. QED
        BY <1>0, <2>2, <4>2, RanGrows
    <3>4. QED
      BY <3>2, <3>3
  <2>3. CASE \/ /\ pc \in {"launch", "append"} /\ workers' = workers
                /\ pc' # "publish" /\ Launches' = Launches
             \/ /\ pc = "append" /\ pc' = "publish" /\ workers' = workers
                /\ Launches = NumWorkers
             \/ pc = "publish" /\ workers' = workers
    <3>1. k <= Launches \/ pc = "publish"
      BY <1>0, <1>3, <2>3 DEF TypeInv, ListsInv, ListInv
    <3>2. workers[k] \in DOMAIN objects /\ objects[workers[k]].ran
      BY <1>0, <1>3, <2>3, <3>1 DEF RanInv
    <3>3. QED
      BY <1>0, <2>3, <3>2, RanGrows
  <2>4. QED
    BY <1>0, <1>3, <2>1, <2>2, <2>3, LaunchKinds
<1>4. QED
  BY <1>1, <1>2, <1>3 DEF RanInv, Elements

\* Who waits is reported, live, or given up by a start that fails.
LEMMA WaitingEnds ==
  ASSUME TypeInv, [Next]_vars, NEW o \in DOMAIN objects, Waits(o),
         Alive', "interrupt" \notin provoked'
  PROVE  \/ StillWaits(o)
         \/ FailsToStart
         \/ Captures /\ workers[done + 1] = o
<1>0. /\ DOMAIN workers = 1 .. Len(workers) /\ Len(workers) \in Nat
      /\ done \in Nat /\ workers \in Seq(Nat)
      /\ \A k \in DOMAIN workers : workers[k] \in Nat
  BY DEF TypeInv, ListsInv, ListInv, LoopsInv
<1>1. PICK k \in DOMAIN workers :
         /\ workers[k] = o
         /\ pc \in Starting \cup {"join"} \/ (pc = "capture" /\ k > done)
  BY DEF Waits
<1> USE DEF At, Goto, local, Starting, TryBlock, Calls
<1>2. CASE Construct
  <2>1. /\ workers' = Append(workers, NextWorker) /\ NextWorker \in Nat
        /\ pc' \in Starting
    BY <1>2 DEF Construct, NextWorker, TypeInv, ObjectsInv
  <2>2. k \in DOMAIN workers' /\ workers'[k] = o
    BY <1>0, <1>1, <2>1
  <2>3. QED
    BY <2>1, <2>2 DEF StillWaits
<1>3. CASE Setup
  BY <1>3, <1>0, <1>1 DEF Setup, StillWaits
<1>4. CASE Launch
  BY <1>4, <1>0, <1>1 DEF Launch, StillWaits
<1>5. CASE AppendStarted
  BY <1>5, <1>0, <1>1 DEF AppendStarted, StillWaits
<1>6. CASE StepFails
  BY <1>6 DEF StepFails, FailStart, FailsToStart, results
<1>7. CASE Publish
  BY <1>7, <1>0, <1>1 DEF Publish, StillWaits
<1>8. CASE Unwind
  BY <1>8, <1>1, UnwindKinds DEF Unwind, Joins
<1>9. CASE EnterWait
  BY <1>9, <1>1 DEF EnterWait
<1>10. CASE Join
  <2>1. pc = "join" /\ workers' = workers
    BY <1>10, JoinKinds DEF Joins
  <2>2. pc' = "join" \/ (pc' = "capture" /\ done' = 0)
    BY <1>10, JoinKinds DEF Joins
  <2>3. k > 0
    BY <1>0
  <2>4. QED
    BY <1>1, <2>1, <2>2, <2>3 DEF StillWaits
<1>11. CASE Capture
  <2>1. pc = "capture" /\ workers' = workers /\ k > done
    BY <1>1, <1>11 DEF Capture
  <2>2. /\ done' = done + 1 /\ pc' = pc /\ done + 1 \in DOMAIN workers
        /\ UNCHANGED <<objects, live, workers, csv>>
        /\ reports' = Append(reports, Report(workers[done + 1]))
    BY <1>0, <1>1, <1>11, <2>1 DEF Capture, Next1
  <2>3. CASE k = done + 1
    BY <1>1, <2>1, <2>2, <2>3 DEF Captures
  <2>4. CASE k > done + 1
    BY <1>0, <1>1, <2>1, <2>2, <2>4 DEF StillWaits
  <2>5. QED
    BY <1>0, <2>1, <2>3, <2>4
<1>12. CASE WriteCsv
  BY <1>12, <1>1 DEF WriteCsv
<1>13. CASE Loop
  BY <1>13, <1>1 DEF Loop, EnterStart
<1>14. CASE CallStart
  BY <1>14, <1>1 DEF CallStart, EnterStart
<1>15. CASE CallWait
  BY <1>15, <1>1 DEF CallWait
<1>16. CASE CallRun
  BY <1>16, <1>1 DEF CallRun
<1>17. CASE Interrupt
  BY <1>17, InterruptIsNoted
<1>18. CASE Handle
  BY <1>18, <1>1 DEF Handle
<1>19. CASE Leave
  BY <1>19, <1>1 DEF Leave
<1>20. CASE Destroy
  BY <1>20, <1>1, DestroyKinds DEF Destroy, Joins
<1>21. CASE StopServer
  BY <1>21, <1>1 DEF StopServer
<1>22. CASE StartServer
  BY <1>22, <1>1 DEF StartServer
<1>23. CASE Aside
  BY <1>0, <1>1, <1>23, AsideKeeps DEF StillWaits, Alive
<1>24. QED
  BY <1>2, <1>3, <1>4, <1>5, <1>6, <1>7, <1>8, <1>9, <1>10, <1>11, <1>12,
     <1>13, <1>14, <1>15, <1>16, <1>17, <1>18, <1>19, <1>20, <1>21, <1>22,
     <1>23, MainOrAside DEF MainStep

LEMMA LiveEnds ==
  ASSUME TypeInv, [Next]_vars, NEW o \in Elements(live), ~leaving'
  PROVE  StillWaits(o) /\ ~leaving
<1>1. live # << >> /\ pc \notin Starting /\ \E k \in DOMAIN live : live[k] = o
  BY DEF Elements, TypeInv, ListsInv, Starting
<1>2. CASE EnterWait
  BY <1>1, <1>2 DEF EnterWait, At, Goto, StillWaits
<1>3. CASE Publish \/ Leave
  BY <1>1, <1>3 DEF Publish, At, Starting, Leave
<1>4. CASE live' = live /\ leaving' = leaving
  BY <1>1, <1>4 DEF StillWaits
<1>5. CASE MainStep
  BY <1>2, <1>3, <1>4, <1>5 DEF MainStep, Construct, Setup, Launch,
     AppendStarted, StepFails, FailStart, Unwind, Join, Capture, WriteCsv, Loop,
     CallStart, CallWait, CallRun, Interrupt, Handle, Destroy, StopServer,
     StartServer
<1>6. QED
  BY <1>4, <1>5, MainOrAside, AsideKeeps

LEMMA LeavingStays ==
  ASSUME TypeInv, [Next]_vars, ~leaving'
  PROVE  ~leaving
<1>1. CASE MainStep
  BY <1>1 DEF MainStep, Construct, Setup, Launch,
     AppendStarted, StepFails, FailStart, Publish, Unwind, EnterWait, Join,
     Capture, WriteCsv, Loop, CallStart, CallWait, CallRun, Interrupt, Handle,
     Leave, Destroy, StopServer, StartServer
<1>2. QED
  BY <1>1, MainOrAside, AsideKeeps

LEMMA DueStep ==
  ASSUME SafeInv, CurrentInv, RanInv, FinalInv, DueInv, [Next]_vars
  PROVE  DueInv'
<1> SUFFICES ASSUME Alive', ~leaving', "interrupt" \notin provoked',
                    NEW o \in DOMAIN objects'
             PROVE  IsReported(o)' <=> IsDue(o)' /\ ~Waits(o)'
  BY DEF DueInv
<1>0. /\ TypeInv /\ Alive /\ ~leaving /\ "interrupt" \notin provoked
      /\ DOMAIN workers = 1 .. Len(workers) /\ Len(workers) \in Nat
      /\ cycle \in Nat /\ resetAt \in Nat
  BY EndIsFinal, LeavingStays, ProvokedStep, WorkloadAssumption
     DEF SafeInv, TypeInv, CountsInv, ListsInv, ListInv, CurrentInv
<1> DEFINE R == \E i \in DOMAIN reports' : reports'[i].id = o
           D == /\ objects'[o].ran /\ objects'[o].name[1] > resetAt'
                /\ objects'[o].name[1] \notin failed'
<1>1. /\ IsReported(o)' <=> R
      /\ IsDue(o)' /\ ~Waits(o)' <=> D /\ ~StillWaits(o)
  BY DEF IsReported, IsDue, Waits, StillWaits, Elements, CycleOf
<1>2. CASE o \notin DOMAIN objects
  <2>1. Construct /\ ~objects'[o].ran
    BY <1>0, <1>2, NewAtRest DEF Object
  <2>2. ~R
    BY <1>2, <2>1 DEF Construct, results, FinalInv
  <2>3. QED
    BY <1>1, <2>1, <2>2
<1>3. CASE o \in DOMAIN objects
  <2>1. /\ IsReported(o) <=> IsDue(o) /\ ~Waits(o)
        /\ objects'[o].name[1] = CycleOf(o) /\ CycleOf(o) <= cycle
        /\ CycleOf(o) \in Nat
    BY <1>0, <1>3, ObjectsStep, NameParts
       DEF DueInv, CycleOf, SafeInv, NamesInv, TypeInv
  <2>2. CASE ResetsReports
    <3>1. ~R
      BY <2>2 DEF ResetsReports
    <3>2. ~D \/ StillWaits(o)
      <4>1. CASE live = << >>
        BY <1>0, <2>1, <2>2, <4>1 DEF ResetsReports
      <4>2. CASE live # << >>
        <5>1. D => CycleOf(o) = cycle
          BY <1>0, <2>1, <2>2, <4>2 DEF ResetsReports
        <5>2. CycleOf(o) = cycle => o \in Elements(live)
          BY <1>3, <4>2 DEF SafeInv, NamesInv
        <5>3. QED
          BY <1>0, <5>1, <5>2, LiveEnds
      <4>3. QED
        BY <4>1, <4>2
    <3>3. QED
      BY <1>1, <3>1, <3>2
  <2>3. CASE FailsToStart
    <3>1. Waits(o) <=> CycleOf(o) = cycle
      BY <1>3, <2>3 DEF FailsToStart, Starting, Waits, Elements, SafeInv,
                        NamesInv, Listed
    <3>2. ~StillWaits(o) /\ o \notin Elements(live)
      BY <1>0, <2>3 DEF FailsToStart, StillWaits, Elements, Starting, TryBlock,
                        TypeInv, ListsInv
    <3>3. R <=> IsReported(o)
      BY <2>3 DEF FailsToStart, IsReported
    <3>4. D <=> IsDue(o) /\ CycleOf(o) # cycle
      BY <2>1, <2>3, <3>2 DEF FailsToStart, IsDue, CycleOf
    <3>5. QED
      BY <1>1, <2>1, <3>1, <3>2, <3>3, <3>4
  <2>4. CASE UNCHANGED <<resetAt, failed>> /\ ~FailsToStart /\ ~ResetsReports
    <3>1. UNCHANGED reports \/ Captures
      <4>1. CallRun => ResetsReports
        BY DEF CallRun, ResetsReports, At, Goto
      <4>2. QED
        BY <1>0, <2>4, <4>1, CaptureKinds
    <3>2. CASE Captures /\ o = workers[done + 1]
      <4>1. Waits(o) /\ o \notin Elements(live)
        BY <1>0, <3>2
           DEF Captures, Waits, TypeInv, ListsInv, LoopsInv, Elements
      <4>2. ~StillWaits(o)
        <5>1. live' = << >>
          BY <1>0, <3>2 DEF Captures, TypeInv, ListsInv
        <5>2. \A k \in DOMAIN workers : workers[k] = o => k = done + 1
          BY <1>0, <3>2 DEF Captures, TypeInv, ListsInv, ListInv
        <5>3. QED
          BY <3>2, <5>1, <5>2 DEF Captures, StillWaits, Starting, TryBlock
      <4>3. R
        <5>1. /\ reports \in Seq([id : Nat, made : Nat])
              /\ reports' = Append(reports, Report(o))
          BY <3>2 DEF Captures, FinalInv
        <5>2. Len(reports) + 1 \in DOMAIN reports'
              /\ reports'[Len(reports) + 1] = Report(o)
          BY <5>1
        <5>3. QED
          BY <5>2 DEF Report
      <4>4. CycleOf(o) = cycle
        BY <3>2 DEF Captures, SafeInv, NamesInv, Listed, Elements
      <4>5. /\ objects[o].ran /\ resetAt < cycle /\ cycle \notin failed
            /\ objects' = objects
        BY <3>2 DEF Captures, RanInv, CurrentInv
      <4>6. D
        BY <1>0, <2>1, <2>4, <4>4, <4>5 DEF CycleOf
      <4>7. QED
        BY <1>1, <4>2, <4>3, <4>6
    <3>3. CASE ~(Captures /\ o = workers[done + 1])
      <4>1. R <=> IsReported(o)
        <5>1. CASE UNCHANGED reports
          BY <5>1 DEF IsReported
        <5>2. CASE Captures
          <6>1. /\ reports \in Seq([id : Nat, made : Nat])
                /\ reports' = Append(reports, Report(workers[done + 1]))
            BY <5>2 DEF Captures, FinalInv
          <6>2. Report(workers[done + 1]).id # o
            BY <3>3, <5>2 DEF Report
          <6>3. /\ DOMAIN reports' = DOMAIN reports \cup {Len(reports) + 1}
                /\ \A i \in DOMAIN reports : reports'[i] = reports[i]
                /\ reports'[Len(reports) + 1] = Report(workers[done + 1])
            BY <6>1
          <6>4. QED
            BY <6>2, <6>3 DEF IsReported
        <5>3. QED
          BY <3>1, <5>1, <5>2
      <4>2. StillWaits(o) <=> o \in Elements(live) \/ Waits(o)
        BY <1>0, <1>3, <2>4, <3>3, WaitingShrinks, WaitingEnds, LiveEnds
      <4>3. CASE objects'[o].ran = objects[o].ran
        <5>1. D <=> /\ objects[o].ran /\ CycleOf(o) > resetAt
                    /\ CycleOf(o) \notin failed
          BY <2>1, <2>4, <4>3
        <5>2. QED
          BY <1>1, <2>1, <4>1, <4>2, <5>1 DEF IsDue
      <4>4. CASE Launched(o)
        <5>1. Waits(o)
          BY <1>0, <4>4, LaunchMoves
             DEF Launched, Launch, At, Waits, Starting, TryBlock
        <5>2. QED
          BY <1>1, <2>1, <4>1, <4>2, <5>1
      <4>5. QED
        BY <1>0, <1>3, <4>3, <4>4, RanGrows
    <3>4. QED
      BY <3>2, <3>3
  <2>5. QED
    BY <1>0, <2>2, <2>3, <2>4, HistoryKinds
<1>4. QED
  BY <1>2, <1>3

ReportsInv == FinalInv /\ CsvInv /\ CurrentInv /\ RanInv /\ DueInv

LEMMA InitReports ==
  ASSUME Init
  PROVE  ReportsInv
<1>1. /\ objects = << >> /\ reports = << >> /\ live = << >> /\ workers = << >>
      /\ csv = {} /\ failed = {} /\ resetAt = 0 /\ cycle = 0 /\ pc = "idle"
  BY DEF Init
<1>2. FinalInv /\ CsvInv /\ RanInv
  BY <1>1 DEF FinalInv, CsvInv, RanInv, Elements
<1>3. CurrentInv
  BY <1>1 DEF CurrentInv, Starting, TryBlock
<1>4. DueInv
  BY <1>1 DEF DueInv
<1>5. QED
  BY <1>2, <1>3, <1>4 DEF ReportsInv

LEMMA AlwaysReports == Spec => []ReportsInv
<1>1. SafeInv /\ ReportsInv /\ [Next]_vars => ReportsInv'
  BY FinalStep, CsvStep, CurrentStep, RanStep, DueStep DEF ReportsInv
<1>2. QED
  BY <1>1, InitReports, AlwaysSafe, PTL DEF Spec

LEMMA ElementInSeq ==
  ASSUME NEW S, NEW list \in Seq(S), NEW i \in DOMAIN list
  PROVE  list[i] \in S
OBVIOUS

LEMMA NarrowedSeq ==
  ASSUME NEW S, NEW T, NEW list \in Seq(S), \A i \in DOMAIN list : list[i] \in T
  PROVE  list \in Seq(T)
OBVIOUS

\* The types of Workload's variables, for any constants.
THEOREM TypesHold == Spec => []TypeOK
<1>1. ASSUME SafeInv, ReportsInv
      PROVE  TypeOK
  <2>0. SafeInv /\ TypeInv /\ FinalInv /\ CsvInv
    BY <1>1 DEF SafeInv, ReportsInv
  <2>1. /\ objects \in Seq([name : (1 .. MaxCycles) \X (1 .. NumWorkers),
                           thread : Places, ran : BOOLEAN, made : Nat])
        /\ cycle \in 0 .. MaxCycles
        /\ pc \in Calls \cup {"idle", "raised", "destroy", "restarting", "end",
                             "terminated"}
        /\ started \in 0 .. NumWorkers /\ done \in 0 .. NumWorkers
        /\ left \in 0 .. Repeat
        /\ collector = NoOne \/ collector \in DOMAIN objects
    BY <2>0 DEF TypeInv, ObjectsInv, Worker_, CountsInv, LoopsInv
  <2>2. ASSUME NEW list, ListInv(list, DOMAIN objects)
        PROVE  /\ list \in Seq(DOMAIN objects)
               /\ \A i, j \in DOMAIN list : list[i] = list[j] => i = j
    BY <2>2 DEF ListInv
  <2>3. ListInv(live, DOMAIN objects) /\ ListInv(workers, DOMAIN objects)
    BY <2>0 DEF TypeInv, ListsInv
  <2>4. \A list \in {live, workers} :
          /\ list \in Seq(DOMAIN objects)
          /\ \A i, j \in DOMAIN list : list[i] = list[j] => i = j
    BY <2>2, <2>3
  <2>5. reports \in Seq([id : DOMAIN objects, made : Nat])
    <3>1. reports \in Seq([id : Nat, made : Nat])
      BY <2>0 DEF FinalInv
    <3>2. ASSUME NEW i \in DOMAIN reports
          PROVE  reports[i] \in [id : DOMAIN objects, made : Nat]
      <4>1. reports[i] \in [id : Nat, made : Nat]
        BY <3>1, ElementInSeq
      <4>2. reports[i].id \in DOMAIN objects
        BY <2>0 DEF FinalInv
      <4>3. QED
        BY <4>1, <4>2
    <3>3. QED
      BY <3>1, <3>2, NarrowedSeq
  <2>6. csv \subseteq [id : DOMAIN objects, cycle : 1 .. MaxCycles]
    <3>1. ASSUME NEW row \in csv
          PROVE  row \in [id : DOMAIN objects, cycle : 1 .. MaxCycles]
      <4>1. /\ row \in [id : Nat, cycle : Nat] /\ row.id \in DOMAIN objects
            /\ row.cycle = objects[row.id].name[1]
        BY <2>0 DEF CsvInv, CycleOf
      <4>2. objects[row.id] \in Worker_
        BY <2>0, <4>1 DEF TypeInv, ObjectsInv
      <4>3. objects[row.id].name \in (1 .. MaxCycles) \X (1 .. NumWorkers)
        BY <4>2 DEF Worker_
      <4>4. row.cycle \in 1 .. MaxCycles
        BY <4>1, <4>3
      <4>5. QED
        BY <4>1, <4>4
    <3>2. QED
      BY <3>1
  <2>7. QED
    BY <2>1, <2>4, <2>5, <2>6 DEF TypeOK
<1>2. SafeInv /\ ReportsInv => TypeOK
  BY <1>1
<1>3. QED
  BY <1>2, AlwaysSafe, AlwaysReports, PTL

\* Statistics are read when the threads have stopped; each worker is reported
\* once; between calls exactly the workers of the finished cycles are; and the
\* files name each worker's own cycle.
THEOREM ReportsAreTruthful == Spec => []ReportsTruthful
<1>1. ASSUME SafeInv, ReportsInv
      PROVE  ReportsTruthful
  <2>1. \A i \in DOMAIN reports :
          /\ Thread(reports[i].id) \in {"none", "gone"}
          /\ reports[i].made = objects[reports[i].id].made
    BY <1>1 DEF ReportsInv, FinalInv
  <2>2. \A i, j \in DOMAIN reports : reports[i].id = reports[j].id => i = j
    BY <1>1 DEF ReportsInv, FinalInv
  <2>3. ASSUME pc = "idle", ~Excepted({"interrupt"})
        PROVE  Reported = Due
    <3>1. Alive /\ ~leaving /\ "interrupt" \notin provoked /\ workers = << >>
      BY <1>1, <2>3 DEF SafeInv, TypeInv, CountsInv, ListsInv, Alive, Excepted
    <3>2. \A o \in DOMAIN objects : IsReported(o) <=> IsDue(o) /\ ~Waits(o)
      BY <1>1, <3>1 DEF ReportsInv, DueInv
    <3>3. \A o \in DOMAIN objects : ~Waits(o)
      BY <3>1 DEF Waits
    <3>4. \A o : o \in Reported <=> IsReported(o)
      BY DEF Reported, IsReported
    <3>5. \A o : IsReported(o) => o \in DOMAIN objects
      BY <1>1 DEF ReportsInv, FinalInv, IsReported
    <3>6. \A o : o \in Due <=> o \in DOMAIN objects /\ IsDue(o)
      BY DEF Due, IsDue, CycleOf
    <3>7. QED
      BY <3>2, <3>3, <3>4, <3>5, <3>6
  <2>4. \A row \in csv : row.cycle = objects[row.id].name[1]
    BY <1>1 DEF ReportsInv, CsvInv, CycleOf
  <2>5. QED
    BY <2>1, <2>2, <2>3, <2>4 DEF ReportsTruthful
<1>2. SafeInv /\ ReportsInv => ReportsTruthful
  BY <1>1
<1>3. QED
  BY <1>2, AlwaysSafe, AlwaysReports, PTL
=============================================================================
