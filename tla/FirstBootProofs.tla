--------------------------- MODULE FirstBootProofs ---------------------------
(* Proofs about FirstBoot.  Where the script stands tells what is on the disk:     *)
(* CrashInv says so for every moment at which a machine may lose its power.       *)
EXTENDS FirstBoot, TLAPS

USE DEF Retries, EnrollmentOver, NothingToDo, NothingToPresent, Stop

(* The marker is written after the capability, and the script never gets past its  *)
(* first step on a machine that has it.                                          *)
CrashInv == \A n \in Node : /\ marker[n] => cap[n] = "whole" /\ pc[n] \in {"idle", "begin", "unregister"}
                            /\ pc[n] = "mark" => cap[n] = "whole"
                            /\ pc[n] = "unregister" => marker[n]
                            /\ unit[n] = "unregistered" => marker[n]

(* On Linux a unit that lets the worker start is that of an enrolled machine, or   *)
(* of one that was not to enroll.                                                *)
WorkerInv == \A n \in Node : Linux(n) /\ config[n].url =>
                /\ unit[n] \in {"exited", "skipped"} => marker[n]
                /\ worker[n] = "running" => marker[n]

IInv == TypeOK /\ CrashInv

LEMMA InitIInv == Init => IInv
  BY FirstBootAssumption, SMT DEF Init, IInv, TypeOK, CrashInv

-----------------------------------------------------------------------------
(* The steps of the machine's services keep the invariant. *)
LEMMA BootKeepsIInv == ASSUME IInv, NEW n \in Node, Boot(n)
                       PROVE  IInv'
<1> USE FirstBootAssumption DEF IInv, TypeOK, disk, net, env
<1>1. CASE StartUnit(n)
  <2>1. TypeOK'
    <3>1. /\ unit' \in [Node -> {"off", "running", "waiting", "exited", "skipped", "failed", "unregistered"}]
          /\ pc' \in [Node -> {"idle", "begin", "nodeId", "post", "await", "open", "write", "mark", "unregister"}]
      <4>1. CASE Linux(n) /\ marker[n]
        BY <1>1, <4>1 DEF StartUnit
      <4>2. CASE ~(Linux(n) /\ marker[n])
        BY <1>1, <4>2 DEF StartUnit
      <4> QED BY <4>1, <4>2
    <3>2. UNCHANGED <<worker, disk, net, env>>
      BY <1>1 DEF StartUnit
    <3> QED BY <3>1, <3>2, Zenon
  <2>2. CrashInv' BY <1>1, SMT DEF StartUnit, CrashInv
  <2> QED BY <2>1, <2>2
<1>2. CASE StartWorker(n)
  <2>1. worker' \in [Node -> {"queued", "running", "cancelled"}]
    BY <1>2 DEF StartWorker
  <2>2. UNCHANGED <<unit, pc, disk, net, env>>
    BY <1>2 DEF StartWorker
  <2>3. TypeOK' BY <2>1, <2>2, Zenon
  <2>4. CrashInv' BY <2>2 DEF CrashInv
  <2> QED BY <2>3, <2>4
<1> QED BY <1>1, <1>2 DEF Boot

(* So does the end of the script, wherever it ends and whether or not it leaves the  *)
(* marker there.                                                                 *)
LEMMA ExitKeepsIInv ==
    ASSUME IInv, NEW n \in Node, NEW ok \in BOOLEAN, Exit(n, ok),
           marker' = marker \/ (pc[n] = "mark" /\ marker' = [marker EXCEPT ![n] = TRUE]),
           UNCHANGED <<cap, net, platform, config, nodeUp, reboots>>,
           delegateUp' \in BOOLEAN, faults' \in 0 .. MaxFaults
    PROVE  IInv'
  <1> USE FirstBootAssumption DEF IInv, TypeOK, net, Exit, WorkerAfterExit
  <1>1. /\ marker' \in [Node -> BOOLEAN]
        /\ pc' = [pc EXCEPT ![n] = "idle"]
        /\ pc' \in [Node -> {"idle", "begin", "nodeId", "post", "await", "open", "write", "mark", "unregister"}]
    OBVIOUS
  <1>2. worker' = worker \/ worker' = [worker EXCEPT ![n] = "cancelled"]
    BY worker' = [worker EXCEPT ![n] = worker[n]] => worker' = worker
  <1>3. worker' \in [Node -> {"queued", "running", "cancelled"}]
    BY <1>2
  <1>4. \E u \in {"waiting", "exited", "failed"} : unit' = [unit EXCEPT ![n] = u]
    OBVIOUS
  <1>5. unit' \in [Node -> {"off", "running", "waiting", "exited", "skipped", "failed", "unregistered"}]
    BY <1>4
  <1>6. TypeOK' BY <1>1, <1>3, <1>5, Zenon
  <1>7. CrashInv' BY <1>1, <1>4, SMT DEF CrashInv
  <1> QED BY <1>6, <1>7

(* The steps of the script before it has an answer, and those after it. *)
LEMMA AskingKeepsIInv ==
    ASSUME IInv, NEW n \in Node,
           Begin(n) \/ NodeIdRead(n) \/ NodeIdTimeout(n) \/ Post(n) \/ Unreachable(n) \/ NoResponse(n)
    PROVE  IInv'
  <1> USE DEF disk, net, env
  <1>0. delegateUp \in BOOLEAN /\ faults \in 0 .. MaxFaults BY DEF IInv, TypeOK
  <1>1. CASE Begin(n)
    <2>1. CASE \E ok \in BOOLEAN : Exit(n, ok)
      BY <1>0, <1>1, <2>1, ExitKeepsIInv DEF Begin
    <2>2. CASE ~marker[n] /\ Go(n, "begin", "nodeId")
      BY <1>1, <2>2, FirstBootAssumption, SMT DEF Begin, Go, IInv, TypeOK, CrashInv
    <2> QED BY <1>1, <2>1, <2>2 DEF Begin
  <1>2. CASE NodeIdRead(n)
    BY <1>2, FirstBootAssumption, SMT DEF NodeIdRead, Go, IInv, TypeOK, CrashInv
  <1>3. CASE NodeIdTimeout(n)
    BY <1>0, <1>3, ExitKeepsIInv DEF NodeIdTimeout
  <1>4. CASE Post(n)
    BY <1>4, FirstBootAssumption, SMT DEF Post, Go, IInv, TypeOK, CrashInv
  <1>5. CASE Unreachable(n)
    BY <1>0, <1>5, ExitKeepsIInv DEF Unreachable
  <1>6. CASE NoResponse(n)
    BY <1>0, <1>6, ExitKeepsIInv DEF NoResponse
  <1> QED BY <1>1, <1>2, <1>3, <1>4, <1>5, <1>6

LEMMA StoringKeepsIInv ==
    ASSUME IInv, NEW n \in Node,
           Response(n) \/ OpenCap(n) \/ WriteCap(n) \/ Mark(n) \/ Unregister(n)
    PROVE  IInv'
  <1> USE FirstBootAssumption DEF IInv, TypeOK, CrashInv, Go, disk, net, env
  <1>1. CASE Response(n) BY <1>1, SMT DEF Response
  <1>2. CASE OpenCap(n) BY <1>2, SMT DEF OpenCap
  <1>3. CASE WriteCap(n) BY <1>3, SMT DEF WriteCap
  <1>4. CASE Mark(n)
    <2>1. CASE Linux(n)
      BY <1>4, <2>1, ExitKeepsIInv DEF Mark
    <2>2. CASE ~Linux(n)
      <3>1. TypeOK' BY <1>4, <2>2, SMT DEF Mark
      <3>2. CrashInv' BY <1>4, <2>2, SMT DEF Mark
      <3> QED BY <3>1, <3>2
    <2> QED BY <2>1, <2>2
  <1>5. CASE Unregister(n) BY <1>5, SMT DEF Unregister
  <1> QED BY <1>1, <1>2, <1>3, <1>4, <1>5

-----------------------------------------------------------------------------
(* So do the delegate and the environment, a reboot above all. *)
LEMMA ServeKeepsIInv == ASSUME IInv, NEW n \in Node, Serve(n)
                        PROVE  IInv'
  BY FirstBootAssumption, SMT DEF Serve, IInv, TypeOK, CrashInv, disk, env

LEMMA EnvironmentKeepsIInv ==
    ASSUME IInv, NEW n \in Node,
           NodeComesUp(n) \/ Misfortune(n)
    PROVE  IInv'
  <1>1. CASE NodeComesUp(n)
    BY <1>1, SMT DEF NodeComesUp, IInv, TypeOK, CrashInv, disk, net
  <1>2. CASE LoseReply(n) \/ DiskFull(n)
    <2>1. delegateUp' \in BOOLEAN
      BY <1>2, Zenon DEF LoseReply, DiskFull, IInv, TypeOK
    <2>2. Fault
      BY <1>2, Zenon DEF LoseReply, DiskFull
    <2>3. faults \in 0 .. MaxFaults
      BY Zenon DEF IInv, TypeOK
    <2>4. faults' \in 0 .. MaxFaults
      BY <2>2, <2>3, FirstBootAssumption, SMT DEF Fault
    <2> QED BY <1>2, <2>1, <2>4, ExitKeepsIInv DEF LoseReply, DiskFull, Fault, disk
  <1>3. CASE Reboot(n)
    BY <1>3, FirstBootAssumption, SMT DEF Reboot, IInv, TypeOK, CrashInv, disk
  <1> QED BY <1>1, <1>2, <1>3 DEF Misfortune

LEMMA NextKeepsIInv == IInv /\ [Next]_vars => IInv'
<1> SUFFICES ASSUME IInv, [Next]_vars PROVE IInv' OBVIOUS
<1>1. CASE UNCHANGED vars
  BY <1>1, SMT DEF vars, IInv, TypeOK, CrashInv
<1>2. ASSUME NEW n \in Node, Boot(n) PROVE IInv'
  BY <1>2, BootKeepsIInv
<1>3. ASSUME NEW n \in Node, Script(n) PROVE IInv'
  BY <1>3, AskingKeepsIInv, StoringKeepsIInv DEF Script
<1>4. ASSUME NEW n \in Node, Serve(n) PROVE IInv'
  BY <1>4, ServeKeepsIInv
<1>5. ASSUME NEW n \in Node, NodeComesUp(n) \/ Misfortune(n) PROVE IInv'
  BY <1>5, EnvironmentKeepsIInv
<1>6. CASE DelegateReturns
  BY <1>6, SMT DEF DelegateReturns, IInv, TypeOK, CrashInv, disk, net
<1>7. CASE DelegateGoes
  <2>1. faults' \in 0 .. MaxFaults
    BY <1>7, FirstBootAssumption, SMT DEF DelegateGoes, Fault, IInv, TypeOK
  <2>2. \A m \in Node : wire'[m] \subseteq 1 .. attempt'[m]
    BY <1>7, SMT DEF DelegateGoes, IInv, TypeOK
  <2>3. /\ UNCHANGED <<platform, config, marker, cap, unit, worker, pc, attempt,
                       answer, nodeUp, issued, reboots>>
        /\ delegateUp' \in BOOLEAN
    BY <1>7 DEF DelegateGoes, Fault, disk
  <2>4. TypeOK' BY <2>1, <2>2, <2>3, Zenon DEF IInv, TypeOK
  <2>5. CrashInv' BY <2>3, SMT DEF IInv, CrashInv
  <2> QED BY <2>4, <2>5 DEF IInv
<1> QED BY <1>1, <1>2, <1>3, <1>4, <1>5, <1>6, <1>7 DEF Next
-----------------------------------------------------------------------------
(* What lets the worker start is kept too.  The script ends well only on an enrolled *)
(* machine or one that was not to enroll.                                         *)
LEMMA ExitKeepsWorkerInv ==
    ASSUME IInv, WorkerInv, NEW n \in Node, NEW ok \in BOOLEAN, Exit(n, ok),
           UNCHANGED <<platform, config>>,
           \A m \in Node : marker[m] => marker'[m],
           ok /\ Linux(n) /\ config[n].url => marker'[n]
    PROVE  WorkerInv'
  BY SMT DEF Exit, WorkerAfterExit, WorkerInv, Linux, IInv, TypeOK

LEMMA StepKeepsWorkerInv ==
    ASSUME IInv, WorkerInv, NEW n \in Node,
           Boot(n) \/ Script(n) \/ Serve(n) \/ NodeComesUp(n) \/ Misfortune(n)
    PROVE  WorkerInv'
<1> USE DEF disk, net, env
<1>1. CASE Boot(n)
  BY <1>1, SMT DEF Boot, StartUnit, StartWorker, WorkerInv, Linux, IInv, TypeOK
<1>2. CASE Begin(n)
  <2>1. CASE marker[n] \/ ~config[n].url
    BY <1>2, <2>1, ExitKeepsWorkerInv DEF Begin
  <2>2. CASE ~(marker[n] \/ ~config[n].url) /\ NothingToPresent(n)
    BY <1>2, <2>2, ExitKeepsWorkerInv DEF Begin
  <2>3. CASE UNCHANGED <<unit, worker>>
    BY <1>2, <2>3 DEF Begin, WorkerInv, Linux
  <2> QED BY <1>2, <2>1, <2>2, <2>3 DEF Begin, Go
<1>3. CASE Mark(n)
  <2>1. /\ \A m \in Node : marker[m] => marker'[m]
        /\ marker'[n]
    BY <1>3 DEF Mark, IInv, TypeOK
  <2>2. CASE Exit(n, TRUE)
    BY <1>3, <2>1, <2>2, ExitKeepsWorkerInv DEF Mark
  <2>3. CASE UNCHANGED <<unit, worker>>
    BY <1>3, <2>1, <2>3 DEF Mark, WorkerInv, Linux
  <2> QED BY <1>3, <2>2, <2>3 DEF Mark, Go
<1>4. CASE NodeIdTimeout(n) \/ Unreachable(n) \/ NoResponse(n) \/ LoseReply(n)
  BY <1>4, ExitKeepsWorkerInv
     DEF NodeIdTimeout, Unreachable, NoResponse, LoseReply, Fault
<1>5. CASE NodeIdRead(n) \/ Post(n) \/ Response(n) \/ OpenCap(n) \/ WriteCap(n) \/ Serve(n)
  BY <1>5 DEF NodeIdRead, Post, Response, OpenCap, WriteCap, Serve, Go, WorkerInv, Linux
<1>6. CASE NodeComesUp(n)
  BY <1>6 DEF NodeComesUp, WorkerInv, Linux
<1>7. CASE Unregister(n) \/ Reboot(n)
  BY <1>7, SMT DEF Unregister, Reboot, WorkerInv, Linux, IInv, TypeOK
<1>8. CASE DiskFull(n)
  <2>1. \A m \in Node : marker[m] => marker'[m]
    BY <1>8 DEF DiskFull, IInv, TypeOK
  <2> QED BY <1>8, <2>1, ExitKeepsWorkerInv DEF DiskFull, Fault
<1> QED BY <1>1, <1>2, <1>3, <1>4, <1>5, <1>6, <1>7, <1>8 DEF Script, Misfortune

LEMMA NextKeepsWorkerInv == IInv /\ WorkerInv /\ [Next]_vars => WorkerInv'
<1> SUFFICES ASSUME IInv, WorkerInv, [Next]_vars PROVE WorkerInv' OBVIOUS
<1>1. CASE UNCHANGED vars
  BY <1>1 DEF vars, WorkerInv, Linux
<1>2. CASE DelegateReturns \/ DelegateGoes
  BY <1>2 DEF DelegateReturns, DelegateGoes, Fault, disk, net, WorkerInv, Linux
<1> QED BY <1>1, <1>2, StepKeepsWorkerInv DEF Next

(* The script of an enrolled machine never gets past its first step: no step unmarks *)
(* the machine or sends a POST for it.                                            *)
LEMMA MarkedStaysQuiet ==
    ASSUME IInv, [Next]_vars, NEW n \in Node, marker[n]
    PROVE  marker'[n] /\ attempt'[n] = attempt[n]
<1> USE DEF disk, net, env
<1>1. pc[n] \notin {"nodeId", "post", "await", "open", "write", "mark"}
  BY SMT DEF IInv, CrashInv
<1>2. ASSUME NEW m \in Node, Post(m) PROVE marker'[n] /\ attempt'[n] = attempt[n]
  <2>1. m # n BY <1>1, <1>2, SMT DEF Post, Go
  <2>2. marker' = marker BY <1>2 DEF Post
  <2>3. attempt' = [attempt EXCEPT ![m] = @ + 1] /\ attempt \in [Node -> Nat]
    BY <1>2 DEF Post, IInv, TypeOK
  <2> QED BY <2>1, <2>2, <2>3
<1>3. ASSUME NEW m \in Node, Mark(m) \/ DiskFull(m) PROVE marker'[n] /\ attempt'[n] = attempt[n]
  <2>1. marker' = marker \/ marker' = [marker EXCEPT ![m] = TRUE]
    BY <1>3 DEF Mark, DiskFull
  <2>2. attempt' = attempt BY <1>3 DEF Mark, DiskFull
  <2> QED BY <2>1, <2>2 DEF IInv, TypeOK
<1>4. CASE UNCHANGED <<marker, attempt>>
  BY <1>4
<1>5. ASSUME NEW m \in Node, Script(m), ~Post(m), ~Mark(m) PROVE UNCHANGED <<marker, attempt>>
  BY <1>5 DEF Script, Begin, NodeIdRead, NodeIdTimeout, Unreachable, NoResponse, Response,
              OpenCap, WriteCap, Unregister
<1>6. ASSUME NEW m \in Node, Boot(m) \/ Serve(m) \/ NodeComesUp(m) \/ Misfortune(m), ~DiskFull(m)
      PROVE  UNCHANGED <<marker, attempt>>
  BY <1>6 DEF Boot, StartUnit, StartWorker, Serve, NodeComesUp, Misfortune, LoseReply, Reboot
<1>7. CASE DelegateReturns \/ DelegateGoes \/ UNCHANGED vars
  BY <1>4, <1>7 DEF DelegateReturns, DelegateGoes, vars
<1> QED BY <1>2, <1>3, <1>4, <1>5, <1>6, <1>7 DEF Next

-----------------------------------------------------------------------------
(* Every value has its type at every moment. *)
THEOREM TypeCorrect == Spec => []TypeOK
  <1>1. IInv => TypeOK BY DEF IInv
  <1> QED BY InitIInv, NextKeepsIInv, <1>1, PTL DEF Spec

(* The marker ends the retries for good, and wherever the script was cut off it is  *)
(* never on a disk that lacks the whole capability.                              *)
THEOREM MarkerIsTrue == Spec => []MarkerMeansCap
  <1>1. IInv => MarkerMeansCap BY DEF IInv, CrashInv, MarkerMeansCap
  <1> QED BY InitIInv, NextKeepsIInv, <1>1, PTL DEF Spec

(* A startup task that is gone has done its work: no crash between the steps of the *)
(* script takes the task from a machine that still needs it.                     *)
THEOREM TaskGoesLast == Spec => []NoTaskMeansEnrolled
  <1>1. IInv => NoTaskMeansEnrolled BY DEF IInv, CrashInv, NoTaskMeansEnrolled
  <1> QED BY InitIInv, NextKeepsIInv, <1>1, PTL DEF Spec

(* Once enrolled, always enrolled, and no reboot makes the machine ask the delegate *)
(* again.                                                                        *)
THEOREM AsksOnlyUntilEnrolled == Spec => EnrolledNeverAsksAgain
  <1>1. IInv /\ [Next]_vars =>
          [\A n \in Node : marker[n] => marker'[n] /\ attempt'[n] = attempt[n]]_vars
    BY MarkedStaysQuiet
  <1> QED BY InitIInv, NextKeepsIInv, <1>1, PTL DEF Spec, EnrolledNeverAsksAgain

(* Under systemd the worker of a machine that was to enroll runs only on the marker, *)
(* in whatever boot and after whatever failures.                                  *)
THEOREM WorkerWaits == Spec => []WorkerOnlyEnrolled
  <1>1. Init => WorkerInv BY SMT DEF Init, WorkerInv
  <1>2. WorkerInv => WorkerOnlyEnrolled BY DEF WorkerInv, WorkerOnlyEnrolled
  <1> QED BY InitIInv, NextKeepsIInv, NextKeepsWorkerInv, <1>1, <1>2, PTL DEF Spec
=============================================================================
