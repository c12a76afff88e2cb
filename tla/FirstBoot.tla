------------------------------ MODULE FirstBoot ------------------------------
(* First-boot enrollment of fleet machines and the delegate at the other end of    *)
(* its POST.  On Linux systemd starts ce-enroll.sh, retries it and holds the       *)
(* inference worker back for it; on Windows a startup task runs the same steps     *)
(* (Invoke-CeEnroll.ps1) once in each boot and unregisters itself at the end.      *)
(* Machines reboot at any step, the delegate goes away, replies are lost, disks    *)
(* fill up.  The delegate is reduced to what Enrollment shows of it: a request     *)
(* with the right secret (and the fresh nonce every attempt draws) is answered     *)
(* with a new capability.                                                        *)
EXTENDS Naturals

CONSTANTS Node, Platforms,   \* machines; the systems among them
          Configs,           \* the enroll.env files they may have
          MaxPosts,          \* bound on POSTs of each machine
          MaxReboots,        \* bound on reboots of each machine
          MaxFaults          \* bound on outages, lost replies and full disks

ASSUME FirstBootAssumption ==
    /\ Platforms \subseteq {"linux", "windows"}
    /\ Configs \subseteq [url : BOOLEAN, secret : {"good", "bad", "none"}, token : BOOLEAN]
    /\ MaxPosts \in Nat /\ MaxReboots \in Nat /\ MaxFaults \in Nat

VARIABLES platform,
          config,      \* enroll.env
          marker,      \* whether <data_dir>/enrolled exists
          cap,         \* wallet/fleet-working.cap: "absent", "empty" or "whole"
          unit,        \* ce-enroll: the service, or the startup task
          worker,      \* the inference worker's service
          pc,          \* the script's next step
          attempt,     \* how many POSTs the machine ever sent
          wire,        \* the POSTs that have not reached the delegate's handler
          answer,      \* what came back for the current POST
          nodeUp,      \* whether the local CE node answers /status
          delegateUp,
          issued,      \* working capabilities issued for each machine
          reboots, faults

disk == <<marker, cap>>
net == <<attempt, wire, answer, issued>>
env == <<platform, config, nodeUp, delegateUp, reboots, faults>>
vars == <<platform, config, marker, cap, unit, worker, pc, attempt, wire, answer,
          nodeUp, delegateUp, issued, reboots, faults>>

TypeOK ==
    /\ platform \in [Node -> Platforms]
    /\ config \in [Node -> Configs] /\ marker \in [Node -> BOOLEAN]
    /\ cap \in [Node -> {"absent", "empty", "whole"}]
    /\ unit \in [Node -> {"off", "running", "waiting", "exited", "skipped", "failed", "unregistered"}]
    /\ worker \in [Node -> {"queued", "running", "cancelled"}]
    /\ pc \in [Node -> {"idle", "begin", "nodeId", "post", "await", "open", "write", "mark", "unregister"}]
    /\ attempt \in [Node -> Nat] /\ issued \in [Node -> Nat]
    /\ \A n \in Node : wire[n] \subseteq 1 .. attempt[n]
    /\ answer \in [Node -> {"none", "cap", "refused"}]
    /\ nodeUp \in [Node -> BOOLEAN] /\ delegateUp \in BOOLEAN
    /\ reboots \in [Node -> 0 .. MaxReboots] /\ faults \in 0 .. MaxFaults

(* PRESENTED_SECRET is the pre-minted token when there is one, and do_enroll       *)
(* compares whatever is presented with the bootstrap secret.                      *)
Authenticates(c) == c.secret = "good" /\ ~c.token

-----------------------------------------------------------------------------
(* systemd and the task scheduler                                                *)
Linux(n) == platform[n] = "linux"

(* Requires=: a start job that waits for the enrollment unit fails with it. *)
WorkerAfterExit(n, ok) ==
    worker' = [worker EXCEPT ![n] = IF Linux(n) /\ ~ok /\ @ = "queued" THEN "cancelled" ELSE @]

(* Restart=on-failure, for ever: StartLimitIntervalSec stands in [Service], where  *)
(* systemd does not read it, and within the default interval of 10 s starts that are *)
(* RestartSec=10 apart never add up to StartLimitBurst.                           *)
Retries(n) == Linux(n)

Exit(n, ok) ==
    /\ pc' = [pc EXCEPT ![n] = "idle"]
    /\ unit' = [unit EXCEPT ![n] = IF ok THEN "exited"
                                   ELSE IF Retries(n) THEN "waiting"
                                   ELSE "failed"]
    /\ WorkerAfterExit(n, ok)

(* At boot, and under systemd again RestartSec after a failure, unless the marker  *)
(* exists.                                                                       *)
StartUnit(n) == /\ unit[n] \in {"off", "waiting"}
                /\ IF Linux(n) /\ marker[n]
                   THEN /\ unit' = [unit EXCEPT ![n] = "skipped"]
                        /\ UNCHANGED pc
                   ELSE /\ unit' = [unit EXCEPT ![n] = "running"]
                        /\ pc' = [pc EXCEPT ![n] = "begin"]
                /\ UNCHANGED <<worker, disk, net, env>>

EnrollmentExitedBug(n) == unit[n] = "exited"         \* a skipped unit does not count

EnrollmentOver(n) == unit[n] \in {"exited", "skipped"}

(* After= and Requires=ce-enroll.service; on Windows it needs the node alone. *)
StartWorker(n) == /\ worker[n] = "queued"
                  /\ Linux(n) => EnrollmentOver(n)
                  /\ worker' = [worker EXCEPT ![n] = "running"]
                  /\ UNCHANGED <<unit, pc, disk, net, env>>

-----------------------------------------------------------------------------
(* The script, step by step.                                                     *)
Go(n, from, to) == pc[n] = from /\ pc' = [pc EXCEPT ![n] = to] /\ UNCHANGED <<unit, worker>>

NothingToDoTrustsCapBug(n) == marker[n] \/ cap[n] # "absent" \/ ~config[n].url

NothingToDo(n) == marker[n] \/ ~config[n].url

(* ce-enroll.sh asks for the secret itself, the Windows script for what it presents. *)
NothingToPresent(n) == config[n].secret = "none" /\ (Linux(n) \/ ~config[n].token)

Begin(n) ==
    /\ pc[n] = "begin"
    /\ IF NothingToDo(n) THEN Exit(n, TRUE)
       ELSE IF NothingToPresent(n) THEN Exit(n, FALSE)
       ELSE Go(n, "begin", "nodeId")
    /\ UNCHANGED <<disk, net, env>>

NodeIdReadMarksBug(n) ==                 \* "has been tried" taken for "has enrolled"
    /\ nodeUp[n] /\ Go(n, "nodeId", "post")
    /\ marker' = [marker EXCEPT ![n] = TRUE]
    /\ UNCHANGED <<cap, net, env>>

NodeIdRead(n) == nodeUp[n] /\ Go(n, "nodeId", "post") /\ UNCHANGED <<disk, net, env>>

(* The script ends where it is. *)
Stop(n, at, ok) == pc[n] = at /\ Exit(n, ok) /\ UNCHANGED <<disk, net, env>>

NodeIdTimeout(n) == ~nodeUp[n] /\ Stop(n, "nodeId", FALSE)

PostNamesLastBug(n) == /\ Go(n, "post", "await")      \* the nonce of the POST before
                       /\ delegateUp /\ attempt[n] < MaxPosts
                       /\ attempt' = [attempt EXCEPT ![n] = @ + 1]
                       /\ wire' = [wire EXCEPT ![n] = @ \union {attempt[n]}]
                       /\ answer' = [answer EXCEPT ![n] = "none"]
                       /\ UNCHANGED <<issued, disk, env>>

(* A machine that is refused would ask for ever: MaxPosts bounds it. *)
Post(n) == /\ Go(n, "post", "await")
           /\ delegateUp /\ attempt[n] < MaxPosts
           /\ attempt' = [attempt EXCEPT ![n] = @ + 1]
           /\ wire' = [wire EXCEPT ![n] = @ \union {attempt[n] + 1}]
           /\ answer' = [answer EXCEPT ![n] = "none"]
           /\ UNCHANGED <<issued, disk, env>>

Unreachable(n) == ~delegateUp /\ Stop(n, "post", FALSE)

(* The connection is gone: the delegate is, or has forgotten the POST. *)
Broken(n) == answer[n] = "none" /\ (~delegateUp \/ attempt[n] \notin wire[n])

NoResponseExitsZeroBug(n) == (answer[n] = "refused" \/ Broken(n)) /\ Stop(n, "await", TRUE)

(* curl -f prints nothing for a refusal, as for a connection that breaks. *)
NoResponse(n) == (answer[n] = "refused" \/ Broken(n)) /\ Stop(n, "await", FALSE)

ResponseMarksFirstBug(n) == /\ answer[n] = "cap"           \* the marker before the capability
                            /\ Go(n, "await", "open")
                            /\ marker' = [marker EXCEPT ![n] = TRUE]
                            /\ UNCHANGED <<cap, net, env>>

Response(n) == answer[n] = "cap" /\ Go(n, "await", "open") /\ UNCHANGED <<disk, net, env>>

(* `printf > file` and Set-Content empty the file before they write it. *)
OpenCapUnregistersBug(n) == /\ pc[n] = "open"              \* unregistered on the answer
                            /\ pc' = [pc EXCEPT ![n] = "write"]
                            /\ unit' = [unit EXCEPT ![n] = IF Linux(n) THEN @ ELSE "unregistered"]
                            /\ cap' = [cap EXCEPT ![n] = "empty"]
                            /\ UNCHANGED <<worker, marker, net, env>>

OpenCap(n) == /\ Go(n, "open", "write")
              /\ cap' = [cap EXCEPT ![n] = "empty"]
              /\ UNCHANGED <<marker, net, env>>

WriteCap(n) == /\ Go(n, "write", "mark")
               /\ cap' = [cap EXCEPT ![n] = "whole"]
               /\ UNCHANGED <<marker, net, env>>

Mark(n) == /\ pc[n] = "mark"
           /\ marker' = [marker EXCEPT ![n] = TRUE]
           /\ IF Linux(n) THEN Exit(n, TRUE) ELSE Go(n, "mark", "unregister")
           /\ UNCHANGED <<cap, net, env>>

(* The task is gone for good, not only for this boot. *)
Unregister(n) == /\ pc[n] = "unregister"
                 /\ pc' = [pc EXCEPT ![n] = "idle"]
                 /\ unit' = [unit EXCEPT ![n] = "unregistered"]
                 /\ UNCHANGED <<worker, disk, net, env>>

-----------------------------------------------------------------------------
(* The delegate, which may handle a POST long after the machine gave up on it.    *)
Serve(n) == \E k \in wire[n] :
    /\ delegateUp
    /\ wire' = [wire EXCEPT ![n] = @ \ {k}]
    /\ issued' = [issued EXCEPT ![n] = IF Authenticates(config[n]) THEN @ + 1 ELSE @]
    /\ answer' = [answer EXCEPT ![n] =
                    IF pc[n] = "await" /\ k = attempt[n]
                    THEN IF Authenticates(config[n]) THEN "cap" ELSE "refused"
                    ELSE @]
    /\ UNCHANGED <<attempt, unit, worker, pc, disk, env>>

(* The environment.                                                              *)
NodeComesUp(n) == /\ ~nodeUp[n]
                  /\ nodeUp' = [nodeUp EXCEPT ![n] = TRUE]
                  /\ UNCHANGED <<platform, config, delegateUp, reboots, faults,
                                 unit, worker, pc, disk, net>>

DelegateReturns == /\ ~delegateUp
                   /\ delegateUp' = TRUE
                   /\ UNCHANGED <<platform, config, nodeUp, reboots, faults,
                                  unit, worker, pc, disk, net>>

Fault == faults < MaxFaults /\ faults' = faults + 1 /\ UNCHANGED <<platform, config, nodeUp, reboots>>

(* Cut off, or stopped with the POSTs it had not handled. *)
DelegateGoes == /\ Fault /\ delegateUp
                /\ delegateUp' = FALSE
                /\ wire' \in {wire, [n \in Node |-> {}]}
                /\ UNCHANGED <<unit, worker, pc, disk, attempt, answer, issued>>

(* The connection breaks while the script waits, whatever the delegate has done. *)
LoseReply(n) == /\ Fault /\ pc[n] = "await"
                /\ Exit(n, FALSE)
                /\ UNCHANGED <<delegateUp, disk, net>>

(* set -e, and "Stop", end the script when a file cannot be opened or written: the   *)
(* marker's is there as soon as it is opened.                                     *)
DiskFull(n) == /\ Fault
               /\ \/ pc[n] \in {"open", "write"} /\ UNCHANGED marker
                  \/ pc[n] = "mark" /\ marker' \in {marker, [marker EXCEPT ![n] = TRUE]}
               /\ Exit(n, FALSE)
               /\ UNCHANGED <<delegateUp, cap, net>>

(* Power-cycle: the files stay, the rest starts over. *)
Reboot(n) == /\ reboots[n] < MaxReboots
             /\ reboots' = [reboots EXCEPT ![n] = @ + 1]
             /\ unit' = [unit EXCEPT ![n] = IF @ = "unregistered" THEN @ ELSE "off"]
             /\ worker' = [worker EXCEPT ![n] = "queued"]
             /\ pc' = [pc EXCEPT ![n] = "idle"]
             /\ answer' = [answer EXCEPT ![n] = "none"]
             /\ nodeUp' = [nodeUp EXCEPT ![n] = FALSE]
             /\ UNCHANGED <<platform, config, delegateUp, faults, disk, attempt, wire, issued>>

Init == /\ platform \in [Node -> Platforms] /\ config \in [Node -> Configs]
        /\ marker = [n \in Node |-> FALSE] /\ cap = [n \in Node |-> "absent"]
        /\ unit = [n \in Node |-> "off"]
        /\ worker = [n \in Node |-> "queued"] /\ pc = [n \in Node |-> "idle"]
        /\ attempt = [n \in Node |-> 0] /\ wire = [n \in Node |-> {}]
        /\ answer = [n \in Node |-> "none"] /\ issued = [n \in Node |-> 0]
        /\ nodeUp = [n \in Node |-> FALSE] /\ delegateUp = TRUE
        /\ reboots = [n \in Node |-> 0] /\ faults = 0

Script(n) == \/ Begin(n) \/ NodeIdRead(n) \/ NodeIdTimeout(n)
             \/ Post(n) \/ Unreachable(n) \/ NoResponse(n) \/ Response(n)
             \/ OpenCap(n) \/ WriteCap(n) \/ Mark(n) \/ Unregister(n)

Boot(n) == StartUnit(n) \/ StartWorker(n)

Misfortune(n) == LoseReply(n) \/ DiskFull(n) \/ Reboot(n)

Next == \/ \E n \in Node : Boot(n) \/ Script(n) \/ Serve(n) \/ NodeComesUp(n) \/ Misfortune(n)
        \/ DelegateReturns \/ DelegateGoes

(* The machine, the script and the delegate keep running and the delegate comes    *)
(* back; nothing forces a reboot or a fault.                                      *)
Fairness == /\ WF_vars(DelegateReturns)
            /\ \A n \in Node : /\ WF_vars(StartUnit(n)) /\ WF_vars(StartWorker(n))
                               /\ WF_vars(Script(n)) /\ WF_vars(Serve(n))
                               /\ WF_vars(NodeComesUp(n))

Spec == Init /\ [][Next]_vars /\ Fairness

-----------------------------------------------------------------------------
(* A machine that is marked as enrolled has its working capability, whole, at      *)
(* whatever step it was rebooted, its disk filled or its connection broke: the     *)
(* marker ends the retries for good.                                              *)
MarkerMeansCap == \A n \in Node : marker[n] => cap[n] = "whole"

(* Once enrolled, always enrolled, and no boot ever asks the delegate again        *)
(* (ce-enroll.sh: "write <data_dir>/enrolled so this never runs again").          *)
EnrolledNeverAsksAgain ==
    [][\A n \in Node : marker[n] => marker'[n] /\ attempt'[n] = attempt[n]]_vars

(* The Windows task is unregistered only on an enrolled machine: nothing else would *)
(* ever run the enrollment again.                                                 *)
NoTaskMeansEnrolled == \A n \in Node : unit[n] = "unregistered" => marker[n]

(* Under systemd the worker never runs on a machine that was to enroll and has not *)
(* (ce-infer-worker.service: "Runs only after the node is up and the machine has   *)
(* enrolled").                                                                   *)
WorkerOnlyEnrolled ==
    \A n \in Node : Linux(n) /\ config[n].url /\ worker[n] = "running" => marker[n]

(* The same of every machine, those without a delegate and those on Windows too     *)
(* (Install-CeFleet.ps1: "starts after the node + enrollment").                    *)
NoWorkerBeforeEnrollment == \A n \in Node : worker[n] = "running" => marker[n]

(* A Linux machine with a good configuration ends up enrolled, whatever reboot, full *)
(* disk, lost reply or outage cut its script off: the unit is started until it has   *)
(* succeeded.  One on Windows does, or its last boot's only start failed.          *)
GoodMachinesEnroll == \A n \in Node :
    Authenticates(config[n]) /\ config[n].url =>
       /\ Linux(n) => <>[]marker[n]
       /\ ~Linux(n) => <>[](marker[n] \/ unit[n] = "failed")

(* An enrolled machine runs its worker after its next boot. *)
WorkerAfterBoot == \A n \in Node :
    (marker[n] /\ unit[n] = "off") ~> (worker[n] = "running")

(* And in the boot in which it enrolls (ce-enroll.sh: "mark enrolled — the worker   *)
(* can now start").                                                              *)
WorkerAfterEnrollment == \A n \in Node : marker[n] ~> (worker[n] = "running")

(* A machine is issued one working capability (lib.rs: "hands out exactly once     *)
(* per node").                                                                   *)
OneCapPerNode == \A n \in Node : issued[n] <= 1

(* A pre-minted token enrolls the machine it is given to (service.rs: "this is the *)
(* bearer the node presents").                                                   *)
TokenAccepted == \A n \in Node : config[n].token => answer[n] # "refused"
=============================================================================
