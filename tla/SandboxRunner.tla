---------------------------- MODULE SandboxRunner ----------------------------
(***************************************************************************)
(* POST /runs/from-image of custodian-backend and custodian-sandbox-runner *)
(* behind it: every uploaded image is read by OCR in a container of its    *)
(* own, which writes into a scratch volume of its own, and the text is fed *)
(* into the pipeline.  A runner's step ends at a call to Docker, which     *)
(* runs, stops and removes containers by itself.                           *)
(*                                                                         *)
(* The backend's handler is a coroutine that blocks: while it waits for    *)
(* the runner no other upload is posted.  It gives up after a minute, and  *)
(* the runner, which does not notice, goes on.                             *)
(***************************************************************************)
EXTENDS Naturals, FiniteSets

CONSTANTS
    Uploads,    \* the images posted to the backend
    MaxFaults   \* bound: Docker calls that fail, and deaths of the runner

ASSUME SandboxAssumption == MaxFaults \in Nat

VARIABLES
    upload,     \* the backend's handler of each upload
    pc,         \* the runner's handler
    container,  \* the upload's container, as Docker knows it
    exitCode,   \* of that container: "ok", "failed", or "none" before it ends
    output,     \* output.txt is in the scratch volume
    volume,     \* the scratch volume exists
    answer,     \* what the runner's handler is about to answer
    faulted     \* history: uploads that a fault or the runner's death hit

dockerVars == <<container, exitCode, output, volume>>
vars == <<upload, pc, dockerVars, answer, faulted>>

Init ==
    /\ upload = [u \in Uploads |-> "new"]
    /\ pc = [u \in Uploads |-> "idle"]
    /\ container = [u \in Uploads |-> "none"]
    /\ exitCode = [u \in Uploads |-> "none"]
    /\ output = [u \in Uploads |-> FALSE]
    /\ volume = [u \in Uploads |-> FALSE]
    /\ answer = [u \in Uploads |-> "none"]
    /\ faulted = {}

-----------------------------------------------------------------------------
(* custodian-backend.                                                      *)

(* The thread is not halted and the image is saved.                        *)
Receive(u) ==
    /\ upload[u] = "new"
    /\ upload' = [upload EXCEPT ![u] = "saved"]
    /\ UNCHANGED <<pc, dockerVars, answer, faulted>>

PostImage(u) ==
    /\ upload[u] = "saved"
    /\ \A v \in Uploads : upload[v] # "waiting"
    /\ upload' = [upload EXCEPT ![u] = "waiting"]
    /\ pc' = [pc EXCEPT ![u] = "received"]
    /\ UNCHANGED <<dockerVars, answer, faulted>>

(* requests.post(..., timeout=60); a runner that died is noticed at once.  *)
GiveUp(u) ==
    /\ upload[u] = "waiting"
    /\ upload' = [upload EXCEPT ![u] = "refused"]
    /\ UNCHANGED <<pc, dockerVars, answer, faulted>>

(* A 200 feeds the pipeline, with the empty text too: "success" is not     *)
(* looked at.  Anything else is answered 502.                              *)
TakeAnswer(u) ==
    /\ pc[u] = "answer"
    /\ pc' = [pc EXCEPT ![u] = "done"]
    /\ IF upload[u] = "waiting"
       THEN upload' = [upload EXCEPT ![u] =
                          CASE answer[u] = "text" -> "fed"
                            [] answer[u] = "empty" -> "fedEmpty"
                            [] OTHER -> "refused"]
       ELSE UNCHANGED upload
    /\ UNCHANGED <<dockerVars, answer, faulted>>

-----------------------------------------------------------------------------
(* custodian-sandbox-runner.                                               *)

Goto(u, next) ==
    /\ pc' = [pc EXCEPT ![u] = next]
    /\ UNCHANGED answer

Reply(u, next, a) ==
    /\ pc' = [pc EXCEPT ![u] = next]
    /\ answer' = [answer EXCEPT ![u] = a]

(* policy-service denies, or does not answer; or there is no such image.   *)
Refuse(u) ==
    /\ pc[u] = "received"
    /\ Reply(u, "answer", "error")
    /\ UNCHANGED <<upload, dockerVars, faulted>>

CreateVolume(u) ==
    /\ pc[u] = "received"
    /\ volume' = [volume EXCEPT ![u] = TRUE]
    /\ Goto(u, "start")
    /\ UNCHANGED <<upload, container, exitCode, output, faulted>>

(* Mutant of StartSandbox: the container is not there yet.                 *)
StartUnawaited(u) ==
    /\ pc[u] = "start"
    /\ Goto(u, "attach")
    /\ UNCHANGED <<upload, dockerVars, faulted>>

(* chown in a throwaway container, then the sandbox, detached.             *)
StartSandbox(u) ==
    /\ pc[u] = "start"
    /\ container' = [container EXCEPT ![u] = "running"]
    /\ Goto(u, "attach")
    /\ UNCHANGED <<upload, exitCode, output, volume, faulted>>

(* container.wait() reaches Docker; if the container ended and was removed *)
(* before, wait raises, then kill does, and the request fails.             *)
AttachWait(u) ==
    /\ pc[u] = "attach"
    /\ IF container[u] = "gone" THEN Reply(u, "clean", "error") ELSE Goto(u, "wait")
    /\ UNCHANGED <<upload, dockerVars, faulted>>

(* Mutant of WaitReturns: the exit status is not looked at.                *)
WaitEnds(u) ==
    /\ pc[u] = "wait"
    /\ exitCode[u] # "none"
    /\ Goto(u, "read")
    /\ UNCHANGED <<upload, dockerVars, faulted>>

WaitReturns(u) ==
    /\ pc[u] = "wait"
    /\ exitCode[u] # "none"
    /\ IF exitCode[u] = "ok" THEN Goto(u, "read") ELSE Reply(u, "clean", "empty")
    /\ UNCHANGED <<upload, dockerVars, faulted>>

(* Mutant of WaitTimesOut: the handler just fails.                         *)
TimeOutOnly(u) ==
    /\ pc[u] = "wait"
    /\ Reply(u, "clean", "error")
    /\ UNCHANGED <<upload, dockerVars, faulted>>

(* Mutant of WaitTimesOut: no limit on a container that still runs.        *)
WaitForever(u) ==
    /\ pc[u] = "wait"
    /\ container[u] # "running"
    /\ Goto(u, "kill")
    /\ UNCHANGED <<upload, dockerVars, faulted>>

(* HARD_TIMEOUT_SECONDS passed, as the container may end at that moment.   *)
WaitTimesOut(u) ==
    /\ pc[u] = "wait"
    /\ Goto(u, "kill")
    /\ UNCHANGED <<upload, dockerVars, faulted>>

(* kill() of a container that has just ended raises; 504 or 500, the       *)
(* answer is an error.                                                     *)
Kill(u) ==
    /\ pc[u] = "kill"
    /\ Reply(u, "clean", "error")
    /\ IF container[u] = "running"
       THEN /\ container' = [container EXCEPT ![u] = "exited"]
            /\ exitCode' = [exitCode EXCEPT ![u] = "failed"]
       ELSE UNCHANGED <<container, exitCode>>
    /\ UNCHANGED <<upload, output, volume, faulted>>

ReadOutput(u) ==
    /\ pc[u] = "read"
    /\ Reply(u, "clean", IF output[u] THEN "text" ELSE "error")
    /\ UNCHANGED <<upload, dockerVars, faulted>>

InUse(u) == container[u] \in {"running", "exited"}

(* Mutant of RemoveVolume: only after a run that ended well.               *)
RemoveAfterSuccess(u) ==
    /\ pc[u] = "clean"
    /\ volume' = [volume EXCEPT ![u] = InUse(u) \/ answer[u] = "error"]
    /\ Goto(u, "answer")
    /\ UNCHANGED <<upload, container, exitCode, output, faulted>>

(* The finally block: Docker refuses to remove a volume that a container   *)
(* has, even one that ended, and the runner ignores that.                  *)
RemoveVolume(u) ==
    /\ pc[u] = "clean"
    /\ volume' = [volume EXCEPT ![u] = InUse(u)]
    /\ Goto(u, "answer")
    /\ UNCHANGED <<upload, container, exitCode, output, faulted>>

-----------------------------------------------------------------------------
(* Faults.                                                                 *)

Fault(u) ==
    /\ Cardinality(faulted) < MaxFaults
    /\ faulted' = faulted \union {u}

(* A Docker call raises.  One that starts the sandbox may have started it, *)
(* and a kill that fails leaves it running.                                *)
DockerFails(u) ==
    /\ Fault(u)
    /\ \/ pc[u] = "received" /\ Reply(u, "answer", "error") /\ UNCHANGED container
       \/ pc[u] \in {"start", "kill", "read"} /\ Reply(u, "clean", "error") /\ UNCHANGED container
       \/ pc[u] = "start" /\ Reply(u, "clean", "error")
             /\ container' = [container EXCEPT ![u] = "running"]
       \/ pc[u] = "clean" /\ Goto(u, "answer") /\ UNCHANGED container
       \/ pc[u] = "wait" /\ Goto(u, "kill") /\ UNCHANGED container
    /\ UNCHANGED <<upload, exitCode, output, volume>>

(* The runner dies; whoever waits for it gets an error.                    *)
RunnerDies ==
    /\ \E u \in Uploads : pc[u] \notin {"idle", "done"}
    /\ Cardinality(faulted) < MaxFaults
    /\ faulted' = faulted \union {u \in Uploads : pc[u] \notin {"idle", "done"}}
    /\ pc' = [u \in Uploads |-> IF pc[u] = "idle" THEN "idle" ELSE "done"]
    /\ UNCHANGED <<upload, dockerVars, answer>>

-----------------------------------------------------------------------------
(* The container and Docker.                                               *)

WriteOutput(u) ==
    /\ container[u] = "running"
    /\ output' = [output EXCEPT ![u] = TRUE]
    /\ UNCHANGED <<upload, pc, container, exitCode, volume, answer, faulted>>

(* The worker ends, or is killed at its own limit of 25 seconds.           *)
Exit(u, code) ==
    /\ container[u] = "running"
    /\ code = "ok" => output[u]
    /\ container' = [container EXCEPT ![u] = "exited"]
    /\ exitCode' = [exitCode EXCEPT ![u] = code]
    /\ UNCHANGED <<upload, pc, output, volume, answer, faulted>>

(* --rm: Docker removes the container some time after it ended.            *)
AutoRemove(u) ==
    /\ container[u] = "exited"
    /\ container' = [container EXCEPT ![u] = "gone"]
    /\ UNCHANGED <<upload, pc, exitCode, output, volume, answer, faulted>>

Backend(u) == Receive(u) \/ PostImage(u) \/ GiveUp(u) \/ TakeAnswer(u)

Runner(u) ==
    \/ Refuse(u) \/ CreateVolume(u) \/ StartSandbox(u) \/ AttachWait(u)
    \/ WaitReturns(u) \/ WaitTimesOut(u) \/ Kill(u) \/ ReadOutput(u) \/ RemoveVolume(u)

Sandbox(u) == WriteOutput(u) \/ (\E code \in {"ok", "failed"} : Exit(u, code)) \/ AutoRemove(u)

Next ==
    \/ \E u \in Uploads : Backend(u) \/ Runner(u) \/ Sandbox(u) \/ DockerFails(u)
    \/ RunnerDies

Spec == Init /\ [][Next]_vars

(* A handler of the runner goes on, and its wait ends at the latest when   *)
(* the time is up; nothing is assumed of the container.                    *)
FairSpec == Spec /\ \A u \in Uploads : WF_vars(Runner(u))

-----------------------------------------------------------------------------

TypeOK ==
    /\ upload \in [Uploads -> {"new", "saved", "waiting", "fed", "fedEmpty", "refused"}]
    /\ pc \in [Uploads -> {"idle", "received", "start", "attach", "wait", "kill", "read",
                           "clean", "answer", "done"}]
    /\ container \in [Uploads -> {"none", "running", "exited", "gone"}]
    /\ exitCode \in [Uploads -> {"none", "ok", "failed"}]
    /\ output \in [Uploads -> BOOLEAN]
    /\ volume \in [Uploads -> BOOLEAN]
    /\ answer \in [Uploads -> {"none", "text", "empty", "error"}]
    /\ faulted \subseteq Uploads
    /\ \A u \in Uploads :
          /\ exitCode[u] = "none" <=> container[u] \in {"none", "running"}
          /\ pc[u] \in {"attach", "wait", "kill", "read"} =>
                volume[u] /\ container[u] # "none"

(* What the pipeline is fed is what the upload's own sandbox did: a text   *)
(* it had written when it ended well, and the empty text only if it ended  *)
(* badly, whatever ended late, was killed or was answered too late.        *)
FedWhatWasRead ==
    \A u \in Uploads :
        /\ upload[u] = "fed" => exitCode[u] = "ok" /\ output[u]
        /\ upload[u] = "fedEmpty" => exitCode[u] = "failed"

(* "sandbox execution exceeded hard timeout, killed": once the handler *)
(* stops waiting the container does not run, unless Docker failed or the   *)
(* runner died.                                                            *)
NotAbandoned ==
    \A u \in Uploads :
        container[u] = "running" /\ pc[u] \in {"read", "clean", "answer", "done"}
            => u \in faulted

(* However a request ends, its scratch volume is gone with it, unless      *)
(* Docker failed, the runner died, or the container that used it had ended *)
(* and was not removed yet.                                                *)
ScratchRemoved ==
    [][\A u \in Uploads :
          pc[u] \notin {"answer", "done"} /\ pc'[u] \in {"answer", "done"} /\ volume'[u]
              => u \in faulted' \/ container[u] = "exited"]_vars

(* A sandbox that is waited for stops, though nothing makes it end by      *)
(* itself.                                                                 *)
SandboxStops ==
    \A u \in Uploads :
        container[u] = "running" ~> container[u] # "running" \/ u \in faulted
=============================================================================
