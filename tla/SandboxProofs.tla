---------------------------- MODULE SandboxProofs ----------------------------
(***************************************************************************)
(* Theorems about SandboxRunner, for any set of uploads and any number of  *)
(* faults.                                                                 *)
(***************************************************************************)
EXTENDS SandboxRunner, TLAPS

(* How far a request has come says what Docker has of it: the volume comes *)
(* with "start" and the container with "attach".                           *)
Begun(u) ==
    /\ upload[u] \in {"new", "saved"} => pc[u] = "idle"
    /\ pc[u] \in {"idle", "received"} => ~volume[u]
    /\ pc[u] = "start" => volume[u]
    /\ pc[u] \in {"idle", "received", "start"} => container[u] = "none"

(* What is read, answered and fed goes back to how the container ended.    *)
Ended(u) ==
    /\ exitCode[u] = "ok" => output[u]
    /\ pc[u] = "read" => exitCode[u] = "ok"
    /\ pc[u] \in {"clean", "answer"} /\ answer[u] = "text" => exitCode[u] = "ok"
    /\ pc[u] \in {"clean", "answer"} /\ answer[u] = "empty" => exitCode[u] = "failed"

IInv ==
    /\ TypeOK
    /\ \A u \in Uploads : Begun(u) /\ Ended(u)
    /\ FedWhatWasRead
    /\ NotAbandoned

-----------------------------------------------------------------------------

LEMMA InitHolds == Init => IInv
  BY DEF Init, IInv, TypeOK, Begun, Ended, FedWhatWasRead, NotAbandoned

(* The backend touches a runner's handler only by posting an image that no *)
(* handler has, and takes only what a handler answers.                     *)
LEMMA BackendKeeps ==
  ASSUME IInv, NEW u \in Uploads, Backend(u)
  PROVE  IInv'
<1> USE DEF IInv, TypeOK, Begun, Ended, FedWhatWasRead, NotAbandoned, dockerVars
<1>1. CASE Receive(u)
  BY <1>1 DEF Receive
<1>2. CASE PostImage(u)
  BY <1>2 DEF PostImage
<1>3. CASE GiveUp(u)
  BY <1>3 DEF GiveUp
<1>4. CASE TakeAnswer(u)
  BY <1>4 DEF TakeAnswer
<1>5. QED
  BY <1>1, <1>2, <1>3, <1>4 DEF Backend

(* A handler goes on to its volume, its container, the end of its wait and *)
(* its clean-up, in this order.                                            *)
LEMMA RunnerKeeps ==
  ASSUME IInv, NEW u \in Uploads, Runner(u)
  PROVE  IInv'
<1> USE DEF IInv, TypeOK, Begun, Ended, FedWhatWasRead, NotAbandoned, dockerVars,
            Goto, Reply
<1>1. CASE Refuse(u)
  BY <1>1 DEF Refuse
<1>2. CASE CreateVolume(u)
  BY <1>2 DEF CreateVolume
<1>3. CASE StartSandbox(u)
  BY <1>3 DEF StartSandbox
<1>4. CASE AttachWait(u)
  BY <1>4 DEF AttachWait
<1>5. CASE WaitReturns(u)
  BY <1>5 DEF WaitReturns
<1>6. CASE WaitTimesOut(u)
  BY <1>6 DEF WaitTimesOut
<1>7. CASE Kill(u)
  BY <1>7 DEF Kill
<1>8. CASE ReadOutput(u)
  BY <1>8 DEF ReadOutput
<1>9. CASE RemoveVolume(u)
  BY <1>9 DEF RemoveVolume, InUse
<1>10. QED
  BY <1>1, <1>2, <1>3, <1>4, <1>5, <1>6, <1>7, <1>8, <1>9 DEF Runner

(* A container ends once, and with "ok" only after it wrote its output.    *)
LEMMA SandboxKeeps ==
  ASSUME IInv, NEW u \in Uploads, Sandbox(u)
  PROVE  IInv'
<1> USE DEF IInv, TypeOK, Begun, Ended, FedWhatWasRead, NotAbandoned, dockerVars
<1>1. CASE WriteOutput(u)
  BY <1>1 DEF WriteOutput
<1>2. ASSUME NEW code \in {"ok", "failed"}, Exit(u, code)
      PROVE  IInv'
  BY <1>2 DEF Exit
<1>3. CASE AutoRemove(u)
  BY <1>3 DEF AutoRemove
<1>4. QED
  BY <1>1, <1>2, <1>3 DEF Sandbox

(* A fault marks the uploads it hits, which NotAbandoned excepts.          *)
LEMMA FaultKeeps ==
  ASSUME IInv, RunnerDies \/ \E u \in Uploads : DockerFails(u)
  PROVE  IInv'
<1> USE DEF IInv, TypeOK, Begun, Ended, FedWhatWasRead, NotAbandoned, dockerVars
<1>1. CASE RunnerDies
  BY <1>1 DEF RunnerDies
<1>2. ASSUME NEW u \in Uploads, DockerFails(u)
      PROVE  IInv'
  BY <1>2 DEF DockerFails, Fault, Goto, Reply
<1>3. QED
  BY <1>1, <1>2

LEMMA StepKeeps == IInv /\ [Next]_vars => IInv'
<1> SUFFICES ASSUME IInv, [Next]_vars
             PROVE  IInv'
  OBVIOUS
<1>1. CASE Next
  BY <1>1, BackendKeeps, RunnerKeeps, SandboxKeeps, FaultKeeps DEF Next
<1>2. CASE UNCHANGED vars
  BY <1>2 DEF vars, dockerVars, IInv, TypeOK, Begun, Ended, FedWhatWasRead, NotAbandoned
<1>3. QED
  BY <1>1, <1>2

LEMMA Invariance == Spec => []IInv
<1>1. QED
  BY InitHolds, StepKeeps, PTL DEF Spec

-----------------------------------------------------------------------------

(* The variables keep their types, and a handler that waits for, kills or  *)
(* reads from a container has one, on a volume of its own.                 *)
THEOREM SandboxTypeCorrect == Spec => []TypeOK
<1>1. IInv => TypeOK
  BY DEF IInv
<1>2. QED
  BY <1>1, Invariance, PTL

(* The pipeline is fed a text only if the upload's own container wrote it  *)
(* and ended well, and the empty text only if that container failed.       *)
THEOREM UploadsFedTheirOwn == Spec => []FedWhatWasRead
<1>1. IInv => FedWhatWasRead
  BY DEF IInv
<1>2. QED
  BY <1>1, Invariance, PTL

(* No container runs on once its handler stopped waiting, but for those    *)
(* that a Docker fault or the runner's death took the handler from.        *)
THEOREM NoSandboxAbandoned == Spec => []NotAbandoned
<1>1. IInv => NotAbandoned
  BY DEF IInv
<1>2. QED
  BY <1>1, Invariance, PTL

(* A request that ends leaves its scratch volume only to a fault, or to a  *)
(* container that ended and that Docker has not removed yet.               *)
THEOREM ScratchIsRemoved == Spec => ScratchRemoved
<1> DEFINE Step ==
      \A u \in Uploads :
          pc[u] \notin {"answer", "done"} /\ pc'[u] \in {"answer", "done"} /\ volume'[u]
              => u \in faulted' \/ container[u] = "exited"
<1>1. ASSUME IInv, Next
      PROVE  Step
  <2> USE DEF IInv, TypeOK, Begun, NotAbandoned
  <2>1. ASSUME NEW u \in Uploads, Backend(u)
        PROVE  Step
    BY <1>1, <2>1 DEF Backend, Receive, PostImage, GiveUp, TakeAnswer
  <2>2. ASSUME NEW u \in Uploads, Runner(u)
        PROVE  Step
    <3> USE DEF Goto, Reply, dockerVars
    <3>1. CASE Refuse(u)
      BY <1>1, <3>1 DEF Refuse
    <3>2. CASE RemoveVolume(u)
      BY <1>1, <3>2 DEF RemoveVolume, InUse
    <3>3. CASE CreateVolume(u) \/ StartSandbox(u) \/ AttachWait(u) \/ WaitReturns(u)
      BY <1>1, <3>3 DEF CreateVolume, StartSandbox, AttachWait, WaitReturns
    <3>4. CASE WaitTimesOut(u) \/ Kill(u) \/ ReadOutput(u)
      BY <1>1, <3>4 DEF WaitTimesOut, Kill, ReadOutput
    <3>5. QED
      BY <2>2, <3>1, <3>2, <3>3, <3>4 DEF Runner
  <2>3. ASSUME NEW u \in Uploads, Sandbox(u)
        PROVE  Step
    BY <1>1, <2>3 DEF Sandbox, WriteOutput, Exit, AutoRemove
  <2>4. ASSUME NEW u \in Uploads, DockerFails(u)
        PROVE  Step
    BY <1>1, <2>4 DEF DockerFails, Fault, Goto, Reply
  <2>5. CASE RunnerDies
    BY <1>1, <2>5 DEF RunnerDies
  <2>6. QED
    BY <1>1, <2>1, <2>2, <2>3, <2>4, <2>5 DEF Next
<1>2. IInv /\ [Next]_vars => [Step]_vars
  BY <1>1
<1>3. QED
  BY <1>2, Invariance, PTL DEF Spec, ScratchRemoved
=============================================================================
