-------------------------- MODULE DeploymentProofs -------------------------
(***************************************************************************)
(* For any number of tokens, processes and faults: a success that install  *)
(* or reinstall reports is one, and a process of the service never starts  *)
(* beside another that still works.                                        *)
(*                                                                         *)
(* SetupTruth is not inductive.  A command that reports success has found  *)
(* its own token in the file at the step before (Written), nothing writes  *)
(* the file while no command is under way (Settled), and the only process  *)
(* that does anything but leave is the one the service has (Attached).     *)
(***************************************************************************)
EXTENDS Deployment, TLAPS

Attached == \A p \in Procs : state[p] \in {"starting", "up", "stopping"} <=> main = p

Settled == outcome = "done" => tool = "idle"

Written == tool \in {"install", "start"} => config = arg

IInv == TypeOK /\ Attached /\ Settled /\ Written /\ SetupTruth

-----------------------------------------------------------------------------
(* The empty server and machine satisfy the invariant.                     *)
LEMMA InitInv == Init => IInv
BY DeploymentAssumption DEF Init, IInv, TypeOK, Attached, Settled, Written, SetupTruth,
   Tokens, NoToken, NoFile, Torn

(* Every step of the server, of a process or of a command keeps it.        *)
LEMMA StepInv == IInv /\ [Next]_vars => IInv'
<1> SUFFICES ASSUME IInv, [Next]_vars PROVE IInv'
  OBVIOUS
<1> USE DeploymentAssumption DEF IInv, TypeOK, Attached, Settled, Written, SetupTruth,
        Tokens, NoToken, NoFile, Torn, vars, server, process, command
<1>1. CASE CreateMachine
  BY <1>1 DEF CreateMachine, Page
<1>2. CASE StartRotation
  BY <1>2 DEF StartRotation
<1>3. ASSUME NEW t \in Tokens, RotateMachineToken(t) PROVE IInv'
  BY <1>3 DEF RotateMachineToken, Page
<1>4. ASSUME NEW t \in Tokens, RotationFails(t) PROVE IInv'
  BY <1>4 DEF RotationFails
<1>5. ASSUME NEW t \in Tokens, Admit(t) PROVE IInv'
  BY <1>5 DEF Admit, AuthenticateAgent
<1>6. ASSUME NEW t \in Tokens, EndRequest(t) PROVE IInv'
  BY <1>6 DEF EndRequest
<1>7. ASSUME NEW t \in Tokens, Install(t) PROVE IInv'
  BY <1>7 DEF Install, BeginSetup
<1>8. ASSUME NEW t \in Tokens, Reinstall(t) PROVE IInv'
  BY <1>8 DEF Reinstall, BeginSetup
<1>9. ASSUME NEW p \in Procs, LoadConfig(p) PROVE IInv'
  BY <1>9 DEF LoadConfig
<1>10. ASSUME NEW p \in Procs, LoadConfigFails(p) PROVE IInv'
  BY <1>10 DEF LoadConfigFails, Detach
<1>11. ASSUME NEW p \in Procs, RunnerEnds(p) PROVE IInv'
  BY <1>11 DEF RunnerEnds, Detach
<1>12. ASSUME NEW p \in Procs, StopTimesOut(p) PROVE IInv'
  BY <1>12 DEF StopTimesOut, Detach
<1>13. ASSUME NEW p \in Procs, Exit(p) PROVE IInv'
  BY <1>13 DEF Exit
<1>14. ASSUME NEW p \in Procs, ControlStart(p) PROVE IInv'
  BY <1>14 DEF ControlStart, Launch
<1>15. ASSUME NEW p \in Procs, ControlStop(p) PROVE IInv'
  BY <1>15 DEF ControlStop, CancelRunner
<1>16. ASSUME NEW p \in Procs, Crash(p) PROVE IInv'
  BY <1>16 DEF Crash, Detach, Fault
<1>17. CASE ControlUninstall
  BY <1>17 DEF ControlUninstall, Remove
<1>18. CASE SetupStop
  BY <1>18 DEF SetupStop, CancelRunner, Step
<1>19. CASE SetupStopRefused
  BY <1>19 DEF SetupStopRefused, Abort
<1>20. CASE SetupStopped
  BY <1>20 DEF SetupStopped, Step
<1>21. CASE SetupUninstall
  BY <1>21 DEF SetupUninstall, Remove, Step
<1>22. CASE SetupTruncate
  BY <1>22 DEF SetupTruncate, Step
<1>23. CASE SetupWrite
  BY <1>23 DEF SetupWrite, Step
<1>24. CASE SetupInstall
  BY <1>24 DEF SetupInstall, Step
<1>25. CASE SetupInstallRefused
  BY <1>25 DEF SetupInstallRefused, Abort
<1>26. CASE SetupStart
  BY <1>26 DEF SetupStart, Launch
<1>27. CASE SetupFails
  BY <1>27 DEF SetupFails, Fault, Abort
<1>28. CASE Reboot
  BY <1>28 DEF Reboot, Fault, Abort
<1>29. CASE UNCHANGED vars
  BY <1>29
<1>30. QED
  BY <1>1, <1>2, <1>3, <1>4, <1>5, <1>6, <1>7, <1>8, <1>9, <1>10, <1>11,
     <1>12, <1>13, <1>14, <1>15, <1>16, <1>17, <1>18, <1>19, <1>20, <1>21,
     <1>22, <1>23, <1>24, <1>25, <1>26, <1>27, <1>28, <1>29 DEF Next,
     SetupStep

-----------------------------------------------------------------------------
(* The invariant holds in every reachable state.                           *)
THEOREM DeploymentInvariant == Spec => []IInv
<1>1. Init => IInv
  BY InitInv
<1>2. IInv /\ [Next]_vars => IInv'
  BY StepInv
<1>3. QED
  BY <1>1, <1>2, PTL DEF Spec

(* Every variable keeps its type: a process that runs has a token, and one *)
(* that does not has none.                                                 *)
THEOREM DeploymentTyped == Spec => []TypeOK
<1>1. IInv => TypeOK
  BY DEF IInv
<1>2. QED
  BY <1>1, DeploymentInvariant, PTL

(* When install or reinstall reports success the service is installed with *)
(* its token, and stays so through crashes, restarts and reboots, until    *)
(* the next command that changes it.                                       *)
THEOREM SuccessIsTrue == Spec => []SetupTruth
<1>1. IInv => SetupTruth
  BY DEF IInv
<1>2. QED
  BY <1>1, DeploymentInvariant, PTL

(* Beside the process of the service there is at most one on its way out:  *)
(* the only overlap is the one the 15 s of Stop leave room for.            *)
THEOREM OneWorks == Spec => []NoOverlap
<1>1. IInv => NoOverlap
  <2> SUFFICES ASSUME IInv,
                      NEW p \in Procs, NEW q \in Procs,
                      p # q, main = p, state[q] # "none"
               PROVE  state[q] = "leaving"
    BY DEF NoOverlap
  <2>1. state[q] \notin {"starting", "up", "stopping"}
    BY DEF IInv, Attached
  <2>2. state[q] \in {"none", "starting", "up", "stopping", "leaving"}
    BY DEF IInv, TypeOK
  <2>3. QED
    BY <2>1, <2>2
<1>2. QED
  BY <1>1, DeploymentInvariant, PTL

-----------------------------------------------------------------------------
(* Where tokens come from: what is in the file, in a process or in a        *)
(* command under way has been shown to an operator, and a token that       *)
(* awaits its UPDATE is neither the valid one nor shown.                   *)
Shown == /\ config \in Tokens => config \in known
         /\ \A p \in Procs : token[p] # NoToken => token[p] \in known
         /\ tool # "idle" => arg \in known

Unused == /\ valid \notin pending
          /\ pending \cap known = {}

Origin == Shown /\ Unused

(* Nothing has been made, shown or written at first.                       *)
LEMMA InitOrigin == Init => Origin
BY DEF Init, Origin, Shown, Unused, Tokens, NoToken, NoFile

(* Every step keeps it: only BeginSetup brings a token to the machine, and *)
(* only one that was shown.                                                *)
LEMMA OriginStep == IInv /\ Origin /\ [Next]_vars => Origin'
<1> SUFFICES ASSUME IInv, Origin, [Next]_vars PROVE Origin'
  OBVIOUS
<1> USE DeploymentAssumption DEF IInv, TypeOK, Origin, Shown, Unused,
        Tokens, NoToken, NoFile, Torn, vars, server, process, command
<1>1. CASE CreateMachine
  BY <1>1 DEF CreateMachine, Page
<1>2. CASE StartRotation
  BY <1>2 DEF StartRotation
<1>3. ASSUME NEW t \in Tokens, RotateMachineToken(t) PROVE Origin'
  BY <1>3 DEF RotateMachineToken, Page
<1>4. ASSUME NEW t \in Tokens, RotationFails(t) PROVE Origin'
  BY <1>4 DEF RotationFails
<1>5. ASSUME NEW t \in Tokens, Admit(t) PROVE Origin'
  BY <1>5 DEF Admit
<1>6. ASSUME NEW t \in Tokens, EndRequest(t) PROVE Origin'
  BY <1>6 DEF EndRequest
<1>7. ASSUME NEW t \in Tokens, Install(t) PROVE Origin'
  BY <1>7 DEF Install, BeginSetup
<1>8. ASSUME NEW t \in Tokens, Reinstall(t) PROVE Origin'
  BY <1>8 DEF Reinstall, BeginSetup
<1>9. ASSUME NEW p \in Procs, LoadConfig(p) PROVE Origin'
  BY <1>9 DEF LoadConfig
<1>10. ASSUME NEW p \in Procs, LoadConfigFails(p) PROVE Origin'
  BY <1>10 DEF LoadConfigFails, Detach
<1>11. ASSUME NEW p \in Procs, RunnerEnds(p) PROVE Origin'
  BY <1>11 DEF RunnerEnds, Detach
<1>12. ASSUME NEW p \in Procs, StopTimesOut(p) PROVE Origin'
  BY <1>12 DEF StopTimesOut, Detach
<1>13. ASSUME NEW p \in Procs, Exit(p) PROVE Origin'
  BY <1>13 DEF Exit
<1>14. ASSUME NEW p \in Procs, ControlStart(p) PROVE Origin'
  BY <1>14 DEF ControlStart, Launch
<1>15. ASSUME NEW p \in Procs, ControlStop(p) PROVE Origin'
  BY <1>15 DEF ControlStop, CancelRunner
<1>16. ASSUME NEW p \in Procs, Crash(p) PROVE Origin'
  BY <1>16 DEF Crash, Detach, Fault
<1>17. CASE ControlUninstall
  BY <1>17 DEF ControlUninstall, Remove
<1>18. CASE SetupStop
  BY <1>18 DEF SetupStop, CancelRunner, Step
<1>19. CASE SetupStopRefused
  BY <1>19 DEF SetupStopRefused, Abort
<1>20. CASE SetupStopped
  BY <1>20 DEF SetupStopped, Step
<1>21. CASE SetupUninstall
  BY <1>21 DEF SetupUninstall, Remove, Step
<1>22. CASE SetupTruncate
  BY <1>22 DEF SetupTruncate, Step
<1>23. CASE SetupWrite
  BY <1>23 DEF SetupWrite, Step
<1>24. CASE SetupInstall
  BY <1>24 DEF SetupInstall, Step
<1>25. CASE SetupInstallRefused
  BY <1>25 DEF SetupInstallRefused, Abort
<1>26. CASE SetupStart
  BY <1>26 DEF SetupStart, Launch
<1>27. CASE SetupFails
  BY <1>27 DEF SetupFails, Fault, Abort
<1>28. CASE Reboot
  BY <1>28 DEF Reboot, Fault, Abort
<1>29. CASE UNCHANGED vars
  BY <1>29
<1>30. QED
  BY <1>1, <1>2, <1>3, <1>4, <1>5, <1>6, <1>7, <1>8, <1>9, <1>10, <1>11,
     <1>12, <1>13, <1>14, <1>15, <1>16, <1>17, <1>18, <1>19, <1>20, <1>21,
     <1>22, <1>23, <1>24, <1>25, <1>26, <1>27, <1>28, <1>29 DEF Next,
     SetupStep

(* It holds in every reachable state.                                      *)
LEMMA OriginInvariant == Spec => []Origin
<1>1. Init => Origin
  BY InitOrigin
<1>2. IInv /\ Origin /\ [Next]_vars => Origin'
  BY OriginStep
<1>3. QED
  BY <1>1, <1>2, DeploymentInvariant, PTL DEF Spec

-----------------------------------------------------------------------------
(* What the server does with tokens, in a step of any kind.                *)
TokenStep(t) ==
  /\ made' >= made
  /\ valid' # valid => valid' \in pending \cup {made + 1}
  /\ pending' \subseteq pending \cup {made + 1}
  /\ made' = made => valid' # made + 1 /\ made + 1 \notin pending'
  /\ t \in admitted' \ admitted =>
        t = valid /\ (t \in known \cup {config} \/ \E p \in Procs : token[p] = t)

(* Every step is such a step: only a rotation or the creation of the       *)
(* machine sets valid, and only Admit admits.                              *)
LEMMA TokenMoves ==
  ASSUME TypeOK, [Next]_vars, NEW t \in Tokens
  PROVE  TokenStep(t)
<1> USE DEF TypeOK, TokenStep, Tokens, NoToken, vars, server, process, command
<1>1. CASE CreateMachine
  BY <1>1 DEF CreateMachine
<1>2. CASE StartRotation
  BY <1>2 DEF StartRotation
<1>3. ASSUME NEW u \in Tokens, \/ RotateMachineToken(u) \/ RotationFails(u)
                                \/ EndRequest(u) \/ Install(u) \/ Reinstall(u)
      PROVE  TokenStep(t)
  BY <1>3 DEF RotateMachineToken, RotationFails, EndRequest, Install, Reinstall, BeginSetup
<1>4. ASSUME NEW u \in Tokens, Admit(u) PROVE TokenStep(t)
  BY <1>4 DEF Admit, AuthenticateAgent
<1>5. CASE UNCHANGED server
  BY <1>5
<1>6. ASSUME NEW p \in Procs, \/ LoadConfig(p) \/ LoadConfigFails(p) \/ RunnerEnds(p)
                               \/ StopTimesOut(p) \/ Exit(p) \/ ControlStart(p)
                               \/ ControlStop(p) \/ Crash(p)
      PROVE  UNCHANGED server
  BY <1>6 DEF LoadConfig, LoadConfigFails, RunnerEnds, StopTimesOut, Exit, ControlStart,
     ControlStop, Crash
<1>7. ASSUME ControlUninstall \/ SetupStep \/ SetupFails \/ Reboot
      PROVE  UNCHANGED server
  BY <1>7 DEF ControlUninstall, SetupStep, SetupStop, SetupStopRefused, SetupStopped,
     SetupUninstall, SetupTruncate, SetupWrite, SetupInstall, SetupInstallRefused,
     SetupStart, SetupFails, Reboot
<1>8. QED
  BY <1>1, <1>2, <1>3, <1>4, <1>5, <1>6, <1>7 DEF Next

(* Made, replaced, and no longer on its way to the row.                    *)
Revoked(t) == t \in 1..made /\ t # valid /\ t \notin pending

(* A token that was rotated away is never valid again: no step of two      *)
(* rotations at once, of a failure or of a crash brings it back.           *)
THEOREM RevokedForGood ==
  ASSUME NEW t \in Tokens
  PROVE  Spec => [](Revoked(t) => []Revoked(t))
<1>1. IInv /\ [Next]_vars /\ Revoked(t) => Revoked(t)'
  <2> SUFFICES ASSUME IInv, [Next]_vars, Revoked(t) PROVE Revoked(t)'
    OBVIOUS
  <2>1. TypeOK /\ TokenStep(t)
    BY TokenMoves DEF IInv
  <2>2. t # made + 1 /\ made \in Nat /\ made' \in Nat
    BY <2>1, StepInv, DeploymentAssumption DEF Revoked, IInv, TypeOK
  <2>3. QED
    BY <2>1, <2>2 DEF TokenStep, Revoked, Tokens
<1>2. QED
  BY <1>1, DeploymentInvariant, PTL DEF Spec

(* The safety half of RevokedSoon: a revoked token is admitted by no step, *)
(* so that once its last request has ended the server records nothing that *)
(* carries it, ever.                                                       *)
THEOREM RevokedIsSilent ==
  ASSUME NEW t \in Tokens
  PROVE  Spec => [](Revoked(t) /\ t \notin admitted => [](t \notin admitted))
<1> DEFINE Silent == Revoked(t) /\ t \notin admitted
<1>1. IInv /\ [Next]_vars /\ Silent => Silent'
  <2> SUFFICES ASSUME IInv, [Next]_vars, Silent PROVE Silent'
    OBVIOUS
  <2>1. TypeOK /\ TokenStep(t)
    BY TokenMoves DEF IInv
  <2>2. t # made + 1 /\ made \in Nat /\ made' \in Nat
    BY <2>1, StepInv, DeploymentAssumption DEF Revoked, IInv, TypeOK
  <2>3. QED
    BY <2>1, <2>2 DEF TokenStep, Revoked, Tokens
<1>2. Silent => t \notin admitted
  OBVIOUS
<1>3. QED
  BY <1>1, <1>2, DeploymentInvariant, PTL DEF Spec

(* A rotation whose page nobody saw locks the machine out: no request is   *)
(* admitted while the valid token has not been shown, whatever file,       *)
(* processes and commands the machine has.                                 *)
THEOREM UnseenLocksOut == Spec => [][valid \notin known => admitted' \subseteq admitted]_vars
<1> DEFINE Locked == valid \notin known => admitted' \subseteq admitted
<1>1. IInv /\ IInv' /\ Origin /\ [Next]_vars => [Locked]_vars
  <2> SUFFICES ASSUME IInv, IInv', Origin, [Next]_vars, valid \notin known,
                      NEW t \in admitted', t \notin admitted
               PROVE  FALSE
    OBVIOUS
  <2>1. t \in Tokens
    BY DeploymentAssumption DEF IInv, TypeOK, Tokens
  <2>2. TokenStep(t)
    BY <2>1, TokenMoves DEF IInv
  <2>3. t \in known
    BY <2>1, <2>2 DEF TokenStep, Origin, Shown, Tokens, NoToken
  <2>4. QED
    BY <2>2, <2>3 DEF TokenStep
<1>2. QED
  BY <1>1, DeploymentInvariant, OriginInvariant, PTL DEF Spec
============================================================================
