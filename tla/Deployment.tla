----------------------------- MODULE Deployment -----------------------------
(***************************************************************************)
(* How a machine gets its token and its agent: the machine's row and the   *)
(* rotation of its token on the server; the page that shows a token once;  *)
(* the commands of the agent's program (install, reinstall, start, stop,   *)
(* uninstall), its configuration file and its Windows service; and what    *)
(* becomes of the reports the service sends.                               *)
(*                                                                         *)
(* Tokens are numbered as newToken makes them; a hash names one token.     *)
(* There is one machine: tokens of two never meet, since a token is never  *)
(* made twice.  The service manager and the service library are external:  *)
(* a service exists once, has one process, and "marked" is one that was    *)
(* removed while it ran and goes when it stops.  The commands of the       *)
(* program run one at a time.                                              *)
(*                                                                         *)
(* A definition marked "variant" is the one below it with a defect such    *)
(* code could have; no specification uses it.  It serves to see that the   *)
(* properties notice the defect.                                           *)
(***************************************************************************)
EXTENDS Integers, FiniteSets

CONSTANTS Procs,        \* processes of the agent on the machine
          NoProc,
          MaxTokens,    \* bound: tokens made
          MaxFaults     \* bound: commands that break off, crashes, reboots

Tokens  == 1..MaxTokens
NoToken == 0
NoFile  == 0            \* the configuration file is not there
Torn    == -1           \* it was truncated and not written

ASSUME DeploymentAssumption ==
  /\ MaxTokens \in Nat /\ MaxFaults \in Nat
  /\ NoProc \notin Procs

VARIABLES made,         \* tokens made so far
          valid,        \* the one whose hash the machine's row has
          pending,      \* made for a rotation, the UPDATE not yet done
          known,        \* seen by an operator
          admitted,     \* of authenticated requests, not yet recorded
          config,       \* the token in agent.json, NoFile or Torn
          service,      \* the service: absent, installed or marked
          main,         \* its process
          state,        \* what each process does
          token,        \* the token it was started with
          tool,         \* the step install or reinstall is at
          arg,          \* the token it was given
          outcome,      \* how the last of them ended
          faults        \* faults so far

server  == <<made, valid, pending, known, admitted>>
process == <<service, main, state, token>>
command == <<tool, arg, outcome>>
vars    == <<server, config, process, command, faults>>

Init == /\ made = 0
        /\ valid = NoToken
        /\ pending = {}
        /\ known = {}
        /\ admitted = {}
        /\ config = NoFile
        /\ service = "absent"
        /\ main = NoProc
        /\ state = [p \in Procs |-> "none"]
        /\ token = [p \in Procs |-> NoToken]
        /\ tool = "idle"
        /\ arg = NoToken
        /\ outcome = "none"
        /\ faults = 0

-----------------------------------------------------------------------------
(* The server: tokens.                                                     *)

(* The page that answers shows the token t once; it may be lost, after the *)
(* commit, and no other will ever show it.                                 *)
Page(t) == known' \in {known, known \cup {t}}

CreateMachine == /\ valid = NoToken
                 /\ made < MaxTokens
                 /\ made' = made + 1
                 /\ valid' = made + 1
                 /\ Page(made + 1)
                 /\ UNCHANGED <<pending, admitted, config, process, command, faults>>

(* handleRotateToken finds the machine and makes a token for it.           *)
StartRotation == /\ valid # NoToken
                 /\ made < MaxTokens
                 /\ made' = made + 1
                 /\ pending' = pending \cup {made + 1}
                 /\ UNCHANGED <<valid, known, admitted, config, process, command, faults>>

(* The UPDATE: of two rotations at once the later one counts.              *)
RotateMachineToken(t) ==
  /\ t \in pending
  /\ pending' = pending \ {t}
  /\ valid' = t
  /\ Page(t)
  /\ UNCHANGED <<made, admitted, config, process, command, faults>>

RotationFails(t) ==
  /\ t \in pending
  /\ pending' = pending \ {t}
  /\ UNCHANGED <<made, valid, known, admitted, config, process, command, faults>>

-----------------------------------------------------------------------------
(* The server: reports.                                                    *)

AuthenticateAgent_AnyToken(t) == t \in 1..made    \* variant: old hashes stay

AuthenticateAgent(t) == t = valid

(* A request of a running agent, or of "once", which takes the token of    *)
(* its flag or of the file.  A 401 changes nothing.                        *)
Admit(t) ==
  /\ \/ \E p \in Procs : state[p] = "up" /\ token[p] = t
     \/ t \in known \cup {config}
  /\ t \in Tokens
  /\ AuthenticateAgent(t)
  /\ admitted' = admitted \cup {t}
  /\ UNCHANGED <<made, valid, pending, known, config, process, command, faults>>

(* The handler writes what the request brought, or fails.                  *)
EndRequest(t) ==
  /\ t \in admitted
  /\ admitted' = admitted \ {t}
  /\ UNCHANGED <<made, valid, pending, known, config, process, command, faults>>

-----------------------------------------------------------------------------
(* The process of the service.                                             *)

(* The service manager: p is no longer the process of the service.         *)
Detach(p) == /\ main' = IF main = p THEN NoProc ELSE main
             /\ service' = IF main = p /\ service = "marked" THEN "absent" ELSE service

Launch(p) == /\ service = "installed"
             /\ main = NoProc
             /\ state[p] = "none"
             /\ main' = p
             /\ state' = [state EXCEPT ![p] = "starting"]
             /\ UNCHANGED <<service, token>>

LoadConfig_Unchecked(p) ==          \* variant: the error of LoadConfig is dropped
  /\ state[p] = "starting"
  /\ state' = [state EXCEPT ![p] = "up"]
  /\ token' = [token EXCEPT ![p] = config]
  /\ UNCHANGED <<server, config, service, main, command, faults>>

(* program.Start with a file that can be read.                             *)
LoadConfig(p) ==
  /\ state[p] = "starting"
  /\ config \in Tokens
  /\ state' = [state EXCEPT ![p] = "up"]
  /\ token' = [token EXCEPT ![p] = config]
  /\ UNCHANGED <<server, config, service, main, command, faults>>

(* Without one, or with half of one, the process ends.                     *)
LoadConfigFails(p) ==
  /\ state[p] = "starting"
  /\ config \notin Tokens
  /\ state' = [state EXCEPT ![p] = "none"]
  /\ Detach(p)
  /\ UNCHANGED <<server, config, token, command, faults>>

CancelRunner_NotWaiting(p) ==       \* variant: Stop does not wait
  /\ main = p
  /\ state[p] = "up"
  /\ state' = [state EXCEPT ![p] = "stopping"]
  /\ Detach(p)
  /\ UNCHANGED token

(* program.Stop cancels the loops and waits for them.                      *)
CancelRunner(p) == /\ main = p
                   /\ state[p] = "up"
                   /\ state' = [state EXCEPT ![p] = "stopping"]
                   /\ UNCHANGED <<service, main, token>>

RunnerEnds(p) ==
  /\ state[p] = "stopping"
  /\ state' = [state EXCEPT ![p] = "none"]
  /\ token' = [token EXCEPT ![p] = NoToken]
  /\ Detach(p)
  /\ UNCHANGED <<server, config, command, faults>>

(* After 15 s Stop returns although a loop is busy, with a command or a    *)
(* query: the service counts as stopped while the process is on its way out. *)
StopTimesOut(p) ==
  /\ state[p] = "stopping"
  /\ state' = [state EXCEPT ![p] = "leaving"]
  /\ Detach(p)
  /\ UNCHANGED <<server, config, token, command, faults>>

Exit(p) ==
  /\ state[p] = "leaving"
  /\ state' = [state EXCEPT ![p] = "none"]
  /\ token' = [token EXCEPT ![p] = NoToken]
  /\ UNCHANGED <<server, config, service, main, command, faults>>

-----------------------------------------------------------------------------
(* The program's commands.                                                 *)

ControlStart(p) == /\ tool = "idle"
                   /\ Launch(p)
                   /\ UNCHANGED <<server, config, command, faults>>

ControlStop(p) == /\ tool = "idle"
                  /\ CancelRunner(p)
                  /\ UNCHANGED <<server, config, command, faults>>

Remove == service' = IF service = "absent" \/ main = NoProc THEN "absent" ELSE "marked"

ControlUninstall == /\ tool = "idle"
                    /\ service = "installed"
                    /\ Remove
                    /\ outcome' = "none"
                    /\ UNCHANGED <<server, config, main, state, token, tool, arg, faults>>

(* An operator runs install or reinstall with a token he has seen.         *)
BeginSetup(t, step) == /\ tool = "idle"
                       /\ t \in known
                       /\ tool' = step
                       /\ arg' = t
                       /\ outcome' = "none"
                       /\ UNCHANGED <<server, config, process, faults>>

Install(t)   == BeginSetup(t, "save")
Reinstall(t) == BeginSetup(t, "stop")

Step(next) == tool' = next /\ UNCHANGED <<arg, outcome>>

(* An error that is returned: what was done stays done.                    *)
Abort == tool' = "idle" /\ outcome' = "failed" /\ UNCHANGED arg

(* Stop a service that runs, and wait for it; it is ignored that there is  *)
(* none or that it is stopped (ignorableReinstallControlError).            *)
SetupStop ==
  /\ tool = "stop"
  /\ \/ \E p \in Procs : CancelRunner(p) /\ Step("wait")
     \/ main = NoProc /\ Step("uninstall") /\ UNCHANGED process
  /\ UNCHANGED <<server, config, faults>>

(* A process that is starting or stopping takes no such request.           *)
SetupStopRefused == /\ tool = "stop"
                    /\ main # NoProc
                    /\ state[main] # "up"
                    /\ Abort
                    /\ UNCHANGED <<server, config, process, faults>>

SetupStopped == /\ tool = "wait"
                /\ main = NoProc
                /\ Step("uninstall")
                /\ UNCHANGED <<server, config, process, faults>>

SetupUninstall_NotIgnored ==        \* variant: a missing service is an error
  /\ tool = "uninstall"
  /\ \/ service # "absent" /\ Remove /\ Step("save")
     \/ service = "absent" /\ Abort /\ UNCHANGED service
  /\ UNCHANGED <<server, config, main, state, token, faults>>

SetupUninstall == /\ tool = "uninstall"
                  /\ Remove
                  /\ Step("save")
                  /\ UNCHANGED <<server, config, main, state, token, faults>>

(* SaveConfig: os.WriteFile truncates the file, then writes it.            *)
SetupTruncate == /\ tool = "save"
                 /\ config' = Torn
                 /\ Step("write")
                 /\ UNCHANGED <<server, process, faults>>

SetupWrite_ErrorDropped ==          \* variant: the error of WriteFile is dropped
  /\ tool = "write"
  /\ config' \in {config, arg}
  /\ Step("install")
  /\ UNCHANGED <<server, process, faults>>

SetupWrite == /\ tool = "write"
              /\ config' = arg
              /\ Step("install")
              /\ UNCHANGED <<server, process, faults>>

SetupInstall == /\ tool = "install"
                /\ service = "absent"
                /\ service' = "installed"
                /\ Step("start")
                /\ UNCHANGED <<server, config, main, state, token, faults>>

(* There is one: an install where a reinstall was needed.  The file is     *)
(* written all the same.                                                   *)
SetupInstallRefused == /\ tool = "install"
                       /\ service # "absent"
                       /\ Abort
                       /\ UNCHANGED <<server, config, process, faults>>

SetupStart == /\ tool = "start"
              /\ \E p \in Procs : Launch(p)
              /\ tool' = "idle"
              /\ outcome' = "done"
              /\ UNCHANGED <<server, config, arg, faults>>

SetupStep == \/ SetupStop \/ SetupStopRefused \/ SetupStopped \/ SetupUninstall
             \/ SetupTruncate \/ SetupWrite \/ SetupInstall \/ SetupInstallRefused
             \/ SetupStart

-----------------------------------------------------------------------------
(* Faults.                                                                 *)

Fault == faults < MaxFaults /\ faults' = faults + 1

(* Any step of install or reinstall fails, or the operator interrupts it.  *)
SetupFails == /\ Fault
              /\ tool # "idle"
              /\ Abort
              /\ UNCHANGED <<server, config, process>>

Crash(p) == /\ Fault
            /\ state[p] # "none"
            /\ state' = [state EXCEPT ![p] = "none"]
            /\ token' = [token EXCEPT ![p] = NoToken]
            /\ Detach(p)
            /\ UNCHANGED <<server, config, command>>

(* The machine restarts; ControlStart stands for the automatic start.      *)
Reboot == /\ Fault
          /\ state' = [p \in Procs |-> "none"]
          /\ token' = [p \in Procs |-> NoToken]
          /\ main' = NoProc
          /\ service' = IF service = "marked" THEN "absent" ELSE service
          /\ IF tool = "idle" THEN UNCHANGED command ELSE Abort
          /\ UNCHANGED <<server, config>>

-----------------------------------------------------------------------------
Next == \/ CreateMachine
        \/ StartRotation
        \/ \E t \in Tokens : \/ RotateMachineToken(t) \/ RotationFails(t)
                             \/ Admit(t) \/ EndRequest(t)
                             \/ Install(t) \/ Reinstall(t)
        \/ \E p \in Procs : \/ LoadConfig(p) \/ LoadConfigFails(p)
                            \/ RunnerEnds(p) \/ StopTimesOut(p) \/ Exit(p)
                            \/ ControlStart(p) \/ ControlStop(p)
                            \/ Crash(p)
        \/ ControlUninstall
        \/ SetupStep
        \/ SetupFails
        \/ Reboot

Spec == Init /\ [][Next]_vars

(* Handlers and processes end what they do, and a command goes on unless   *)
(* it fails.  An operator who has seen the valid token reinstalls now and  *)
(* again, some time while the service is not just starting or stopping.    *)
(* A file that is whole again and again is some time read whole.           *)
Persistent == main # NoProc => state[main] = "up"

FairSpec == /\ Spec
            /\ \A t \in Tokens : WF_vars(EndRequest(t))
            /\ \A p \in Procs : /\ WF_vars(LoadConfig(p) \/ LoadConfigFails(p))
                                /\ WF_vars(RunnerEnds(p) \/ StopTimesOut(p))
                                /\ WF_vars(Exit(p))
            /\ WF_vars(SetupStep)
            /\ SF_vars(Persistent /\ Reinstall(valid))
            /\ SF_vars(\E p \in Procs : LoadConfig(p))

-----------------------------------------------------------------------------
(* Properties.                                                             *)

TypeOK ==
  /\ made \in 0..MaxTokens
  /\ valid \in 0..made
  /\ pending \subseteq 1..made
  /\ known \subseteq 1..made
  /\ admitted \subseteq 1..made
  /\ config \in Tokens \cup {NoFile, Torn}
  /\ service \in {"absent", "installed", "marked"}
  /\ main \in Procs \cup {NoProc}
  /\ state \in [Procs -> {"none", "starting", "up", "stopping", "leaving"}]
  /\ token \in [Procs -> Tokens \cup {NoToken}]
  /\ \A p \in Procs : state[p] \in {"up", "stopping", "leaving"} <=> token[p] # NoToken
  /\ tool \in {"idle", "stop", "wait", "uninstall", "save", "write", "install", "start"}
  /\ arg \in Tokens \cup {NoToken}
  /\ outcome \in {"none", "failed", "done"}
  /\ faults \in 0..MaxFaults

(* When install or reinstall reports success the file holds its token, and *)
(* whatever process the service has or gets later, after crashes, restarts *)
(* and reboots, runs with it: no half-done step is taken for success.      *)
SetupTruth ==
  outcome = "done" =>
     /\ config = arg
     /\ service = "installed"
     /\ \A p \in Procs : main = p /\ state[p] # "starting" => token[p] = arg

(* A second process of the service never works beside an older one, unless *)
(* that one could not end within the 15 s of Stop (main.go:266) and is on  *)
(* its way out.                                                            *)
NoOverlap ==
  \A p, q \in Procs :
     (p # q /\ main = p /\ state[q] # "none") => state[q] = "leaving"

(* A rotated token is dead: what was authenticated before the rotation is  *)
(* still recorded (store.go:339 and the Record methods are two             *)
(* statements), and after that nothing that carries it ever is.            *)
RevokedSoon == <>[](admitted \subseteq {valid})

(* A machine whose token was rotated reports again, if an operator has     *)
(* seen the new token and reinstalls: reinstall starts from whatever the   *)
(* last one left, with any of its steps failed (main.go:91).               *)
OnlyValidInstalled == tool # "idle" => arg = valid

Works(t) == \E p \in Procs : main = p /\ state[p] = "up" /\ token[p] = t

RotationHeals ==
  <>[]OnlyValidInstalled =>
     \A t \in Tokens : valid = t /\ t \in known ~> Works(t) \/ valid # t
=============================================================================
