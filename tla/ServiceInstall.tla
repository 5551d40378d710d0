---------------------------- MODULE ServiceInstall ----------------------------
(***************************************************************************)
(* `subconverter-server service ...` (crates/subconverter-server/src/       *)
(* service.rs): install and upgrade, start, stop, restart, uninstall, on    *)
(* the managed binary, the managed base/ and the service manager's          *)
(* registration.  Each scope has one administrator, who runs one command at *)
(* a time; the scopes are independent but for reject_parallel_scope.  Every *)
(* step may fail, which ends the command, or the machine may be restarted,  *)
(* which ends all commands where they are.                                        *)
(*                                                                         *)
(* A file or tree is told by the release it is a copy of.  What a step does *)
(* to the access rights, and the account, are left out.                     *)
(***************************************************************************)
EXTENDS Integers

CONSTANTS
    Scopes,      \* {"system", "user"}, or one of them
    Versions,    \* releases
    RunAtLoad,   \* whether registering starts the service (launchd)
    MaxFaults,   \* bound on failing steps and restarts
    MaxCommands  \* bound on the commands

ASSUME ScopesAssumption == Scopes \subseteq {"system", "user"}
ASSUME VersionsAssumption == Versions \subseteq Nat \ {0} /\ Versions # {}
ASSUME RunAtLoadAssumption == RunAtLoad \in BOOLEAN
ASSUME BoundsAssumption == MaxFaults \in Nat /\ MaxCommands \in Nat

VARIABLES
    files,     \* per scope and part, what is at the destination, .new and .old
    pref,      \* per scope, whether the data directory has a pref file
    unit,      \* per scope, whether the service is registered
    proc,      \* per scope, what the service's process is doing
    job,       \* per scope, the command that runs
    had,       \* per scope and part, whether it was ever in place
    faults, commands

vars == <<files, pref, unit, proc, job, had, faults, commands>>

-----------------------------------------------------------------------------
Absent  == 0
Partial == -1    \* a copy that was interrupted
Parts == {"program", "base"}
Places == [dest : Versions \cup {Absent}, staged : Versions \cup {Absent, Partial},
           backup : Versions \cup {Absent, Partial}]

\* Mutated form of Steps: the binary's old backup goes before the copy, too.
StepsOfTree(part) ==
    <<"rmStaged", "rmBackup", "copy", "copying", "moveOut", "moveIn", "clean">>

\* Mutated form of Steps: the binary is moved in while it is being copied.
StepsUnfinished(part) ==
    IF part = "program"
    THEN <<"rmStaged", "copy", "rmBackup", "moveOut", "moveIn", "copying", "clean">>
    ELSE <<"rmStaged", "rmBackup", "copy", "copying", "moveOut", "moveIn", "clean">>

\* The steps of replace_file and of replace_tree, in order: the tree's old
\* backup goes before the copy, the binary's after it.
Steps(part) ==
    IF part = "program"
    THEN <<"rmStaged", "copy", "copying", "rmBackup", "moveOut", "moveIn", "clean">>
    ELSE <<"rmStaged", "rmBackup", "copy", "copying", "moveOut", "moveIn", "clean">>

Pcs == {"stop", "stopping", "unregister", "account", "replace", "pref",
        "permissions", "register", "start", "starting", "report"}

NoJob == [cmd |-> "none"]
Jobs == [cmd : {"install", "start", "stop", "restart", "uninstall"}, pc : Pcs,
         then : Pcs,               \* where to go when the service has stopped
         installed : BOOLEAN,      \* the status an install began with
         part : Parts, step : 1..7,
         exe : Versions, assets : Versions,
         inPlace : BOOLEAN,        \* the managed binary itself is running
         noStart : BOOLEAN]

\* What status() answers; a service that is being started counts as stopped.
Status(s) ==
    IF ~unit[s] THEN "not-installed"
    ELSE IF proc[s] \in {"up", "stopping"} THEN "running" ELSE "stopped"

Goto(s, pc) == job' = [job EXCEPT ![s].pc = pc]
At(s, pc) == job[s].cmd # "none" /\ job[s].pc = pc

-----------------------------------------------------------------------------
Init ==
    /\ files = [s \in Scopes |->
                  [p \in Parts |-> [dest |-> Absent, staged |-> Absent, backup |-> Absent]]]
    /\ pref = [s \in Scopes |-> FALSE]
    /\ unit = [s \in Scopes |-> FALSE]
    /\ proc = [s \in Scopes |-> "down"]
    /\ job = [s \in Scopes |-> NoJob]
    /\ had = [s \in Scopes |-> [p \in Parts |-> FALSE]]
    /\ faults = 0
    /\ commands = 0

Begin(s, j) ==
    /\ job[s] = NoJob
    /\ commands < MaxCommands
    /\ commands' = commands + 1
    /\ job' = [job EXCEPT ![s] = j]
    /\ UNCHANGED <<files, pref, unit, proc, had, faults>>

Plain(cmd, pc, then) ==
    [cmd |-> cmd, pc |-> pc, then |-> then, installed |-> TRUE, part |-> "program",
     step |-> 1, exe |-> CHOOSE v \in Versions : TRUE,
     assets |-> CHOOSE v \in Versions : TRUE, inPlace |-> FALSE, noStart |-> FALSE]

\* Mutated form of InstallFirstPc: an upgrade leaves the service registered.
InstallFirstPcKeeping(s) ==
    IF Status(s) = "running" THEN "stop" ELSE "account"

\* Where install goes once it has read the status.
InstallFirstPc(s) ==
    CASE Status(s) = "running" -> "stop"
      [] Status(s) = "stopped" -> "unregister"
      [] OTHER -> "account"

\* install: no service in the other scope, a release at hand.
BeginInstall(s, exe, assets, inPlace, noStart) ==
    /\ \A o \in Scopes \ {s} : ~unit[o]
    /\ inPlace => files[s]["program"].dest = exe
    /\ Begin(s, [Plain("install", InstallFirstPc(s),
                       IF Status(s) = "running" THEN "unregister" ELSE "report")
                 EXCEPT !.installed = unit[s], !.exe = exe, !.assets = assets,
                        !.inPlace = inPlace, !.noStart = noStart])

\* start, stop, restart and uninstall; those that do nothing are left out.
BeginStart(s) ==
    /\ Status(s) = "stopped"
    /\ Begin(s, Plain("start", "start", "report"))

BeginStop(s) ==
    /\ Status(s) = "running"
    /\ Begin(s, Plain("stop", "stop", "report"))

BeginRestart(s) ==
    /\ Status(s) # "not-installed"
    /\ Begin(s, Plain("restart", IF Status(s) = "running" THEN "stop" ELSE "start", "start"))

BeginUninstall(s) ==
    /\ Status(s) # "not-installed"
    /\ Begin(s, Plain("uninstall", IF Status(s) = "running" THEN "stop" ELSE "unregister",
                      "unregister"))

\* stop(): nothing to do when the service has meanwhile stopped.
Stop(s) ==
    /\ At(s, "stop")
    /\ IF Status(s) = "running"
       THEN /\ proc' = [proc EXCEPT ![s] = "stopping"]
            /\ Goto(s, "stopping")
       ELSE /\ Goto(s, job[s].then)
            /\ UNCHANGED proc
    /\ UNCHANGED <<files, pref, unit, had, faults, commands>>

\* wait_for_status sees it stopped.
StopSeen(s) ==
    /\ At(s, "stopping") /\ Status(s) = "stopped"
    /\ Goto(s, job[s].then)
    /\ UNCHANGED <<files, pref, unit, proc, had, faults, commands>>

\* wait_for_status gives up after 30 seconds; the service may go on to stop,
\* or to come up, after that.
WaitTimesOut(s) ==
    /\ \/ At(s, "stopping") /\ Status(s) # "stopped"
       \/ At(s, "starting") /\ Status(s) # "running"
    /\ job' = [job EXCEPT ![s] = NoJob]
    /\ UNCHANGED <<files, pref, unit, proc, had, faults, commands>>

Unregister(s) ==
    /\ At(s, "unregister")
    /\ unit' = [unit EXCEPT ![s] = FALSE]
    /\ Goto(s, IF job[s].cmd = "install" THEN "account" ELSE "report")
    /\ UNCHANGED <<files, pref, proc, had, faults, commands>>

\* The definition is gone, but the manager cannot be made to reload.
UnregisterFailsHalfway(s) ==
    /\ At(s, "unregister")
    /\ ~RunAtLoad
    /\ faults < MaxFaults
    /\ faults' = faults + 1
    /\ unit' = [unit EXCEPT ![s] = FALSE]
    /\ job' = [job EXCEPT ![s] = NoJob]
    /\ UNCHANGED <<files, pref, proc, had, commands>>

\* prepare_account and the directories.
PrepareAccount(s) ==
    /\ At(s, "account")
    /\ job' = [job EXCEPT ![s].pc = "replace", ![s].step = 1,
                          ![s].part = IF job[s].inPlace THEN "base" ELSE "program"]
    /\ UNCHANGED <<files, pref, unit, proc, had, faults, commands>>

-----------------------------------------------------------------------------
\* replace_file(current_exe, program), then replace_tree(assets/base, base).

InStep(s, step) == At(s, "replace") /\ Steps(job[s].part)[job[s].step] = step

Source(s) == IF job[s].part = "program" THEN job[s].exe ELSE job[s].assets

\* After the last step of the binary comes the tree, after the tree's the pref.
NextStep(s) ==
    job' = [job EXCEPT ![s] =
              IF job[s].step < 7 THEN [job[s] EXCEPT !.step = @ + 1]
              ELSE IF job[s].part = "program"
                   THEN [job[s] EXCEPT !.part = "base", !.step = 1]
                   ELSE [job[s] EXCEPT !.pc = "pref"]]

Place(s, f) == files' = [files EXCEPT ![s][job[s].part] = f]
Here(s) == files[s][job[s].part]

RemoveStaged(s) ==
    /\ InStep(s, "rmStaged")
    /\ Place(s, [Here(s) EXCEPT !.staged = Absent])
    /\ NextStep(s)
    /\ UNCHANGED <<pref, unit, proc, had, faults, commands>>

RemoveBackup(s) ==
    /\ InStep(s, "rmBackup")
    /\ Place(s, [Here(s) EXCEPT !.backup = Absent])
    /\ NextStep(s)
    /\ UNCHANGED <<pref, unit, proc, had, faults, commands>>

CopyBegins(s) ==
    /\ InStep(s, "copy")
    /\ Place(s, [Here(s) EXCEPT !.staged = Partial])
    /\ NextStep(s)
    /\ UNCHANGED <<pref, unit, proc, had, faults, commands>>

CopyEnds(s) ==
    /\ InStep(s, "copying")
    /\ Place(s, [Here(s) EXCEPT !.staged = Source(s)])
    /\ NextStep(s)
    /\ UNCHANGED <<pref, unit, proc, had, faults, commands>>

\* The first rename, if there is something to set aside.
MoveOut(s) ==
    /\ InStep(s, "moveOut")
    /\ Place(s, IF Here(s).dest = Absent THEN Here(s)
                ELSE [Here(s) EXCEPT !.backup = Here(s).dest, !.dest = Absent])
    /\ NextStep(s)
    /\ UNCHANGED <<pref, unit, proc, had, faults, commands>>

\* The second rename.
MoveIn(s) ==
    /\ InStep(s, "moveIn")
    /\ Place(s, [Here(s) EXCEPT !.dest = Here(s).staged, !.staged = Absent])
    /\ had' = [had EXCEPT ![s][job[s].part] = TRUE]
    /\ NextStep(s)
    /\ UNCHANGED <<pref, unit, proc, faults, commands>>

\* Mutated form of MoveInFails: the install goes on.
MoveInFailsSilently(s) ==
    /\ InStep(s, "moveIn")
    /\ faults < MaxFaults
    /\ faults' = faults + 1
    /\ \/ /\ Here(s).backup # Absent /\ Here(s).dest = Absent
          /\ Place(s, [Here(s) EXCEPT !.dest = Here(s).backup, !.backup = Absent])
       \/ UNCHANGED files
    /\ NextStep(s)
    /\ UNCHANGED <<pref, unit, proc, had, commands>>

\* It fails: what was set aside is moved back, if that works.
MoveInFails(s) ==
    /\ InStep(s, "moveIn")
    /\ faults < MaxFaults
    /\ faults' = faults + 1
    /\ \/ /\ Here(s).backup # Absent /\ Here(s).dest = Absent
          /\ Place(s, [Here(s) EXCEPT !.dest = Here(s).backup, !.backup = Absent])
       \/ UNCHANGED files
    /\ job' = [job EXCEPT ![s] = NoJob]
    /\ UNCHANGED <<pref, unit, proc, had, commands>>

\* The backup is removed; the binary's may stay.
CleanUp(s) ==
    /\ InStep(s, "clean")
    /\ \/ Place(s, [Here(s) EXCEPT !.backup = Absent])
       \/ job[s].part = "program" /\ UNCHANGED files
    /\ NextStep(s)
    /\ UNCHANGED <<pref, unit, proc, had, faults, commands>>

\* Removing a tree fails or is cut off halfway.
RemovalFailsHalfway(s) ==
    /\ job[s].cmd # "none" /\ job[s].part = "base"
    /\ faults < MaxFaults
    /\ faults' = faults + 1
    /\ \/ /\ InStep(s, "rmStaged") /\ Here(s).staged # Absent
          /\ Place(s, [Here(s) EXCEPT !.staged = Partial])
       \/ /\ InStep(s, "rmBackup") \/ InStep(s, "clean")
          /\ Here(s).backup # Absent
          /\ Place(s, [Here(s) EXCEPT !.backup = Partial])
    /\ job' = [job EXCEPT ![s] = NoJob]
    /\ UNCHANGED <<pref, unit, proc, had, commands>>

-----------------------------------------------------------------------------
CreateInitialPref(s) ==
    /\ At(s, "pref")
    /\ pref' = [pref EXCEPT ![s] = TRUE]
    /\ Goto(s, "permissions")
    /\ UNCHANGED <<files, unit, proc, had, faults, commands>>

ApplyPermissions(s) ==
    /\ At(s, "permissions")
    /\ Goto(s, "register")
    /\ UNCHANGED <<files, pref, unit, proc, had, faults, commands>>

\* register(), then what --no-start asks for.  Where registering starts the
\* service it is stopped again.
Register(s) ==
    /\ At(s, "register")
    /\ unit' = [unit EXCEPT ![s] = TRUE]
    /\ proc' = IF RunAtLoad THEN [proc EXCEPT ![s] = "up"] ELSE proc
    /\ job' = [job EXCEPT ![s].then = "report",
                          ![s].pc = IF ~job[s].noStart THEN "start"
                                    ELSE IF RunAtLoad THEN "stop" ELSE "report"]
    /\ UNCHANGED <<files, pref, had, faults, commands>>

\* The definition is installed, but what must follow fails, and taking the
\* definition back fails too.
RegisterFailsHalfway(s) ==
    /\ At(s, "register")
    /\ ~RunAtLoad
    /\ faults < MaxFaults
    /\ faults' = faults + 1
    /\ unit' = [unit EXCEPT ![s] = TRUE]
    /\ job' = [job EXCEPT ![s] = NoJob]
    /\ UNCHANGED <<files, pref, proc, had, commands>>

\* start(): the manager is asked unless the service runs already.
Start(s) ==
    /\ At(s, "start")
    /\ \/ /\ Status(s) = "running"
          /\ Goto(s, "report")
          /\ UNCHANGED proc
       \/ /\ Status(s) = "stopped"
          /\ proc' = [proc EXCEPT ![s] = "starting"]
          /\ Goto(s, "starting")
    /\ UNCHANGED <<files, pref, unit, had, faults, commands>>

\* wait_for_status sees it running.
StartSeen(s) ==
    /\ At(s, "starting") /\ Status(s) = "running"
    /\ Goto(s, "report")
    /\ UNCHANGED <<files, pref, unit, proc, had, faults, commands>>

\* The command reports success.
Report(s) ==
    /\ At(s, "report")
    /\ job' = [job EXCEPT ![s] = NoJob]
    /\ UNCHANGED <<files, pref, unit, proc, had, faults, commands>>

\* Any step fails before it had an effect: the command ends with an error.
StepFails(s) ==
    /\ job[s] # NoJob
    /\ faults < MaxFaults
    /\ faults' = faults + 1
    /\ job' = [job EXCEPT ![s] = NoJob]
    /\ UNCHANGED <<files, pref, unit, proc, had, commands>>

-----------------------------------------------------------------------------
\* The service manager: what was asked for happens in its own time, and a
\* service may end, or be started (at login, by the restart policy) unasked.
ServiceStops(s) ==
    /\ proc[s] \in {"stopping", "starting", "up"}
    /\ proc' = [proc EXCEPT ![s] = "down"]
    /\ UNCHANGED <<files, pref, unit, job, had, faults, commands>>

ServiceComesUp(s) ==
    /\ proc[s] = "starting"
    /\ proc' = [proc EXCEPT ![s] = "up"]
    /\ UNCHANGED <<files, pref, unit, job, had, faults, commands>>

ManagerStarts(s) ==
    /\ unit[s] /\ proc[s] = "down"
    /\ proc' = [proc EXCEPT ![s] = "starting"]
    /\ UNCHANGED <<files, pref, unit, job, had, faults, commands>>

\* The machine is restarted: commands end where they are, installed services
\* are started.  What was written is on disk; the code never syncs, and what a
\* sudden loss of power may undo is left out.
Reboot ==
    /\ faults < MaxFaults
    /\ faults' = faults + 1
    /\ job' = [s \in Scopes |-> NoJob]
    /\ proc' = [s \in Scopes |-> IF unit[s] THEN "starting" ELSE "down"]
    /\ UNCHANGED <<files, pref, unit, had, commands>>

Command(s) ==
    \/ \E exe, assets \in Versions, inPlace, noStart \in BOOLEAN :
          BeginInstall(s, exe, assets, inPlace, noStart)
    \/ BeginStart(s) \/ BeginStop(s) \/ BeginRestart(s) \/ BeginUninstall(s)

Replace(s) ==
    \/ RemoveStaged(s) \/ RemoveBackup(s) \/ CopyBegins(s) \/ CopyEnds(s)
    \/ MoveOut(s) \/ MoveIn(s) \/ MoveInFails(s) \/ CleanUp(s)
    \/ RemovalFailsHalfway(s)

ScopeNext(s) ==
    \/ Command(s)
    \/ Stop(s) \/ StopSeen(s) \/ WaitTimesOut(s)
    \/ Unregister(s) \/ UnregisterFailsHalfway(s) \/ PrepareAccount(s) \/ Replace(s)
    \/ CreateInitialPref(s) \/ ApplyPermissions(s)
    \/ Register(s) \/ RegisterFailsHalfway(s)
    \/ Start(s) \/ StartSeen(s) \/ Report(s) \/ StepFails(s)
    \/ ServiceStops(s) \/ ServiceComesUp(s) \/ ManagerStarts(s)

Next == (\E s \in Scopes : ScopeNext(s)) \/ Reboot

Spec == Init /\ [][Next]_vars

-----------------------------------------------------------------------------
\* Type invariant.
TypeOK ==
    /\ files \in [Scopes -> [Parts -> Places]]
    /\ pref \in [Scopes -> BOOLEAN]
    /\ unit \in [Scopes -> BOOLEAN]
    /\ proc \in [Scopes -> {"down", "starting", "up", "stopping"}]
    /\ job \in [Scopes -> {NoJob} \cup Jobs]
    /\ had \in [Scopes -> [Parts -> BOOLEAN]]
    /\ faults \in Nat
    /\ commands \in Nat

\* Whatever fails and whenever the machine is restarted, a service is registered only
\* over a whole binary and a whole base/, with a pref file beside them: the
\* manager can start it at any moment.
RegisteredIsWhole ==
    \A s \in Scopes : unit[s] =>
        /\ pref[s]
        /\ \A p \in Parts : files[s][p].dest \in Versions

\* One failure or restart, wherever it strikes, leaves a whole copy of an
\* installed binary, under its own name or as .old or .new, and a retry does
\* not remove it.  (Two can lose it, and one can lose base/.)
OneFaultKeepsProgram ==
    \A s \in Scopes : had[s]["program"] /\ faults <= 1 =>
        LET f == files[s]["program"] IN
        f.dest \in Versions \/ f.staged \in Versions \/ f.backup \in Versions

\* An install that reports success has registered exactly the release it was
\* given, with nothing of an earlier or an interrupted install in it.
InstallDelivers ==
    \A s \in Scopes : At(s, "report") /\ job[s].cmd = "install" =>
        /\ unit[s]
        /\ files[s]["program"].dest = job[s].exe
        /\ files[s]["base"].dest = job[s].assets

\* A release is deployed or removed in one step, seen from the registration.
Promise == INSTANCE Deployment WITH
    deployed <- [s \in Scopes |->
        IF unit[s] THEN [registered |-> TRUE, exe |-> files[s]["program"].dest,
                         assets |-> files[s]["base"].dest]
        ELSE [registered |-> FALSE]]
ImplementsDeployment == Promise!Spec

-----------------------------------------------------------------------------
\* docs/SERVICES.md: the upgrade "atomically replaces the managed binary and
\* official base/": once in place they are there whenever no command runs.
AtomicReplacement ==
    \A s \in Scopes, p \in Parts :
        had[s][p] /\ job[s] = NoJob => files[s][p].dest \in Versions
=============================================================================
