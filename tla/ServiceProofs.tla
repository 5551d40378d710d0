---------------------------- MODULE ServiceProofs ----------------------------
(***************************************************************************)
(* The managed service: how it is installed, and how its process ends.     *)
(* Of the installer, what a registered service consists of, whatever steps *)
(* fail and whenever the machine is restarted, for any releases, on a      *)
(* manager that starts a service when it is registered and on one that     *)
(* does not.  Of the process, what a shutdown waits for and for how long,  *)
(* whatever requests come, for any time limit and any cron tasks.          *)
(***************************************************************************)
EXTENDS ServiceInstall, WindowsHost, TLAPS

-----------------------------------------------------------------------------
\* The installer.


\* The steps between the removal of the old registration and the new one.
OfflinePcs == {"account", "replace", "pref", "permissions", "register"}

Installing(s) == job[s].cmd = "install"
Replacing(s, part) == At(s, "replace") /\ job[s].part = part

\* Both parts are in place from here on.
AfterReplacing(s) ==
    \/ job[s].pc \in {"pref", "permissions", "register", "start", "starting", "report"}
    \/ job[s].pc \in {"stop", "stopping"} /\ job[s].then = "report"

\* Only an install works on the files, and nothing is registered while it does.
Offline(s) ==
    job[s].cmd # "none" =>
        /\ job[s].pc \in OfflinePcs => Installing(s) /\ ~unit[s]
        /\ job[s].then \notin OfflinePcs

\* The managed binary that runs is the one that is installed.
InPlace(s) ==
    Installing(s) /\ job[s].inPlace =>
        files[s]["program"].dest = job[s].exe /\ ~Replacing(s, "program")

\* What was copied is whole until it is moved in.
Staged(s) ==
    /\ Replacing(s, "program") /\ job[s].step \in 4..6 =>
          files[s]["program"].staged = job[s].exe
    /\ Replacing(s, "base") /\ job[s].step \in 5..6 =>
          files[s]["base"].staged = job[s].assets

\* Once the old backup is gone, what takes its place is whole.
SetAside(s) ==
    /\ Replacing(s, "program") /\ job[s].step \in 5..6 =>
          files[s]["program"].backup # Partial
    /\ Replacing(s, "base") /\ job[s].step \in 3..6 =>
          files[s]["base"].backup # Partial

\* What was moved in is the release.
MovedIn(s) ==
    /\ (Replacing(s, "program") /\ job[s].step = 7) \/ Replacing(s, "base") =>
          files[s]["program"].dest = job[s].exe
    /\ Replacing(s, "base") /\ job[s].step = 7 =>
          files[s]["base"].dest = job[s].assets

\* From the pref file on, both are; from the registration on, it is registered.
Delivered(s) ==
    Installing(s) =>
        /\ job[s].then \in {"unregister", "report"}
        /\ AfterReplacing(s) =>
              /\ files[s]["program"].dest = job[s].exe
              /\ files[s]["base"].dest = job[s].assets
              /\ job[s].pc \notin OfflinePcs => unit[s]
        /\ job[s].pc \in {"permissions", "register"} => pref[s]

Whole(s) ==
    unit[s] => pref[s] /\ \A p \in Parts : files[s][p].dest \in Versions

\* Nothing failed yet: the binary is in place, but between the two renames.
KeptAtRest(s) ==
    had[s]["program"] /\ faults = 0 =>
        \/ files[s]["program"].dest \in Versions
        \/ /\ Replacing(s, "program") /\ job[s].step = 6
           /\ files[s]["program"].backup \in Versions

\* One step failed: it is in place, or set aside, or a copy is at hand.
KeptInRetry(s) ==
    had[s]["program"] /\ faults <= 1 =>
        \/ files[s]["program"].dest \in Versions
        \/ files[s]["program"].backup \in Versions
        \/ Replacing(s, "program") /\ job[s].step \in 5..6

Good(s) ==
    /\ Offline(s) /\ InPlace(s) /\ Staged(s) /\ SetAside(s) /\ MovedIn(s)
    /\ Delivered(s) /\ Whole(s) /\ KeptAtRest(s) /\ KeptInRetry(s)

IInv == TypeOK /\ \A s \in Scopes : Good(s)

-----------------------------------------------------------------------------
\* Types.

USE ScopesAssumption, VersionsAssumption, RunAtLoadAssumption, BoundsAssumption

\* A running command is one of the Jobs.
LEMMA JobType ==
    ASSUME TypeOK, NEW s \in Scopes, job[s].cmd # "none"
    PROVE  job[s] \in Jobs
  BY DEF TypeOK, NoJob

\* An idle scope has no command.
LEMMA NoJobIsNone == NoJob.cmd = "none"
  BY DEF NoJob

\* A record of Jobs is not NoJob.
LEMMA JobsRun == ASSUME NEW j \in Jobs PROVE j.cmd # "none"
  BY DEF Jobs

\* A command that ends leaves the jobs well-typed.
LEMMA NoJobType ==
    ASSUME TypeOK, NEW s \in Scopes, job' = [job EXCEPT ![s] = NoJob]
    PROVE  job' \in [Scopes -> {NoJob} \cup Jobs]
  BY DEF TypeOK

\* What Plain makes is a job.
LEMMA PlainType ==
    ASSUME NEW cmd \in {"install", "start", "stop", "restart", "uninstall"},
           NEW pc \in Pcs, NEW then \in Pcs
    PROVE  Plain(cmd, pc, then) \in Jobs
  BY DEF Plain, Jobs, Parts

\* A job with one field changed is a job.
LEMMA JobFields ==
    ASSUME NEW j \in Jobs, NEW pc \in Pcs, NEW part \in Parts, NEW step \in 1..7
    PROVE  /\ [j EXCEPT !.pc = pc] \in Jobs
           /\ [j EXCEPT !.then = pc] \in Jobs
           /\ [j EXCEPT !.part = part] \in Jobs
           /\ [j EXCEPT !.step = step] \in Jobs
  <1>1. [j EXCEPT !.pc = pc] \in Jobs
    BY DEF Jobs
  <1>2. [j EXCEPT !.then = pc] \in Jobs
    BY DEF Jobs
  <1>3. [j EXCEPT !.part = part] \in Jobs
    BY DEF Jobs
  <1>4. [j EXCEPT !.step = step] \in Jobs
    BY DEF Jobs
  <1> QED
    BY <1>1, <1>2, <1>3, <1>4

\* Going on within the replacement keeps the job's type.
LEMMA NextStepType ==
    ASSUME TypeOK, NEW s \in Scopes, job[s].cmd # "none", NextStep(s)
    PROVE  job' \in [Scopes -> {NoJob} \cup Jobs]
  <1>1. job[s] \in Jobs
    BY JobType
  <1>2. [job[s] EXCEPT !.pc = "pref"] \in Jobs
    BY <1>1 DEF Jobs, Pcs
  <1>4. [job[s] EXCEPT !.part = "base", !.step = 1] \in Jobs
    BY <1>1, "base" \in Parts, 1 \in 1..7 DEF Jobs, Parts
  <1>3. job[s].step < 7 => [job[s] EXCEPT !.step = @ + 1] \in Jobs
    BY <1>1 DEF Jobs
  <1> QED
    BY <1>1, <1>2, <1>3, <1>4 DEF NextStep, TypeOK

\* Putting well-formed files in place keeps the type of files.
LEMMA PlaceType ==
    ASSUME TypeOK, NEW s \in Scopes, job[s].cmd # "none", NEW f \in Places, Place(s, f)
    PROVE  files' \in [Scopes -> [Parts -> Places]]
  <1>1. job[s].part \in Parts
    BY JobType DEF Jobs
  <1> QED
    BY <1>1 DEF Place, TypeOK

\* What a job works on.
LEMMA HereType ==
    ASSUME TypeOK, NEW s \in Scopes, job[s].cmd # "none"
    PROVE  Here(s) \in Places /\ Source(s) \in Versions
  BY JobType DEF Here, Source, Jobs, TypeOK

-----------------------------------------------------------------------------
\* A command that begins keeps the types.
LEMMA CommandTypes ==
    ASSUME TypeOK, NEW s \in Scopes, Command(s)
    PROVE  TypeOK'
  <1>1. PICK j : Begin(s, j) /\ j \in Jobs
    <2>1. ASSUME NEW exe \in Versions, NEW assets \in Versions, NEW inPlace \in BOOLEAN,
                 NEW noStart \in BOOLEAN, BeginInstall(s, exe, assets, inPlace, noStart)
          PROVE  \E j : Begin(s, j) /\ j \in Jobs
      <3> DEFINE then == IF Status(s) = "running" THEN "unregister" ELSE "report"
                 p == Plain("install", InstallFirstPc(s), then)
                 j == [p EXCEPT !.installed = unit[s], !.exe = exe, !.assets = assets,
                                !.inPlace = inPlace, !.noStart = noStart]
      <3>1. InstallFirstPc(s) \in Pcs /\ then \in Pcs
        BY DEF InstallFirstPc, Pcs
      <3>2. p \in Jobs
        BY <3>1, PlainType
      <3>3. unit[s] \in BOOLEAN
        BY DEF TypeOK
      <3> HIDE DEF p
      <3>4. j \in Jobs
        BY <2>1, <3>2, <3>3 DEF Jobs
      <3>5. Begin(s, j)
        BY <2>1 DEF BeginInstall, p
      <3> QED
        BY <3>4, <3>5
    <2>2. CASE BeginStart(s)
      BY <2>2, PlainType DEF BeginStart, Pcs
    <2>3. CASE BeginStop(s)
      BY <2>3, PlainType DEF BeginStop, Pcs
    <2>4. CASE BeginRestart(s)
      <3>1. (IF Status(s) = "running" THEN "stop" ELSE "start") \in Pcs /\ "start" \in Pcs
        BY DEF Pcs
      <3> QED
        BY <2>4, <3>1, PlainType DEF BeginRestart
    <2>5. CASE BeginUninstall(s)
      <3>1. /\ (IF Status(s) = "running" THEN "stop" ELSE "unregister") \in Pcs
            /\ "unregister" \in Pcs
        BY DEF Pcs
      <3> QED
        BY <2>5, <3>1, PlainType DEF BeginUninstall
    <2> QED
      BY <2>1, <2>2, <2>3, <2>4, <2>5 DEF Command
  <1> QED
    BY <1>1 DEF Begin, TypeOK

\* Moving a job to another step of its command keeps its type.
LEMMA GotoType ==
    ASSUME TypeOK, NEW s \in Scopes, job[s].cmd # "none", NEW pc \in Pcs, Goto(s, pc)
    PROVE  job' \in [Scopes -> {NoJob} \cup Jobs]
  <1>1. job[s] \in Jobs
    BY JobType
  <1>2. [job[s] EXCEPT !.pc = pc] \in Jobs
    BY <1>1 DEF Jobs
  <1> QED
    BY <1>2 DEF Goto, TypeOK

\* The steps of a command but for those on the files keep the types.
LEMMA JobStepTypes ==
    ASSUME TypeOK, NEW s \in Scopes,
           \/ Stop(s) \/ StopSeen(s) \/ WaitTimesOut(s)
           \/ Unregister(s) \/ UnregisterFailsHalfway(s) \/ PrepareAccount(s)
           \/ CreateInitialPref(s) \/ ApplyPermissions(s)
           \/ Register(s) \/ RegisterFailsHalfway(s)
           \/ Start(s) \/ StartSeen(s) \/ Report(s) \/ StepFails(s)
    PROVE  TypeOK'
  <1>1. job[s].cmd # "none" => job[s] \in Jobs /\ job[s].then \in Pcs
    BY JobType DEF Jobs
  <1>2. CASE Stop(s)
    <2>1. job' \in [Scopes -> {NoJob} \cup Jobs]
      BY <1>1, <1>2, GotoType, "stopping" \in Pcs DEF Stop, At, Pcs
    <2> QED
      BY <1>2, <2>1 DEF Stop, TypeOK
  <1>3. CASE StopSeen(s)
    <2>1. job' \in [Scopes -> {NoJob} \cup Jobs]
      BY <1>1, <1>3, GotoType DEF StopSeen, At
    <2> QED
      BY <1>3, <2>1 DEF StopSeen, TypeOK
  <1>4. CASE WaitTimesOut(s)
    BY <1>4 DEF WaitTimesOut, TypeOK
  <1>5. CASE Unregister(s)
    <2>1. job' \in [Scopes -> {NoJob} \cup Jobs]
      BY <1>5, GotoType DEF Unregister, At, Pcs
    <2> QED
      BY <1>5, <2>1 DEF Unregister, TypeOK
  <1>6. CASE UnregisterFailsHalfway(s)
    BY <1>6 DEF UnregisterFailsHalfway, TypeOK
  <1>7. CASE PrepareAccount(s)
    <2> DEFINE part == IF job[s].inPlace THEN "base" ELSE "program"
               j1 == [job[s] EXCEPT !.pc = "replace"]
               j2 == [j1 EXCEPT !.step = 1]
               j == [j2 EXCEPT !.part = part]
    <2>1. job[s] \in Jobs
      BY <1>1, <1>7 DEF PrepareAccount, At
    <2>2. part \in Parts /\ "replace" \in Pcs /\ 1 \in 1..7
      BY DEF Parts, Pcs
    <2>3. j \in Jobs
      <3> HIDE DEF part
      <3>1. j1 \in Jobs
        BY <2>1, <2>2, JobFields
      <3>2. j2 \in Jobs
        <4> HIDE DEF j1
        <4> QED
          BY <3>1, <2>2, JobFields
      <3> HIDE DEF j2
      <3> QED
        BY <3>2, <2>2, JobFields
    <2>4. job' = [job EXCEPT ![s] = j]
      BY <1>7 DEF PrepareAccount, TypeOK
    <2> HIDE DEF j
    <2>5. job' \in [Scopes -> {NoJob} \cup Jobs]
      BY <2>3, <2>4 DEF TypeOK
    <2> QED
      BY <1>7, <2>5 DEF PrepareAccount, TypeOK
  <1>8. CASE CreateInitialPref(s)
    <2>1. job' \in [Scopes -> {NoJob} \cup Jobs]
      BY <1>8, GotoType DEF CreateInitialPref, At, Pcs
    <2> QED
      BY <1>8, <2>1 DEF CreateInitialPref, TypeOK
  <1>9. CASE ApplyPermissions(s)
    <2>1. job' \in [Scopes -> {NoJob} \cup Jobs]
      BY <1>9, GotoType DEF ApplyPermissions, At, Pcs
    <2> QED
      BY <1>9, <2>1 DEF ApplyPermissions, TypeOK
  <1>10. CASE Register(s)
    <2> DEFINE pc == IF ~job[s].noStart THEN "start"
                     ELSE IF RunAtLoad THEN "stop" ELSE "report"
               j1 == [job[s] EXCEPT !.then = "report"]
               j == [j1 EXCEPT !.pc = pc]
    <2>1. job[s] \in Jobs
      BY <1>1, <1>10 DEF Register, At
    <2>2. pc \in Pcs /\ "report" \in Pcs /\ "program" \in Parts /\ 1 \in 1..7
      BY DEF Pcs, Parts
    <2>3. j \in Jobs
      <3> HIDE DEF pc
      <3>1. j1 \in Jobs
        BY <2>1, <2>2, JobFields
      <3> HIDE DEF j1
      <3> QED
        BY <3>1, <2>2, JobFields
    <2>4. job' = [job EXCEPT ![s] = j]
      BY <1>10 DEF Register, TypeOK
    <2>5. proc' \in [Scopes -> {"down", "starting", "up", "stopping"}]
      BY <1>10 DEF Register, TypeOK
    <2> HIDE DEF j
    <2>6. job' \in [Scopes -> {NoJob} \cup Jobs]
      BY <2>3, <2>4 DEF TypeOK
    <2> QED
      BY <1>10, <2>5, <2>6 DEF Register, TypeOK
  <1>11. CASE RegisterFailsHalfway(s)
    BY <1>11 DEF RegisterFailsHalfway, TypeOK
  <1>12. CASE Start(s)
    <2>1. job' \in [Scopes -> {NoJob} \cup Jobs]
      BY <1>12, GotoType DEF Start, At, Pcs
    <2> QED
      BY <1>12, <2>1 DEF Start, TypeOK
  <1>13. CASE StartSeen(s)
    <2>1. job' \in [Scopes -> {NoJob} \cup Jobs]
      BY <1>13, GotoType DEF StartSeen, At, Pcs
    <2> QED
      BY <1>13, <2>1 DEF StartSeen, TypeOK
  <1>14. CASE Report(s)
    BY <1>14 DEF Report, TypeOK
  <1>15. CASE StepFails(s)
    BY <1>15 DEF StepFails, TypeOK
  <1> QED
    BY <1>2, <1>3, <1>4, <1>5, <1>6, <1>7, <1>8, <1>9, <1>10, <1>11, <1>12, <1>13,
       <1>14, <1>15

\* Which step each of the replacement's steps is.
LEMMA StepNumbers ==
    ASSUME TypeOK, NEW s \in Scopes, job[s].cmd # "none"
    PROVE  /\ InStep(s, "rmStaged") => At(s, "replace") /\ job[s].step = 1
           /\ InStep(s, "rmBackup") =>
                 \/ Replacing(s, "program") /\ job[s].step = 4
                 \/ Replacing(s, "base") /\ job[s].step = 2
           /\ InStep(s, "copy") =>
                 \/ Replacing(s, "program") /\ job[s].step = 2
                 \/ Replacing(s, "base") /\ job[s].step = 3
           /\ InStep(s, "copying") =>
                 \/ Replacing(s, "program") /\ job[s].step = 3
                 \/ Replacing(s, "base") /\ job[s].step = 4
           /\ InStep(s, "moveOut") => At(s, "replace") /\ job[s].step = 5
           /\ InStep(s, "moveIn") => At(s, "replace") /\ job[s].step = 6
           /\ InStep(s, "clean") => At(s, "replace") /\ job[s].step = 7
  <1> DEFINE k == job[s].step
             S(part) == Steps(part)[k]
  <1>1. k \in 1..7 /\ job[s].part \in Parts
    BY JobType DEF Jobs
  <1>2. /\ k = 1 => S("program") = "rmStaged" /\ S("base") = "rmStaged"
        /\ k = 2 => S("program") = "copy" /\ S("base") = "rmBackup"
        /\ k = 3 => S("program") = "copying" /\ S("base") = "copy"
        /\ k = 4 => S("program") = "rmBackup" /\ S("base") = "copying"
        /\ k = 5 => S("program") = "moveOut" /\ S("base") = "moveOut"
        /\ k = 6 => S("program") = "moveIn" /\ S("base") = "moveIn"
        /\ k = 7 => S("program") = "clean" /\ S("base") = "clean"
    BY DEF Steps
  <1>3. k = 1 \/ k = 2 \/ k = 3 \/ k = 4 \/ k = 5 \/ k = 6 \/ k = 7
    BY <1>1
  <1>4. \A step : InStep(s, step) => At(s, "replace") /\ S(job[s].part) = step
    BY DEF InStep
  <1>5. job[s].part = "program" \/ job[s].part = "base"
    BY <1>1 DEF Parts
  <1> HIDE DEF k, S
  <1> QED
    BY <1>2, <1>3, <1>4, <1>5 DEF Replacing, k

\* So do the steps on the files: what is moved is whole.
LEMMA ReplaceTypes ==
    ASSUME TypeOK, NEW s \in Scopes, Replace(s), Staged(s), SetAside(s)
    PROVE  TypeOK'
  <1> DEFINE f == Here(s)
  <1>1. job[s].cmd # "none"
    BY DEF Replace, RemoveStaged, RemoveBackup, CopyBegins, CopyEnds, MoveOut, MoveIn,
           MoveInFails, CleanUp, RemovalFailsHalfway, InStep, At
  <1>2. f \in Places /\ Source(s) \in Versions
    BY <1>1, HereType
  <1>3. InStep(s, "moveIn") => f.staged \in Versions /\ f.backup # Partial
    <2> SUFFICES ASSUME InStep(s, "moveIn")
                 PROVE  f.staged \in Versions /\ f.backup # Partial
      OBVIOUS
    <2>1. job[s].part \in {"program", "base"} /\ job[s].exe \in Versions
          /\ job[s].assets \in Versions
      BY <1>1, JobType DEF Jobs, Parts
    <2>2. At(s, "replace") /\ job[s].step = 6
      BY <1>1, StepNumbers
    <2>3. CASE job[s].part = "program"
      BY <2>1, <2>2, <2>3 DEF Staged, SetAside, Replacing, Here
    <2>4. CASE job[s].part = "base"
      BY <2>1, <2>2, <2>4 DEF Staged, SetAside, Replacing, Here
    <2> QED
      BY <2>1, <2>3, <2>4
  <1> HIDE DEF f
  <1>4. /\ [f EXCEPT !.staged = Absent] \in Places
        /\ [f EXCEPT !.staged = Partial] \in Places
        /\ [f EXCEPT !.backup = Absent] \in Places
        /\ [f EXCEPT !.backup = Partial] \in Places
        /\ [f EXCEPT !.staged = Source(s)] \in Places
    BY <1>2 DEF Places
  <1>5. [f EXCEPT !.backup = f.dest, !.dest = Absent] \in Places
    BY <1>2 DEF Places
  <1>6. f.staged \in Versions => [f EXCEPT !.dest = f.staged, !.staged = Absent] \in Places
    BY <1>2 DEF Places
  <1>7. f.backup # Partial => [f EXCEPT !.dest = f.backup, !.backup = Absent] \in Places
    BY <1>2 DEF Places
  <1>8. (\E g \in Places : Place(s, g)) => files' \in [Scopes -> [Parts -> Places]]
    BY <1>1, PlaceType
  <1>9. NextStep(s) => job' \in [Scopes -> {NoJob} \cup Jobs]
    BY <1>1, NextStepType
  <1>10. CASE RemoveStaged(s)
    BY <1>4, <1>8, <1>9, <1>10 DEF RemoveStaged, TypeOK, f
  <1>11. CASE RemoveBackup(s)
    BY <1>4, <1>8, <1>9, <1>11 DEF RemoveBackup, TypeOK, f
  <1>12. CASE CopyBegins(s)
    BY <1>4, <1>8, <1>9, <1>12 DEF CopyBegins, TypeOK, f
  <1>13. CASE CopyEnds(s)
    BY <1>4, <1>8, <1>9, <1>13 DEF CopyEnds, TypeOK, f
  <1>14. CASE MoveOut(s)
    BY <1>2, <1>5, <1>8, <1>9, <1>14 DEF MoveOut, TypeOK, f
  <1>15. CASE MoveIn(s)
    <2>1. files' \in [Scopes -> [Parts -> Places]]
      BY <1>3, <1>6, <1>8, <1>15 DEF MoveIn, f
    <2>2. had' \in [Scopes -> [Parts -> BOOLEAN]]
      BY <1>15 DEF MoveIn, TypeOK
    <2> QED
      BY <1>9, <1>15, <2>1, <2>2 DEF MoveIn, TypeOK
  <1>16. CASE MoveInFails(s)
    <2>1. files' \in [Scopes -> [Parts -> Places]]
      BY <1>3, <1>7, <1>8, <1>16 DEF MoveInFails, TypeOK, f
    <2>2. job' \in [Scopes -> {NoJob} \cup Jobs] /\ faults' = faults + 1
      BY <1>16, NoJobType DEF MoveInFails
    <2>3. UNCHANGED <<pref, unit, proc, had, commands>>
      BY <1>16 DEF MoveInFails
    <2> QED
      BY <2>1, <2>2, <2>3 DEF TypeOK
  <1>17. CASE CleanUp(s)
    <2>1. files' \in [Scopes -> [Parts -> Places]]
      BY <1>4, <1>8, <1>17 DEF CleanUp, TypeOK, f
    <2> QED
      BY <1>9, <1>17, <2>1 DEF CleanUp, TypeOK
  <1>18. CASE RemovalFailsHalfway(s)
    <2>1. files' \in [Scopes -> [Parts -> Places]]
      BY <1>4, <1>8, <1>18 DEF RemovalFailsHalfway, TypeOK, f
    <2>2. job' \in [Scopes -> {NoJob} \cup Jobs] /\ faults' = faults + 1
      BY <1>18, NoJobType DEF RemovalFailsHalfway
    <2>3. UNCHANGED <<pref, unit, proc, had, commands>>
      BY <1>18 DEF RemovalFailsHalfway
    <2> QED
      BY <2>1, <2>2, <2>3 DEF TypeOK
  <1> QED
    BY <1>10, <1>11, <1>12, <1>13, <1>14, <1>15, <1>16, <1>17, <1>18 DEF Replace

\* and the machine and the manager.
LEMMA WorldTypes ==
    ASSUME TypeOK,
           \/ Reboot
           \/ \E s \in Scopes : ServiceStops(s) \/ ServiceComesUp(s) \/ ManagerStarts(s)
    PROVE  TypeOK'
  <1>1. CASE Reboot
    <2>1. job' \in [Scopes -> {NoJob} \cup Jobs]
      BY <1>1 DEF Reboot
    <2>2. proc' \in [Scopes -> {"down", "starting", "up", "stopping"}]
      BY <1>1 DEF Reboot
    <2> QED
      BY <1>1, <2>1, <2>2 DEF Reboot, TypeOK
  <1>2. ASSUME NEW s \in Scopes, ServiceStops(s) \/ ServiceComesUp(s) \/ ManagerStarts(s)
        PROVE  TypeOK'
    BY <1>2 DEF ServiceStops, ServiceComesUp, ManagerStarts, TypeOK
  <1> QED
    BY <1>1, <1>2

-----------------------------------------------------------------------------
\* What a scope's step leaves alone.
LEMMA Elsewhere ==
    ASSUME TypeOK, NEW s \in Scopes, NEW o \in Scopes \ {s}, ScopeNext(s)
    PROVE  /\ files'[o] = files[o] /\ pref'[o] = pref[o] /\ unit'[o] = unit[o]
           /\ job'[o] = job[o] /\ had'[o] = had[o]
           /\ faults' \in {faults, faults + 1}
  <1>1. CASE Command(s)
    BY <1>1 DEF Command, BeginInstall, BeginStart, BeginStop, BeginRestart, BeginUninstall,
                Begin, TypeOK
  <1>2. CASE Replace(s)
    <2>1. (\E f : Place(s, f)) => files'[o] = files[o]
      BY DEF Place, TypeOK
    <2>2. files'[o] = files[o]
      BY <1>2, <2>1 DEF Replace, RemoveStaged, RemoveBackup, CopyBegins, CopyEnds, MoveOut,
                        MoveIn, MoveInFails, CleanUp, RemovalFailsHalfway
    <2>3. (\E j : job' = [job EXCEPT ![s] = j]) => job'[o] = job[o]
      BY DEF TypeOK
    <2>4. job'[o] = job[o]
      BY <1>2, <2>3 DEF Replace, RemoveStaged, RemoveBackup, CopyBegins, CopyEnds, MoveOut,
                        MoveIn, MoveInFails, CleanUp, RemovalFailsHalfway, NextStep
    <2>5. had'[o] = had[o]
      BY <1>2 DEF Replace, RemoveStaged, RemoveBackup, CopyBegins, CopyEnds, MoveOut,
                  MoveIn, MoveInFails, CleanUp, RemovalFailsHalfway, TypeOK
    <2>6. UNCHANGED <<pref, unit>> /\ faults' \in {faults, faults + 1}
      BY <1>2 DEF Replace, RemoveStaged, RemoveBackup, CopyBegins, CopyEnds, MoveOut,
                  MoveIn, MoveInFails, CleanUp, RemovalFailsHalfway
    <2> QED
      BY <2>2, <2>4, <2>5, <2>6
  <1>3. CASE Stop(s) \/ StopSeen(s) \/ WaitTimesOut(s) \/ Unregister(s)
             \/ UnregisterFailsHalfway(s) \/ PrepareAccount(s)
    BY <1>3 DEF Stop, StopSeen, WaitTimesOut, Unregister, UnregisterFailsHalfway,
                PrepareAccount, Goto, TypeOK
  <1>4. CASE CreateInitialPref(s) \/ ApplyPermissions(s) \/ Register(s)
             \/ RegisterFailsHalfway(s)
    BY <1>4 DEF CreateInitialPref, ApplyPermissions, Register, RegisterFailsHalfway, Goto,
                TypeOK
  <1>5. CASE Start(s) \/ StartSeen(s) \/ Report(s) \/ StepFails(s)
             \/ ServiceStops(s) \/ ServiceComesUp(s) \/ ManagerStarts(s)
    BY <1>5 DEF Start, StartSeen, Report, StepFails, ServiceStops, ServiceComesUp,
                ManagerStarts, Goto, TypeOK
  <1> QED
    BY <1>1, <1>2, <1>3, <1>4, <1>5 DEF ScopeNext

\* So the other scope's invariant holds on.
LEMMA GoodElsewhere ==
    ASSUME TypeOK, NEW s \in Scopes, NEW o \in Scopes \ {s}, ScopeNext(s), Good(o)
    PROVE  Good(o)'
  <1>1. /\ files'[o] = files[o] /\ pref'[o] = pref[o] /\ unit'[o] = unit[o]
        /\ job'[o] = job[o] /\ had'[o] = had[o]
    BY Elsewhere
  <1>2. (faults' = 0 => faults = 0) /\ (faults' <= 1 => faults <= 1)
    BY Elsewhere DEF TypeOK
  <1>3. Offline(o)' /\ InPlace(o)' /\ Staged(o)' /\ SetAside(o)' /\ MovedIn(o)'
    BY <1>1 DEF Good, Offline, InPlace, Staged, SetAside, MovedIn, Installing, Replacing, At
  <1>4. Delivered(o)' /\ Whole(o)'
    BY <1>1 DEF Good, Delivered, Whole, AfterReplacing, Installing
  <1>5. KeptAtRest(o)' /\ KeptInRetry(o)'
    BY <1>1, <1>2 DEF Good, KeptAtRest, KeptInRetry, Replacing, At
  <1> QED
    BY <1>3, <1>4, <1>5 DEF Good

-----------------------------------------------------------------------------
\* What putting files in place changes.
LEMMA PlaceEffect ==
    ASSUME TypeOK, NEW s \in Scopes, job[s].cmd # "none", NEW f, Place(s, f)
    PROVE  /\ files'[s][job[s].part] = f
           /\ \A p \in Parts \ {job[s].part} : files'[s][p] = files[s][p]
  BY JobType DEF Place, TypeOK, Jobs

\* Where the job goes on.
LEMMA NextStepEffect ==
    ASSUME TypeOK, NEW s \in Scopes, At(s, "replace"), NextStep(s)
    PROVE  /\ job'[s].cmd = job[s].cmd /\ job'[s].exe = job[s].exe
           /\ job'[s].assets = job[s].assets /\ job'[s].inPlace = job[s].inPlace
           /\ job'[s].then = job[s].then
           /\ job[s].step < 7 => /\ job'[s].pc = "replace" /\ job'[s].part = job[s].part
                                 /\ job'[s].step = job[s].step + 1
           /\ job[s].step = 7 /\ job[s].part = "program" =>
                 job'[s].pc = "replace" /\ job'[s].part = "base" /\ job'[s].step = 1
           /\ job[s].step = 7 /\ job[s].part = "base" => job'[s].pc = "pref"
  BY JobType DEF NextStep, At, Jobs, TypeOK

\* A step on the files keeps the scope's invariant.  The cases that matter: a
\* copy over .new or the removal of .old leaves the other, and what is moved in
\* is the whole copy.
LEMMA GoodReplace ==
    ASSUME TypeOK, TypeOK', NEW s \in Scopes, Replace(s), Good(s)
    PROVE  Good(s)'
  <1> DEFINE f == files[s]
             g == files'[s]
             j == job[s]
             i == job'[s]
  <1>1. At(s, "replace") /\ j \in Jobs
    BY JobType DEF Replace, RemoveStaged, RemoveBackup, CopyBegins, CopyEnds, MoveOut, MoveIn,
           MoveInFails, CleanUp, RemovalFailsHalfway, InStep, At
  <1>2. /\ Installing(s) /\ ~unit[s] /\ UNCHANGED <<unit, pref>>
    BY <1>1 DEF Replace, RemoveStaged, RemoveBackup, CopyBegins, CopyEnds, MoveOut, MoveIn,
           MoveInFails, CleanUp, RemovalFailsHalfway, Good, Offline, OfflinePcs, At
  <1>3. \/ NextStep(s) /\ faults' = faults
        \/ job'[s].cmd = "none" /\ faults' = faults + 1
    BY NoJobIsNone DEF Replace, RemoveStaged, RemoveBackup, CopyBegins, CopyEnds, MoveOut,
           MoveIn, MoveInFails, CleanUp, RemovalFailsHalfway, TypeOK
  <1>4. f["program"] \in Places /\ f["base"] \in Places
    BY DEF TypeOK, Parts
  <1>5. j.part \in Parts /\ j.part \in {"program", "base"}
    BY <1>1 DEF Jobs, Parts
  <1>6. j.exe \in Versions /\ j.assets \in Versions /\ Absent \notin Versions
        /\ Partial \notin Versions /\ Absent # Partial /\ j.step \in 1..7
    BY <1>1 DEF Jobs, Absent, Partial
  <1>7. NextStep(s) /\ j.step < 7 =>
          /\ i.cmd = j.cmd /\ i.exe = j.exe /\ i.assets = j.assets /\ i.inPlace = j.inPlace
          /\ i.then = j.then /\ i.pc = "replace" /\ i.part = j.part /\ i.step = j.step + 1
    BY <1>1, NextStepEffect
  \* The part that is not worked on does not change.
  <1>8. \A p \in Parts \ {j.part} : g[p] = f[p]
    <2>1. (\E h : Place(s, h)) => \A p \in Parts \ {j.part} : g[p] = f[p]
      BY <1>1, PlaceEffect DEF At
    <2> QED
      BY <2>1 DEF Replace, RemoveStaged, RemoveBackup, CopyBegins, CopyEnds, MoveOut,
              MoveIn, MoveInFails, CleanUp, RemovalFailsHalfway
  <1>9. CASE RemoveStaged(s)
    <2>1. NextStep(s) /\ faults' = faults /\ had' = had
      BY <1>9 DEF RemoveStaged
    <2>2. CASE j.part = "program"
      <3>1. j.step = 1
        BY <1>1, <1>9, <2>2, StepNumbers DEF RemoveStaged, Replacing, At
      <3>2. /\ g["program"].dest = f["program"].dest /\ g["program"].backup = f["program"].backup
        BY <1>1, <1>4, <1>9, <2>2, PlaceEffect DEF RemoveStaged, At, Here, Places
      <3>3. g["base"] = f["base"]
        BY <1>8, <2>2 DEF Parts
      <3>4. Offline(s)' /\ InPlace(s)' /\ Delivered(s)' /\ Whole(s)'
        BY <1>1, <1>2, <1>7, <2>1, <2>2, <3>1, <3>2, <3>3
           DEF Good, Offline, InPlace, Delivered, Whole, Installing, Replacing,
                At, AfterReplacing, OfflinePcs
      <3>5. Staged(s)' /\ SetAside(s)' /\ MovedIn(s)'
        BY <1>1, <1>2, <1>6, <1>7, <2>1, <2>2, <3>1, <3>2, <3>3
           DEF Good, Staged, SetAside, MovedIn, InPlace, Installing, Replacing, At
      <3>6. KeptAtRest(s)' /\ KeptInRetry(s)'
        BY <1>1, <1>4, <1>6, <1>7, <2>1, <2>2, <3>1, <3>2, <3>3
           DEF Good, KeptAtRest, KeptInRetry, Staged, Replacing, At, Places
      <3> QED
        BY <3>4, <3>5, <3>6 DEF Good
    <2>3. CASE j.part = "base"
      <3>1. j.step = 1
        BY <1>1, <1>9, <2>3, StepNumbers DEF RemoveStaged, Replacing, At
      <3>2. /\ g["base"].dest = f["base"].dest /\ g["base"].backup = f["base"].backup
        BY <1>1, <1>4, <1>9, <2>3, PlaceEffect DEF RemoveStaged, At, Here, Places
      <3>3. g["program"] = f["program"]
        BY <1>8, <2>3 DEF Parts
      <3>4. Offline(s)' /\ InPlace(s)' /\ Delivered(s)' /\ Whole(s)'
        BY <1>1, <1>2, <1>7, <2>1, <2>3, <3>1, <3>2, <3>3
           DEF Good, Offline, InPlace, Delivered, Whole, Installing, Replacing,
                At, AfterReplacing, OfflinePcs
      <3>5. Staged(s)' /\ SetAside(s)' /\ MovedIn(s)'
        BY <1>1, <1>2, <1>6, <1>7, <2>1, <2>3, <3>1, <3>2, <3>3
           DEF Good, Staged, SetAside, MovedIn, InPlace, Installing, Replacing, At
      <3>6. KeptAtRest(s)' /\ KeptInRetry(s)'
        BY <1>1, <1>4, <1>6, <1>7, <2>1, <2>3, <3>1, <3>2, <3>3
           DEF Good, KeptAtRest, KeptInRetry, Staged, Replacing, At, Places
      <3> QED
        BY <3>4, <3>5, <3>6 DEF Good
    <2> QED
      BY <1>5, <2>2, <2>3
  <1>10. CASE RemoveBackup(s)
    <2>1. NextStep(s) /\ faults' = faults /\ had' = had
      BY <1>10 DEF RemoveBackup
    <2>2. CASE j.part = "program"
      <3>1. j.step = 4
        BY <1>1, <1>10, <2>2, StepNumbers DEF RemoveBackup, Replacing, At
      <3>2. /\ g["program"].dest = f["program"].dest /\ g["program"].staged = f["program"].staged
            /\ g["program"].backup = Absent
        BY <1>1, <1>4, <1>10, <2>2, PlaceEffect DEF RemoveBackup, At, Here, Places
      <3>3. g["base"] = f["base"]
        BY <1>8, <2>2 DEF Parts
      <3>4. Offline(s)' /\ InPlace(s)' /\ Delivered(s)' /\ Whole(s)'
        BY <1>1, <1>2, <1>7, <2>1, <2>2, <3>1, <3>2, <3>3
           DEF Good, Offline, InPlace, Delivered, Whole, Installing, Replacing,
                At, AfterReplacing, OfflinePcs
      <3>5. Staged(s)' /\ SetAside(s)' /\ MovedIn(s)'
        BY <1>1, <1>2, <1>6, <1>7, <2>1, <2>2, <3>1, <3>2, <3>3
           DEF Good, Staged, SetAside, MovedIn, InPlace, Installing, Replacing, At
      <3>6. KeptAtRest(s)' /\ KeptInRetry(s)'
        BY <1>1, <1>4, <1>6, <1>7, <2>1, <2>2, <3>1, <3>2, <3>3
           DEF Good, KeptAtRest, KeptInRetry, Staged, Replacing, At, Places
      <3> QED
        BY <3>4, <3>5, <3>6 DEF Good
    <2>3. CASE j.part = "base"
      <3>1. j.step = 2
        BY <1>1, <1>10, <2>3, StepNumbers DEF RemoveBackup, Replacing, At
      <3>2. /\ g["base"].dest = f["base"].dest /\ g["base"].staged = f["base"].staged
            /\ g["base"].backup = Absent
        BY <1>1, <1>4, <1>10, <2>3, PlaceEffect DEF RemoveBackup, At, Here, Places
      <3>3. g["program"] = f["program"]
        BY <1>8, <2>3 DEF Parts
      <3>4. Offline(s)' /\ InPlace(s)' /\ Delivered(s)' /\ Whole(s)'
        BY <1>1, <1>2, <1>7, <2>1, <2>3, <3>1, <3>2, <3>3
           DEF Good, Offline, InPlace, Delivered, Whole, Installing, Replacing,
                At, AfterReplacing, OfflinePcs
      <3>5. Staged(s)' /\ SetAside(s)' /\ MovedIn(s)'
        BY <1>1, <1>2, <1>6, <1>7, <2>1, <2>3, <3>1, <3>2, <3>3
           DEF Good, Staged, SetAside, MovedIn, InPlace, Installing, Replacing, At
      <3>6. KeptAtRest(s)' /\ KeptInRetry(s)'
        BY <1>1, <1>4, <1>6, <1>7, <2>1, <2>3, <3>1, <3>2, <3>3
           DEF Good, KeptAtRest, KeptInRetry, Staged, Replacing, At, Places
      <3> QED
        BY <3>4, <3>5, <3>6 DEF Good
    <2> QED
      BY <1>5, <2>2, <2>3
  <1>11. CASE CopyBegins(s)
    <2>1. NextStep(s) /\ faults' = faults /\ had' = had
      BY <1>11 DEF CopyBegins
    <2>2. CASE j.part = "program"
      <3>1. j.step = 2
        BY <1>1, <1>11, <2>2, StepNumbers DEF CopyBegins, Replacing, At
      <3>2. /\ g["program"].dest = f["program"].dest /\ g["program"].backup = f["program"].backup
        BY <1>1, <1>4, <1>11, <2>2, PlaceEffect DEF CopyBegins, At, Here, Places
      <3>3. g["base"] = f["base"]
        BY <1>8, <2>2 DEF Parts
      <3>4. Offline(s)' /\ InPlace(s)' /\ Delivered(s)' /\ Whole(s)'
        BY <1>1, <1>2, <1>7, <2>1, <2>2, <3>1, <3>2, <3>3
           DEF Good, Offline, InPlace, Delivered, Whole, Installing, Replacing,
                At, AfterReplacing, OfflinePcs
      <3>5. Staged(s)' /\ SetAside(s)' /\ MovedIn(s)'
        BY <1>1, <1>2, <1>6, <1>7, <2>1, <2>2, <3>1, <3>2, <3>3
           DEF Good, Staged, SetAside, MovedIn, InPlace, Installing, Replacing, At
      <3>6. KeptAtRest(s)' /\ KeptInRetry(s)'
        BY <1>1, <1>4, <1>6, <1>7, <2>1, <2>2, <3>1, <3>2, <3>3
           DEF Good, KeptAtRest, KeptInRetry, Staged, Replacing, At, Places
      <3> QED
        BY <3>4, <3>5, <3>6 DEF Good
    <2>3. CASE j.part = "base"
      <3>1. j.step = 3
        BY <1>1, <1>11, <2>3, StepNumbers DEF CopyBegins, Replacing, At
      <3>2. /\ g["base"].dest = f["base"].dest /\ g["base"].backup = f["base"].backup
        BY <1>1, <1>4, <1>11, <2>3, PlaceEffect DEF CopyBegins, At, Here, Places
      <3>3. g["program"] = f["program"]
        BY <1>8, <2>3 DEF Parts
      <3>4. Offline(s)' /\ InPlace(s)' /\ Delivered(s)' /\ Whole(s)'
        BY <1>1, <1>2, <1>7, <2>1, <2>3, <3>1, <3>2, <3>3
           DEF Good, Offline, InPlace, Delivered, Whole, Installing, Replacing,
                At, AfterReplacing, OfflinePcs
      <3>5. Staged(s)' /\ SetAside(s)' /\ MovedIn(s)'
        BY <1>1, <1>2, <1>6, <1>7, <2>1, <2>3, <3>1, <3>2, <3>3
           DEF Good, Staged, SetAside, MovedIn, InPlace, Installing, Replacing, At
      <3>6. KeptAtRest(s)' /\ KeptInRetry(s)'
        BY <1>1, <1>4, <1>6, <1>7, <2>1, <2>3, <3>1, <3>2, <3>3
           DEF Good, KeptAtRest, KeptInRetry, Staged, Replacing, At, Places
      <3> QED
        BY <3>4, <3>5, <3>6 DEF Good
    <2> QED
      BY <1>5, <2>2, <2>3
  <1>12. CASE CopyEnds(s)
    <2>1. NextStep(s) /\ faults' = faults /\ had' = had
      BY <1>12 DEF CopyEnds
    <2>2. CASE j.part = "program"
      <3>1. j.step = 3
        BY <1>1, <1>12, <2>2, StepNumbers DEF CopyEnds, Replacing, At
      <3>2. /\ g["program"].dest = f["program"].dest /\ g["program"].backup = f["program"].backup
            /\ g["program"].staged = Source(s)
        BY <1>1, <1>4, <1>12, <2>2, PlaceEffect DEF CopyEnds, At, Here, Places, Source
      <3>3. g["base"] = f["base"]
        BY <1>8, <2>2 DEF Parts
      <3>4. Offline(s)' /\ InPlace(s)' /\ Delivered(s)' /\ Whole(s)'
        BY <1>1, <1>2, <1>7, <2>1, <2>2, <3>1, <3>2, <3>3
           DEF Good, Offline, InPlace, Delivered, Whole, Installing, Replacing,
                At, AfterReplacing, OfflinePcs
      <3>5. Staged(s)' /\ SetAside(s)' /\ MovedIn(s)'
        BY <1>1, <1>2, <1>6, <1>7, <2>1, <2>2, <3>1, <3>2, <3>3
           DEF Good, Staged, SetAside, MovedIn, InPlace, Installing, Replacing, At, Source
      <3>6. KeptAtRest(s)' /\ KeptInRetry(s)'
        BY <1>1, <1>4, <1>6, <1>7, <2>1, <2>2, <3>1, <3>2, <3>3
           DEF Good, KeptAtRest, KeptInRetry, Staged, Replacing, At, Places
      <3> QED
        BY <3>4, <3>5, <3>6 DEF Good
    <2>3. CASE j.part = "base"
      <3>1. j.step = 4
        BY <1>1, <1>12, <2>3, StepNumbers DEF CopyEnds, Replacing, At
      <3>2. /\ g["base"].dest = f["base"].dest /\ g["base"].backup = f["base"].backup
            /\ g["base"].staged = Source(s)
        BY <1>1, <1>4, <1>12, <2>3, PlaceEffect DEF CopyEnds, At, Here, Places, Source
      <3>3. g["program"] = f["program"]
        BY <1>8, <2>3 DEF Parts
      <3>4. Offline(s)' /\ InPlace(s)' /\ Delivered(s)' /\ Whole(s)'
        BY <1>1, <1>2, <1>7, <2>1, <2>3, <3>1, <3>2, <3>3
           DEF Good, Offline, InPlace, Delivered, Whole, Installing, Replacing,
                At, AfterReplacing, OfflinePcs
      <3>5. Staged(s)' /\ SetAside(s)' /\ MovedIn(s)'
        BY <1>1, <1>2, <1>6, <1>7, <2>1, <2>3, <3>1, <3>2, <3>3
           DEF Good, Staged, SetAside, MovedIn, InPlace, Installing, Replacing, At, Source
      <3>6. KeptAtRest(s)' /\ KeptInRetry(s)'
        BY <1>1, <1>4, <1>6, <1>7, <2>1, <2>3, <3>1, <3>2, <3>3
           DEF Good, KeptAtRest, KeptInRetry, Staged, Replacing, At, Places
      <3> QED
        BY <3>4, <3>5, <3>6 DEF Good
    <2> QED
      BY <1>5, <2>2, <2>3
  <1>13. CASE MoveOut(s)
    <2>1. NextStep(s) /\ faults' = faults /\ had' = had
      BY <1>13 DEF MoveOut
    <2>2. CASE j.part = "program"
      <3>1. j.step = 5
        BY <1>1, <1>13, <2>2, StepNumbers DEF MoveOut, Replacing, At
      <3>2. /\ g["program"].staged = f["program"].staged
            /\ IF f["program"].dest = Absent
               THEN g["program"].dest = Absent /\ g["program"].backup = f["program"].backup
               ELSE g["program"].dest = Absent /\ g["program"].backup = f["program"].dest
        <4> DEFINE h == IF f["program"].dest = Absent THEN f["program"]
                         ELSE [f["program"] EXCEPT !.backup = f["program"].dest, !.dest = Absent]
        <4>1. Place(s, h)
          BY <1>13, <2>2 DEF MoveOut, Here
        <4>2. g["program"] = h
          <5> HIDE DEF h
          <5> QED
            BY <1>1, <2>2, <4>1, PlaceEffect DEF At
        <4> QED
          BY <1>4, <4>2 DEF Places
      <3>3. g["base"] = f["base"]
        BY <1>8, <2>2 DEF Parts
      <3>4. Offline(s)' /\ InPlace(s)' /\ Delivered(s)' /\ Whole(s)'
        BY <1>1, <1>2, <1>7, <2>1, <2>2, <3>1, <3>2, <3>3
           DEF Good, Offline, InPlace, Delivered, Whole, Installing, Replacing,
                At, AfterReplacing, OfflinePcs
      <3>5. Staged(s)' /\ SetAside(s)' /\ MovedIn(s)'
        BY <1>1, <1>2, <1>6, <1>7, <2>1, <2>2, <3>1, <3>2, <3>3, <1>4
           DEF Good, Staged, SetAside, MovedIn, InPlace, Installing, Replacing, At, Places
      <3>6. KeptAtRest(s)' /\ KeptInRetry(s)'
        BY <1>1, <1>4, <1>6, <1>7, <2>1, <2>2, <3>1, <3>2, <3>3
           DEF Good, KeptAtRest, KeptInRetry, Staged, Replacing, At, Places
      <3> QED
        BY <3>4, <3>5, <3>6 DEF Good
    <2>3. CASE j.part = "base"
      <3>1. j.step = 5
        BY <1>1, <1>13, <2>3, StepNumbers DEF MoveOut, Replacing, At
      <3>2. /\ g["base"].staged = f["base"].staged
            /\ IF f["base"].dest = Absent
               THEN g["base"].dest = Absent /\ g["base"].backup = f["base"].backup
               ELSE g["base"].dest = Absent /\ g["base"].backup = f["base"].dest
        <4> DEFINE h == IF f["base"].dest = Absent THEN f["base"]
                         ELSE [f["base"] EXCEPT !.backup = f["base"].dest, !.dest = Absent]
        <4>1. Place(s, h)
          BY <1>13, <2>3 DEF MoveOut, Here
        <4>2. g["base"] = h
          <5> HIDE DEF h
          <5> QED
            BY <1>1, <2>3, <4>1, PlaceEffect DEF At
        <4> QED
          BY <1>4, <4>2 DEF Places
      <3>3. g["program"] = f["program"]
        BY <1>8, <2>3 DEF Parts
      <3>4. Offline(s)' /\ InPlace(s)' /\ Delivered(s)' /\ Whole(s)'
        BY <1>1, <1>2, <1>7, <2>1, <2>3, <3>1, <3>2, <3>3
           DEF Good, Offline, InPlace, Delivered, Whole, Installing, Replacing,
                At, AfterReplacing, OfflinePcs
      <3>5. Staged(s)' /\ SetAside(s)' /\ MovedIn(s)'
        BY <1>1, <1>2, <1>6, <1>7, <2>1, <2>3, <3>1, <3>2, <3>3, <1>4
           DEF Good, Staged, SetAside, MovedIn, InPlace, Installing, Replacing, At, Places
      <3>6. KeptAtRest(s)' /\ KeptInRetry(s)'
        BY <1>1, <1>4, <1>6, <1>7, <2>1, <2>3, <3>1, <3>2, <3>3
           DEF Good, KeptAtRest, KeptInRetry, Staged, Replacing, At, Places
      <3> QED
        BY <3>4, <3>5, <3>6 DEF Good
    <2> QED
      BY <1>5, <2>2, <2>3
  <1>14. CASE MoveIn(s)
    <2>1. NextStep(s) /\ faults' = faults
      BY <1>14 DEF MoveIn
    <2>2. CASE j.part = "program"
      <3>1. j.step = 6
        BY <1>1, <1>14, <2>2, StepNumbers DEF MoveIn, Replacing, At
      <3>2. /\ g["program"].dest = f["program"].staged /\ g["program"].backup = f["program"].backup
        <4> DEFINE h == [f["program"] EXCEPT !.dest = f["program"].staged, !.staged = Absent]
        <4>1. Place(s, h)
          BY <1>14, <2>2 DEF MoveIn, Here
        <4>2. g["program"] = h
          <5> HIDE DEF h
          <5> QED
            BY <1>1, <2>2, <4>1, PlaceEffect DEF At
        <4> QED
          BY <1>4, <4>2 DEF Places
      <3>3. g["base"] = f["base"]
        BY <1>8, <2>2 DEF Parts
      <3>4. Offline(s)' /\ InPlace(s)' /\ Delivered(s)' /\ Whole(s)'
        BY <1>1, <1>2, <1>7, <2>1, <2>2, <3>1, <3>2, <3>3
           DEF Good, Offline, InPlace, Delivered, Whole, Installing, Replacing,
                At, AfterReplacing, OfflinePcs
      <3>5. Staged(s)' /\ SetAside(s)' /\ MovedIn(s)'
        BY <1>1, <1>2, <1>6, <1>7, <2>1, <2>2, <3>1, <3>2, <3>3
           DEF Good, Staged, SetAside, MovedIn, InPlace, Installing, Replacing, At
      <3>6. KeptAtRest(s)' /\ KeptInRetry(s)'
        BY <1>1, <1>6, <2>2, <3>1, <3>2 DEF Good, KeptAtRest, KeptInRetry, Staged, Replacing, At
      <3> QED
        BY <3>4, <3>5, <3>6 DEF Good
    <2>3. CASE j.part = "base"
      <3>1. j.step = 6
        BY <1>1, <1>14, <2>3, StepNumbers DEF MoveIn, Replacing, At
      <3>2. /\ g["base"].dest = f["base"].staged /\ g["base"].backup = f["base"].backup
        <4> DEFINE h == [f["base"] EXCEPT !.dest = f["base"].staged, !.staged = Absent]
        <4>1. Place(s, h)
          BY <1>14, <2>3 DEF MoveIn, Here
        <4>2. g["base"] = h
          <5> HIDE DEF h
          <5> QED
            BY <1>1, <2>3, <4>1, PlaceEffect DEF At
        <4> QED
          BY <1>4, <4>2 DEF Places
      <3>3. g["program"] = f["program"]
        BY <1>8, <2>3 DEF Parts
      <3>4. Offline(s)' /\ InPlace(s)' /\ Delivered(s)' /\ Whole(s)'
        BY <1>1, <1>2, <1>7, <2>1, <2>3, <3>1, <3>2, <3>3
           DEF Good, Offline, InPlace, Delivered, Whole, Installing, Replacing,
                At, AfterReplacing, OfflinePcs
      <3>5. Staged(s)' /\ SetAside(s)' /\ MovedIn(s)'
        BY <1>1, <1>2, <1>6, <1>7, <2>1, <2>3, <3>1, <3>2, <3>3
           DEF Good, Staged, SetAside, MovedIn, InPlace, Installing, Replacing, At
      <3>6. KeptAtRest(s)' /\ KeptInRetry(s)'
        <4>1. had'[s]["program"] = had[s]["program"]
          BY <1>14, <2>3 DEF MoveIn, TypeOK, Parts
        <4> QED
          BY <1>1, <2>1, <2>3, <3>3, <4>1 DEF Good, KeptAtRest, KeptInRetry, Staged, Replacing, At
      <3> QED
        BY <3>4, <3>5, <3>6 DEF Good
    <2> QED
      BY <1>5, <2>2, <2>3
  <1>15. CASE CleanUp(s)
    <2>1. NextStep(s) /\ faults' = faults /\ had' = had /\ j.step = 7
      <3>1. NextStep(s) /\ faults' = faults /\ had' = had /\ InStep(s, "clean")
        BY <1>15 DEF CleanUp
      <3> QED
        BY <1>1, <3>1, StepNumbers DEF At
    <2>2. \A p \in Parts : g[p].dest = f[p].dest
      <3>1. g[j.part].dest = f[j.part].dest
        BY <1>1, <1>4, <1>5, <1>15, PlaceEffect DEF CleanUp, At, Here, Places
      <3> QED
        BY <1>8, <3>1
    <2>3. CASE j.part = "program"
      <3>1. /\ i.cmd = j.cmd /\ i.exe = j.exe /\ i.assets = j.assets
            /\ i.inPlace = j.inPlace /\ i.then = j.then
            /\ i.pc = "replace" /\ i.part = "base" /\ i.step = 1
        BY <1>1, <2>1, <2>3, NextStepEffect
      <3>2. g["program"].dest = j.exe /\ f["program"].dest = j.exe
        BY <1>1, <2>1, <2>2, <2>3 DEF Good, MovedIn, Replacing, Parts
      <3>3. Offline(s)' /\ InPlace(s)' /\ Delivered(s)' /\ Whole(s)'
        BY <1>1, <1>2, <3>1, <3>2
           DEF Good, Offline, InPlace, Delivered, Whole, Installing, Replacing,
                At, AfterReplacing, OfflinePcs
      <3> QED
        BY <1>6, <3>1, <3>2, <3>3
           DEF Good, Staged, SetAside, MovedIn, KeptAtRest, KeptInRetry, Replacing, At
    <2>4. CASE j.part = "base"
      <3>1. /\ i.cmd = j.cmd /\ i.exe = j.exe /\ i.assets = j.assets
            /\ i.inPlace = j.inPlace /\ i.then = j.then /\ i.pc = "pref"
        BY <1>1, <2>1, <2>4, NextStepEffect
      <3>2. g["program"].dest = j.exe /\ g["base"].dest = j.assets
        BY <1>1, <2>1, <2>2, <2>4 DEF Good, MovedIn, Replacing, Parts
      <3>3. Offline(s)' /\ InPlace(s)' /\ Delivered(s)' /\ Whole(s)'
        BY <1>1, <1>2, <3>1, <3>2
           DEF Good, Offline, InPlace, Delivered, Whole, Installing, Replacing,
                At, AfterReplacing, OfflinePcs
      <3> QED
        BY <1>6, <3>1, <3>2, <3>3
           DEF Good, Staged, SetAside, MovedIn, KeptAtRest, KeptInRetry, Replacing, At
    <2> QED
      BY <1>5, <2>3, <2>4
  <1>16. CASE MoveInFails(s) \/ RemovalFailsHalfway(s)
    <2>1. i.cmd = "none" /\ faults' = faults + 1 /\ faults \in Nat /\ had' = had
      BY <1>16, NoJobIsNone DEF MoveInFails, RemovalFailsHalfway, TypeOK
    <2>2. Offline(s)' /\ InPlace(s)' /\ Staged(s)' /\ SetAside(s)' /\ MovedIn(s)'
      BY <2>1 DEF Offline, InPlace, Staged, SetAside, MovedIn, Installing, Replacing, At
    <2>3. Delivered(s)' /\ Whole(s)' /\ KeptAtRest(s)'
      BY <1>2, <2>1 DEF Delivered, Whole, KeptAtRest, Installing
    <2>4. KeptInRetry(s)'
      <3>1. SUFFICES ASSUME had[s]["program"], faults = 0
                     PROVE  g["program"].dest \in Versions \/ g["program"].backup \in Versions
        BY <2>1 DEF KeptInRetry
      <3>2. \/ f["program"].dest \in Versions
            \/ j.part = "program" /\ f["program"].backup \in Versions
        BY <3>1 DEF Good, KeptAtRest, Replacing
      <3>3. CASE j.part = "base"
        BY <1>8, <3>2, <3>3 DEF Parts
      <3>4. CASE j.part = "program"
        <4>1. MoveInFails(s)
          BY <1>16, <3>4 DEF RemovalFailsHalfway
        <4> DEFINE h == [f["program"] EXCEPT !.dest = f["program"].backup, !.backup = Absent]
        <4>2. \/ Place(s, h) /\ f["program"].dest = Absent
              \/ UNCHANGED files
          BY <3>4, <4>1 DEF MoveInFails, Here
        <4>3. \/ g["program"] = f["program"]
              \/ g["program"] = h /\ f["program"].dest = Absent
          <5> HIDE DEF h
          <5> QED
            BY <1>1, <3>4, <4>2, PlaceEffect DEF At
        <4>4. h.dest = f["program"].backup
          BY <1>4 DEF Places
        <4> QED
          BY <1>6, <3>2, <4>3, <4>4
      <3> QED
        BY <1>5, <3>3, <3>4
    <2> QED
      BY <2>2, <2>3, <2>4 DEF Good
  <1> QED
    BY <1>9, <1>10, <1>11, <1>12, <1>13, <1>14, <1>15, <1>16 DEF Replace

\* So does a command that begins: what it finds is registered, or gone.
LEMMA GoodCommand ==
    ASSUME TypeOK, TypeOK', NEW s \in Scopes, Command(s), Good(s)
    PROVE  Good(s)'
  <1> DEFINE i == job'[s]
  <1>1. /\ UNCHANGED <<files, pref, unit, had, faults>>
        /\ job[s].cmd = "none"
    BY NoJobIsNone DEF Command, BeginInstall, BeginStart, BeginStop, BeginRestart,
                       BeginUninstall, Begin
  <1>2. KeptAtRest(s)' /\ KeptInRetry(s)' /\ Whole(s)'
    BY <1>1 DEF Good, KeptAtRest, KeptInRetry, Whole, Replacing, At
  <1>3. CASE BeginStart(s) \/ BeginStop(s) \/ BeginRestart(s) \/ BeginUninstall(s)
    <2>1. /\ i.cmd # "install" /\ i.pc \in {"start", "stop", "unregister"}
          /\ i.then \in {"report", "start", "unregister"}
      BY <1>3 DEF BeginStart, BeginStop, BeginRestart, BeginUninstall, Begin, Plain, TypeOK
    <2> QED
      BY <1>2, <2>1 DEF Good, Offline, InPlace, Staged, SetAside, MovedIn, Delivered,
                        Installing, Replacing, At, OfflinePcs
  <1>4. ASSUME NEW exe \in Versions, NEW assets \in Versions, NEW inPlace \in BOOLEAN,
               NEW noStart \in BOOLEAN, BeginInstall(s, exe, assets, inPlace, noStart)
        PROVE  Good(s)'
    <2> DEFINE pc == InstallFirstPc(s)
               then == IF Status(s) = "running" THEN "unregister" ELSE "report"
               p == Plain("install", pc, then)
               j == [p EXCEPT !.installed = unit[s], !.exe = exe, !.assets = assets,
                              !.inPlace = inPlace, !.noStart = noStart]
    <2>1. i = j
      BY <1>4 DEF BeginInstall, Begin, TypeOK
    <2>2. /\ j.cmd = "install" /\ j.pc = pc /\ j.then = then /\ j.exe = exe
          /\ j.inPlace = inPlace
      <3>1. p.cmd = "install" /\ p.pc = pc /\ p.then = then
        BY DEF Plain
      <3>2. p = [cmd |-> p.cmd, pc |-> p.pc, then |-> p.then, installed |-> p.installed,
                 part |-> p.part, step |-> p.step, exe |-> p.exe, assets |-> p.assets,
                 inPlace |-> p.inPlace, noStart |-> p.noStart]
        BY DEF Plain
      <3> HIDE DEF p
      <3> QED
        BY <3>1, <3>2
    <2>3. inPlace => files[s]["program"].dest = exe
      BY <1>4 DEF BeginInstall
    <2>4. \/ pc = "stop" /\ then = "unregister"
          \/ pc = "unregister" /\ then = "report"
          \/ pc = "account" /\ then = "report" /\ ~unit[s]
      BY DEF InstallFirstPc, Status
    <2> HIDE DEF j, pc, then
    <2> QED
      BY <1>1, <1>2, <2>1, <2>2, <2>3, <2>4
         DEF Good, Offline, InPlace, Staged, SetAside, MovedIn, Delivered, AfterReplacing,
             Installing, Replacing, At, OfflinePcs
  <1> QED
    BY <1>3, <1>4 DEF Command

\* A command that ends, unless it does so between the renames with nothing
\* having failed, keeps it.
LEMMA GoodEnd ==
    ASSUME TypeOK, NEW s \in Scopes, Good(s), UNCHANGED <<files, had>>, job'[s].cmd = "none",
           unit[s]' => unit[s] /\ pref'[s] = pref[s],
           \/ faults' = faults + 1
           \/ faults' = faults /\ ~At(s, "replace")
    PROVE  Good(s)'
  <1>1. Offline(s)' /\ InPlace(s)' /\ Staged(s)' /\ SetAside(s)' /\ MovedIn(s)'
    BY DEF Offline, InPlace, Staged, SetAside, MovedIn, Installing, Replacing, At
  <1>2. Delivered(s)' /\ Whole(s)'
    BY DEF Good, Delivered, Whole, Installing
  <1>3. KeptAtRest(s)'
    BY DEF Good, KeptAtRest, Replacing, TypeOK
  <1>4. KeptInRetry(s)'
    BY DEF Good, KeptAtRest, KeptInRetry, Replacing, TypeOK
  <1> QED
    BY <1>1, <1>2, <1>3, <1>4 DEF Good

\* And so does every other step of a command.
LEMMA GoodJobStep ==
    ASSUME TypeOK, TypeOK', NEW s \in Scopes, Good(s),
           \/ Stop(s) \/ StopSeen(s) \/ WaitTimesOut(s)
           \/ Unregister(s) \/ UnregisterFailsHalfway(s) \/ PrepareAccount(s)
           \/ CreateInitialPref(s) \/ ApplyPermissions(s)
           \/ Register(s) \/ RegisterFailsHalfway(s)
           \/ Start(s) \/ StartSeen(s) \/ Report(s) \/ StepFails(s)
    PROVE  Good(s)'
  <1> DEFINE j == job[s]
             i == job'[s]
             Same == /\ i.cmd = j.cmd /\ i.exe = j.exe /\ i.assets = j.assets
                     /\ i.inPlace = j.inPlace
  <1>1. \A pc : j.cmd # "none" /\ Goto(s, pc) => Same /\ i.then = j.then /\ i.pc = pc
    BY JobType DEF Goto, TypeOK, Jobs
  <1>2. CASE Stop(s)
    <2>1. Same /\ i.then = j.then /\ j.pc = "stop" /\ (i.pc = "stopping" \/ i.pc = j.then)
      BY <1>2, <1>1 DEF Stop, At
    <2>2. UNCHANGED <<files, pref, unit, had, faults>>
      BY <1>2 DEF Stop
    <2> QED
      BY <1>2, <2>1, <2>2
         DEF Stop, Good, Offline, InPlace, Staged, SetAside, MovedIn, Delivered, Whole, KeptAtRest,
             KeptInRetry, AfterReplacing, Installing, Replacing, At, OfflinePcs
  <1>3. CASE StopSeen(s)
    <2>1. Same /\ i.then = j.then /\ j.pc = "stopping" /\ i.pc = j.then
      BY <1>3, <1>1 DEF StopSeen, At
    <2>2. UNCHANGED <<files, pref, unit, had, faults>>
      BY <1>3 DEF StopSeen
    <2> QED
      BY <1>3, <2>1, <2>2
         DEF StopSeen, Good, Offline, InPlace, Staged, SetAside, MovedIn, Delivered, Whole, KeptAtRest,
             KeptInRetry, AfterReplacing, Installing, Replacing, At, OfflinePcs
  <1>4. CASE WaitTimesOut(s)
    <2>1. i.cmd = "none" /\ ~At(s, "replace") /\ UNCHANGED <<files, pref, unit, had, faults>>
      BY <1>4, NoJobIsNone DEF WaitTimesOut, At, TypeOK
    <2> QED
      BY <2>1, GoodEnd
  <1>5. CASE Unregister(s)
    <2>1. /\ Same /\ i.then = j.then /\ j.pc = "unregister"
          /\ i.pc = IF j.cmd = "install" THEN "account" ELSE "report"
      BY <1>5, <1>1 DEF Unregister, At
    <2>2. ~unit'[s] /\ UNCHANGED <<files, pref, had, faults>>
      BY <1>5 DEF Unregister, TypeOK
    <2> QED
      BY <1>5, <2>1, <2>2
         DEF Unregister, Good, Offline, InPlace, Staged, SetAside, MovedIn, Delivered, Whole, KeptAtRest,
             KeptInRetry, AfterReplacing, Installing, Replacing, At, OfflinePcs
  <1>6. CASE UnregisterFailsHalfway(s)
    <2>1. /\ i.cmd = "none" /\ ~unit'[s] /\ faults' = faults + 1
          /\ UNCHANGED <<files, had>>
      BY <1>6, NoJobIsNone DEF UnregisterFailsHalfway, TypeOK
    <2> QED
      BY <2>1, GoodEnd
  <1>7. CASE PrepareAccount(s)
    <2>1. /\ Same /\ i.then = j.then /\ j.pc = "account" /\ i.pc = "replace" /\ i.step = 1
          /\ i.part = IF j.inPlace THEN "base" ELSE "program"
      BY <1>7, JobType DEF PrepareAccount, At, TypeOK, Jobs
    <2>2. UNCHANGED <<files, pref, unit, had, faults>>
      BY <1>7 DEF PrepareAccount
    <2> QED
      BY <1>7, <2>1, <2>2
         DEF PrepareAccount, Good, Offline, InPlace, Staged, SetAside, MovedIn, Delivered, Whole, KeptAtRest,
             KeptInRetry, AfterReplacing, Installing, Replacing, At, OfflinePcs
  <1>8. CASE CreateInitialPref(s)
    <2>1. Same /\ i.then = j.then /\ j.pc = "pref" /\ i.pc = "permissions"
      BY <1>8, <1>1 DEF CreateInitialPref, At
    <2>2. pref'[s] /\ UNCHANGED <<files, unit, had, faults>>
      BY <1>8 DEF CreateInitialPref, TypeOK
    <2> QED
      BY <1>8, <2>1, <2>2
         DEF CreateInitialPref, Good, Offline, InPlace, Staged, SetAside, MovedIn, Delivered, Whole, KeptAtRest,
             KeptInRetry, AfterReplacing, Installing, Replacing, At, OfflinePcs
  <1>9. CASE ApplyPermissions(s)
    <2>1. Same /\ i.then = j.then /\ j.pc = "permissions" /\ i.pc = "register"
      BY <1>9, <1>1 DEF ApplyPermissions, At
    <2>2. UNCHANGED <<files, pref, unit, had, faults>>
      BY <1>9 DEF ApplyPermissions
    <2> QED
      BY <1>9, <2>1, <2>2
         DEF ApplyPermissions, Good, Offline, InPlace, Staged, SetAside, MovedIn, Delivered, Whole, KeptAtRest,
             KeptInRetry, AfterReplacing, Installing, Replacing, At, OfflinePcs
  <1>10. CASE Register(s)
    <2>1. /\ Same /\ j.pc = "register" /\ i.then = "report" /\ i.pc \in {"start", "stop", "report"}
      BY <1>10, JobType DEF Register, At, TypeOK, Jobs
    <2>2. unit'[s] /\ UNCHANGED <<files, pref, had, faults>>
      BY <1>10 DEF Register, TypeOK
    <2>3. Installing(s) /\ j.exe \in Versions /\ j.assets \in Versions
      BY <1>10, JobType DEF Register, At, Good, Offline, OfflinePcs, Jobs
    <2>4. Whole(s)'
      BY <1>10, <2>1, <2>2, <2>3
         DEF Register, Good, Delivered, Whole, AfterReplacing, Parts, Installing
    <2> QED
      BY <1>10, <2>1, <2>2, <2>3, <2>4
         DEF Register, Good, Offline, InPlace, Staged, SetAside, MovedIn, Delivered, Whole, KeptAtRest,
             KeptInRetry, AfterReplacing, Installing, Replacing, At, OfflinePcs
  <1>11. CASE RegisterFailsHalfway(s)
    <2>1. /\ i.cmd = "none" /\ faults' = faults + 1 /\ UNCHANGED <<files, had, pref>>
          /\ j.pc = "register" /\ j.cmd # "none"
      BY <1>11, NoJobIsNone DEF RegisterFailsHalfway, TypeOK, At
    <2>2. Installing(s) /\ j.exe \in Versions /\ j.assets \in Versions
      BY <2>1, JobType DEF Good, Offline, OfflinePcs, Jobs
    <2>3. Whole(s)'
      BY <2>1, <2>2 DEF Good, Delivered, Whole, AfterReplacing, Parts
    <2>4. KeptAtRest(s)' /\ KeptInRetry(s)'
      BY <2>1 DEF Good, KeptAtRest, KeptInRetry, Replacing, At, TypeOK
    <2> QED
      BY <2>1, <2>3, <2>4
         DEF Good, Offline, InPlace, Staged, SetAside, MovedIn, Delivered, Installing,
             Replacing, At
  <1>12. CASE Start(s)
    <2>1. Same /\ i.then = j.then /\ j.pc = "start" /\ i.pc \in {"starting", "report"}
      BY <1>12, <1>1 DEF Start, At
    <2>2. UNCHANGED <<files, pref, unit, had, faults>>
      BY <1>12 DEF Start
    <2> QED
      BY <1>12, <2>1, <2>2
         DEF Start, Good, Offline, InPlace, Staged, SetAside, MovedIn, Delivered, Whole, KeptAtRest,
             KeptInRetry, AfterReplacing, Installing, Replacing, At, OfflinePcs
  <1>13. CASE StartSeen(s)
    <2>1. Same /\ i.then = j.then /\ j.pc = "starting" /\ i.pc = "report"
      BY <1>13, <1>1 DEF StartSeen, At
    <2>2. UNCHANGED <<files, pref, unit, had, faults>>
      BY <1>13 DEF StartSeen
    <2> QED
      BY <1>13, <2>1, <2>2
         DEF StartSeen, Good, Offline, InPlace, Staged, SetAside, MovedIn, Delivered, Whole, KeptAtRest,
             KeptInRetry, AfterReplacing, Installing, Replacing, At, OfflinePcs
  <1>14. CASE Report(s)
    <2>1. i.cmd = "none" /\ ~At(s, "replace") /\ UNCHANGED <<files, pref, unit, had, faults>>
      BY <1>14, NoJobIsNone DEF Report, At, TypeOK
    <2> QED
      BY <2>1, GoodEnd
  <1>15. CASE StepFails(s)
    <2>1. i.cmd = "none" /\ faults' = faults + 1 /\ UNCHANGED <<files, pref, unit, had>>
      BY <1>15, NoJobIsNone DEF StepFails, TypeOK
    <2> QED
      BY <2>1, GoodEnd
  <1> QED
    BY <1>2, <1>3, <1>4, <1>5, <1>6, <1>7, <1>8, <1>9, <1>10, <1>11, <1>12, <1>13, <1>14, <1>15

-----------------------------------------------------------------------------
\* The inductive invariant holds from the start,
LEMMA InitGood == Init => IInv
  <1> SUFFICES ASSUME Init
               PROVE  IInv
    OBVIOUS
  <1>1. TypeOK
    BY DEF Init, TypeOK, Places, Parts
  <1>2. ASSUME NEW s \in Scopes
        PROVE  Good(s)
    <2>1. job[s].cmd = "none" /\ ~unit[s] /\ ~had[s]["program"]
      BY <1>2, NoJobIsNone DEF Init, Parts
    <2> QED
      BY <2>1 DEF Good, Offline, InPlace, Staged, SetAside, MovedIn, Delivered, Whole,
                  KeptAtRest, KeptInRetry, Installing, Replacing, At
  <1> QED
    BY <1>1, <1>2 DEF IInv

\* and every step keeps it.
LEMMA NextGood == IInv /\ [Next]_vars => IInv'
  <1> SUFFICES ASSUME IInv, [Next]_vars
               PROVE  IInv'
    OBVIOUS
  <1>0. TypeOK
    BY DEF IInv
  <1>1. ASSUME NEW s \in Scopes, ScopeNext(s)
        PROVE  IInv'
    <2>1. Good(s)
      BY DEF IInv
    <2>2. TypeOK'
      BY <1>0, <1>1, <2>1, CommandTypes, ReplaceTypes, JobStepTypes, WorldTypes
         DEF ScopeNext, Good
    <2>3. Good(s)'
      <3>1. CASE Command(s)
        BY <1>0, <2>1, <2>2, <3>1, GoodCommand
      <3>2. CASE Replace(s)
        BY <1>0, <2>1, <2>2, <3>2, GoodReplace
      <3>3. CASE ServiceStops(s) \/ ServiceComesUp(s) \/ ManagerStarts(s)
        <4>1. UNCHANGED <<files, pref, unit, job, had, faults>>
          BY <3>3 DEF ServiceStops, ServiceComesUp, ManagerStarts
        <4> QED
          BY <2>1, <4>1
             DEF Good, Offline, InPlace, Staged, SetAside, MovedIn, Delivered, Whole,
                 KeptAtRest, KeptInRetry, Installing, Replacing, At, AfterReplacing
      <3> QED
        BY <1>0, <1>1, <2>1, <2>2, <3>1, <3>2, <3>3, GoodJobStep DEF ScopeNext
    <2>4. ASSUME NEW o \in Scopes \ {s}
          PROVE  Good(o)'
      BY <1>0, <1>1, GoodElsewhere DEF IInv
    <2> QED
      BY <2>2, <2>3, <2>4 DEF IInv
  <1>2. CASE Reboot
    <2>1. TypeOK'
      BY <1>0, <1>2, WorldTypes
    <2>2. ASSUME NEW s \in Scopes
          PROVE  Good(s)'
      <3>1. /\ UNCHANGED <<files, had, unit, pref>> /\ faults' = faults + 1
            /\ job'[s].cmd = "none"
        BY <1>2, NoJobIsNone DEF Reboot
      <3> QED
        BY <1>0, <3>1, GoodEnd DEF IInv
    <2> QED
      BY <2>1, <2>2 DEF IInv
  <1>3. CASE UNCHANGED vars
    <2>1. TypeOK'
      BY <1>0, <1>3 DEF TypeOK, vars
    <2>2. ASSUME NEW s \in Scopes
          PROVE  Good(s)'
      BY <1>3 DEF IInv, Good, Offline, InPlace, Staged, SetAside, MovedIn, Delivered, Whole,
                  KeptAtRest, KeptInRetry, Installing, Replacing, At, AfterReplacing, vars
    <2> QED
      BY <2>1, <2>2 DEF IInv
  <1> QED
    BY <1>1, <1>2, <1>3 DEF Next

\* So it holds always.
LEMMA Inductive == Spec => []IInv
  BY InitGood, NextGood, PTL DEF Spec

\* The type invariant: in particular, no partial copy is ever in place.
THEOREM TypeCorrect == Spec => []TypeOK
  <1>1. IInv => TypeOK
    BY DEF IInv
  <1> QED
    BY <1>1, Inductive, PTL

\* Whatever fails, what is registered can be started: register comes last, and
\* an upgrade unregisters before it touches a file.
THEOREM RegisteredWhole == Spec => []RegisteredIsWhole
  <1>1. IInv => RegisteredIsWhole
    BY DEF IInv, Good, Whole, RegisteredIsWhole
  <1> QED
    BY <1>1, Inductive, PTL

\* One failing step never costs the last whole copy of the managed binary:
\* replace_file removes .old only when .new is complete.
THEOREM ProgramKept == Spec => []OneFaultKeepsProgram
  <1>1. ASSUME IInv, NEW s \in Scopes, had[s]["program"], faults <= 1,
               Replacing(s, "program"), job[s].step \in 5..6
        PROVE  files[s]["program"].staged \in Versions
    <2>1. job[s].exe \in Versions
      BY <1>1, JobType DEF IInv, Replacing, At, Jobs
    <2>2. Staged(s)
      BY <1>1 DEF IInv, Good
    <2>3. job[s].step \in 4..6
      BY <1>1
    <2> QED
      BY <1>1, <2>1, <2>2, <2>3 DEF Staged
  <1>2. IInv => OneFaultKeepsProgram
    BY <1>1 DEF IInv, Good, KeptInRetry, OneFaultKeepsProgram
  <1> QED
    BY <1>2, Inductive, PTL

\* An install that succeeds has registered the release it was given.
THEOREM Delivers == Spec => []InstallDelivers
  <1>1. IInv => InstallDelivers
    BY DEF IInv, Good, Delivered, AfterReplacing, OfflinePcs, InstallDelivers, Installing, At
  <1> QED
    BY <1>1, Inductive, PTL

-----------------------------------------------------------------------------
\* What is registered does not change under its registration.
LEMMA RegisteredStays ==
    ASSUME IInv, NEW s \in Scopes, unit[s], ScopeNext(s)
    PROVE  files' = files
  <1>1. ~Replace(s)
    <2>1. Replace(s) => At(s, "replace")
      BY DEF Replace, RemoveStaged, RemoveBackup, CopyBegins, CopyEnds, MoveOut, MoveIn,
             MoveInFails, CleanUp, RemovalFailsHalfway, InStep
    <2> QED
      BY <2>1 DEF IInv, Good, Offline, OfflinePcs, At
  <1> QED
    BY <1>1 DEF ScopeNext, Command, BeginInstall, BeginStart, BeginStop, BeginRestart,
                BeginUninstall, Begin, Stop, StopSeen, WaitTimesOut, Unregister,
                UnregisterFailsHalfway, PrepareAccount, CreateInitialPref, ApplyPermissions,
                Register, RegisterFailsHalfway, Start, StartSeen, Report, StepFails,
                ServiceStops, ServiceComesUp, ManagerStarts

\* The installer implements Deployment: nothing but register and unregister is
\* seen of it, however the files are replaced and whatever fails.
THEOREM Refinement == Spec => ImplementsDeployment
  <1> DEFINE d(s) == IF unit[s]
                     THEN [registered |-> TRUE, exe |-> files[s]["program"].dest,
                           assets |-> files[s]["base"].dest]
                     ELSE [registered |-> FALSE]
             D == [s \in Scopes |-> d(s)]
  <1>1. Init => Promise!Init
    BY DEF Init, Promise!Init, Promise!None
  <1>2. IInv /\ IInv' /\ [Next]_vars => [Promise!Next]_D
    <2> SUFFICES ASSUME IInv, IInv', [Next]_vars
                 PROVE  [Promise!Next]_D
      OBVIOUS
    <2>1. CASE UNCHANGED vars \/ Reboot
      <3>1. UNCHANGED <<files, unit>>
        BY <2>1 DEF vars, Reboot
      <3> QED
        BY <3>1
    <2>2. ASSUME NEW s \in Scopes, ScopeNext(s)
          PROVE  [Promise!Next]_D
      <3>1. \A o \in Scopes \ {s} : d(o)' = d(o)
        BY <2>2, Elsewhere DEF IInv
      <3>2. CASE unit[s] /\ unit'[s]
        <4>1. d(s)' = d(s)
          BY <2>2, <3>2, RegisteredStays
        <4> QED
          BY <3>1, <4>1
      <3>3. CASE ~unit[s] /\ ~unit'[s]
        <4>1. d(s)' = d(s)
          BY <3>3
        <4> QED
          BY <3>1, <4>1
      <3>4. CASE ~unit[s] /\ unit'[s]
        <4>1. /\ files'[s]["program"].dest \in Versions
              /\ files'[s]["base"].dest \in Versions
          BY <3>4 DEF IInv, Good, Whole, Parts
        <4>2. /\ D[s] = Promise!None
              /\ D' = [D EXCEPT ![s] = Promise!Release(files'[s]["program"].dest,
                                                      files'[s]["base"].dest)]
          BY <3>1, <3>4 DEF Promise!None, Promise!Release
        <4>3. Promise!Deploy(s)
          BY <4>1, <4>2 DEF Promise!Deploy
        <4> QED
          BY <4>3 DEF Promise!Next
      <3>5. CASE unit[s] /\ ~unit'[s]
        <4>1. D[s] # Promise!None
          <5>1. D[s].registered /\ ~Promise!None.registered
            BY <3>5 DEF Promise!None
          <5> QED
            BY <5>1
        <4>2. D' = [D EXCEPT ![s] = Promise!None]
          BY <3>1, <3>5 DEF Promise!None
        <4>3. Promise!Remove(s)
          BY <4>1, <4>2 DEF Promise!Remove
        <4> QED
          BY <4>3 DEF Promise!Next
      <3> QED
        BY <3>2, <3>3, <3>4, <3>5
    <2> QED
      BY <2>1, <2>2 DEF Next
  <1> QED
    BY <1>1, <1>2, Inductive, PTL DEF Spec, ImplementsDeployment, Promise!Spec

-----------------------------------------------------------------------------
\* The process of the service.

\* The time limit runs from the request on.
Clock ==
    /\ main = "starting" => ~requested
    /\ main \in {"starting", "serving"} => elapsed = 0
    /\ main \in {"draining", "waiting"} => requested /\ timer + elapsed = Limit
    /\ requested => stop \/ main \in {"serving", "exited"}

\* Requests are cut only by the exit.
Serving ==
    /\ main # "exited" => \A r \in Requests : req[r].st # "cut"
    /\ main = "waiting" => \A r \in Requests : req[r].st # "busy"

\* Tasks are replaced only when the settings have changed.
Generations ==
    /\ gen <= changes + 1
    /\ last # settings => gen <= changes

ServerInv == ServerTypeOK /\ Clock /\ Serving /\ Generations /\ DrainedBeforeLimit

-----------------------------------------------------------------------------
USE NamesAssumption, ConfigsAssumption, TimesAssumption

\* The exit cuts what is busy and nothing else.
LEMMA ExitEffect ==
    ASSUME ServerTypeOK, Exit
    PROVE  /\ req' \in [Requests -> [st : {"idle", "busy", "done", "cut"}, need : 0..Forever]]
           /\ main' = "exited"
           /\ \A r \in Requests : req'[r].st = "cut" => req[r].st \in {"busy", "cut"}
  BY DEF Exit, ServerTypeOK

\* What the steps of run_server_with_settings and the requests keep.
LEMMA ServerKeeps ==
    ASSUME ServerInv, Server
    PROVE  ServerInv'
  <1> USE DEF ServerInv
  <1>1. CASE Bind
    BY <1>1 DEF Bind, cronVars, ServerTypeOK, Clock, Serving, Generations, DrainedBeforeLimit
  <1>2. CASE BindFails
    <2>1. ServerTypeOK'
      BY <1>2, ExitEffect DEF BindFails, cronVars, ServerTypeOK
    <2> QED
      BY <1>2, <2>1, ExitEffect
         DEF BindFails, cronVars, Clock, Serving, Generations, DrainedBeforeLimit
  <1>3. CASE SeeShutdown
    BY <1>3 DEF SeeShutdown, cronVars, ServerTypeOK, Clock, Serving, Generations, DrainedBeforeLimit
  <1>4. CASE ServerEndsFirst
    BY <1>4 DEF ServerEndsFirst, ServerDone, cronVars, ServerTypeOK, Clock, Serving, Generations,
                DrainedBeforeLimit
  <1>5. CASE Joined
    <2>1. ServerTypeOK'
      BY <1>5, ExitEffect DEF Joined, cronVars, ServerTypeOK
    <2>2. \A r \in Requests : req[r].st \notin {"busy", "cut"}
      BY <1>5 DEF Joined, ServerDone, Serving
    <2> QED
      BY <1>5, <2>1, <2>2, ExitEffect
         DEF Joined, cronVars, Clock, Serving, Generations, DrainedBeforeLimit
  <1>6. CASE LimitPasses
    <2>1. ServerTypeOK'
      BY <1>6, ExitEffect DEF LimitPasses, cronVars, ServerTypeOK
    <2>2. elapsed = Limit
      BY <1>6 DEF LimitPasses, Clock, ServerTypeOK
    <2> QED
      BY <1>6, <2>1, <2>2, ExitEffect
         DEF LimitPasses, cronVars, Clock, Serving, Generations, DrainedBeforeLimit
  <1>7. ASSUME NEW r \in Requests, Accept(r)
        PROVE  ServerInv'
    <2>1. ServerTypeOK'
      BY <1>7 DEF Accept, cronVars, ServerTypeOK
    <2>2. \A q \in Requests : req'[q].st # "cut"
      BY <1>7 DEF Accept, Serving, ServerTypeOK
    <2> QED
      BY <1>7, <2>1, <2>2
         DEF Accept, cronVars, Clock, Serving, Generations, DrainedBeforeLimit
  <1>8. ASSUME NEW r \in Requests, Answer(r)
        PROVE  ServerInv'
    <2>1. req' = [req EXCEPT ![r].st = "done"] /\ main # "exited"
      BY <1>8 DEF Answer
    <2>2. req' \in [Requests -> [st : {"idle", "busy", "done", "cut"}, need : 0..Forever]]
      BY <2>1 DEF ServerTypeOK
    <2>3. \A q \in Requests : req'[q].st = "done" \/ req'[q].st = req[q].st
      BY <2>1 DEF ServerTypeOK
    <2>4. /\ settings' \in Configs /\ changes' \in 0..MaxChanges
          /\ changes' = changes + 1 \/ (changes' = changes /\ settings' = settings)
      BY <1>8 DEF Answer, ServerTypeOK
    <2>5. UNCHANGED <<main, requested, elapsed, timer, stop, cronVars>>
      BY <1>8 DEF Answer
    <2>6. ServerTypeOK'
      BY <2>2, <2>4, <2>5 DEF ServerTypeOK, cronVars
    <2>7. Serving' /\ DrainedBeforeLimit'
      BY <2>1, <2>3, <2>5 DEF Serving, DrainedBeforeLimit
    <2>8. Generations'
      <3>1. gen \in Int /\ changes \in Int /\ gen' = gen /\ last' = last
        BY <2>5 DEF ServerTypeOK, cronVars
      <3>2. gen <= changes + 1 /\ (last # settings => gen <= changes)
        BY DEF Generations
      <3>3. CASE changes' = changes + 1
        BY <3>1, <3>2, <3>3 DEF Generations
      <3>4. CASE changes' = changes /\ settings' = settings
        BY <3>1, <3>2, <3>4 DEF Generations
      <3> QED
        BY <2>4, <3>3, <3>4
    <2> QED
      BY <2>5, <2>6, <2>7, <2>8 DEF Clock
  <1> QED
    BY <1>1, <1>2, <1>3, <1>4, <1>5, <1>6, <1>7, <1>8 DEF Server

\* What the cron manager and its tasks keep.
LEMMA CronKeeps ==
    ASSUME ServerInv, Cron
    PROVE  ServerInv'
  <1> USE DEF ServerInv
  <1>1. CASE ManagerLooks
    <2>1. /\ UNCHANGED <<main, requested, elapsed, timer, req, settings, changes, stop, script>>
          /\ last' = settings /\ main # "exited"
      BY <1>1 DEF ManagerLooks
    <2>2. CASE last = settings
      BY <1>1, <2>1, <2>2
         DEF ManagerLooks, ServerTypeOK, Clock, Serving, Generations, DrainedBeforeLimit
    <2>3. CASE last # settings
      <3> DEFINE new == [n \in Names |-> IF n \in TaskNames(settings) THEN "waiting" ELSE "none"]
      <3>1. gen' = gen + 1 /\ gen + 1 <= changes + 1 /\ gen + 1 \in Gens
        BY <1>1, <2>3 DEF ManagerLooks, Generations, Gens, ServerTypeOK
      <3>2. task' = [task EXCEPT ![gen + 1] = new]
        BY <1>1, <2>3 DEF ManagerLooks
      <3>3. new \in [Names -> {"none", "waiting", "loading", "running", "gone"}]
        OBVIOUS
      <3>4. task' \in [Gens -> [Names -> {"none", "waiting", "loading", "running", "gone"}]]
        <4> HIDE DEF new
        <4> QED
          BY <3>1, <3>2, <3>3 DEF ServerTypeOK
      <3>5. ServerTypeOK'
        BY <1>1, <2>1, <3>1, <3>4 DEF ManagerLooks, ServerTypeOK, Gens
      <3> QED
        BY <2>1, <3>1, <3>5 DEF Clock, Serving, Generations, DrainedBeforeLimit
    <2> QED
      BY <2>2, <2>3
  <1>2. CASE ManagerWakes
    BY <1>2 DEF ManagerWakes, ServerTypeOK, Clock, Serving, Generations, DrainedBeforeLimit
  <1>3. CASE ManagerStops
    BY <1>3 DEF ManagerStops, ServerTypeOK, Clock, Serving, Generations, DrainedBeforeLimit
  <1>4. ASSUME NEW g \in Gens, NEW n \in Names,
               \/ TaskReturns(g, n) \/ TaskFires(g, n) \/ TaskLoadFails(g, n)
               \/ TaskStartsScript(g, n) \/ ScriptEnds(g, n) \/ TaskDropped(g, n)
        PROVE  ServerInv'
    <2>1. /\ UNCHANGED <<main, requested, elapsed, timer, req, settings, changes, stop,
                         mgr, last, gen>>
          /\ main # "exited"
      BY <1>4 DEF TaskReturns, TaskFires, TaskLoadFails, TaskStartsScript, ScriptEnds,
                  TaskDropped, TaskGoes, TaskAt
    <2>2. task' \in [Gens -> [Names -> {"none", "waiting", "loading", "running", "gone"}]]
      <3>1. \A st \in {"none", "waiting", "loading", "running", "gone"} : TaskGoes(g, n, st) =>
               task' \in [Gens -> [Names -> {"none", "waiting", "loading", "running", "gone"}]]
        BY DEF TaskGoes, ServerTypeOK
      <3>2. task[g][n] \in {"none", "waiting", "loading", "running", "gone"}
        BY DEF ServerTypeOK
      <3> QED
        BY <1>4, <3>1, <3>2
           DEF TaskReturns, TaskFires, TaskLoadFails, TaskStartsScript, ScriptEnds, TaskDropped
    <2>3. script' \in [Gens -> [Names -> BOOLEAN]]
      <3>1. script' = script \/ \E b \in BOOLEAN : script' = [script EXCEPT ![g][n] = b]
        BY <1>4 DEF TaskReturns, TaskFires, TaskLoadFails, TaskStartsScript, ScriptEnds,
                    TaskDropped
      <3>2. script \in [Gens -> [Names -> BOOLEAN]]
        BY DEF ServerTypeOK
      <3>3. ASSUME NEW b \in BOOLEAN, script' = [script EXCEPT ![g][n] = b]
            PROVE  script' \in [Gens -> [Names -> BOOLEAN]]
        <4>1. [script[g] EXCEPT ![n] = b] \in [Names -> BOOLEAN]
          BY <3>2
        <4>2. script' = [script EXCEPT ![g] = [script[g] EXCEPT ![n] = b]]
          BY <3>2, <3>3
        <4> QED
          BY <3>2, <4>1, <4>2
      <3> QED
        BY <3>1, <3>2, <3>3
    <2>4. ServerTypeOK'
      BY <2>1, <2>2, <2>3 DEF ServerTypeOK
    <2> QED
      BY <2>1, <2>4 DEF Clock, Serving, Generations, DrainedBeforeLimit
  <1> QED
    BY <1>1, <1>2, <1>3, <1>4 DEF Cron

\* What the passage of time keeps.
LEMMA TickKeeps ==
    ASSUME ServerInv, Tick
    PROVE  ServerInv'
  <1> USE DEF ServerInv
  <1>1. UNCHANGED <<main, requested, settings, changes, stop, cronVars>> /\ main # "exited"
    BY DEF Tick
  <1>2. /\ req' \in [Requests -> [st : {"idle", "busy", "done", "cut"}, need : 0..Forever]]
        /\ \A r \in Requests : req'[r].st = req[r].st
    <2> SUFFICES ASSUME NEW r \in Requests
                 PROVE  LET q == IF req[r].st = "busy" /\ req[r].need # Forever
                                 THEN [req[r] EXCEPT !.need = @ - 1] ELSE req[r]
                        IN  /\ q \in [st : {"idle", "busy", "done", "cut"}, need : 0..Forever]
                            /\ q.st = req[r].st
      BY DEF Tick
    <2>1. req[r] \in [st : {"idle", "busy", "done", "cut"}, need : 0..Forever]
      BY DEF ServerTypeOK
    <2>2. req[r].st = "busy" => req[r].need > 0
      BY DEF Tick, Quiet
    <2> QED
      BY <2>1, <2>2 DEF Forever
  <1>3. elapsed' \in Nat /\ timer' \in Nat
    BY DEF Tick, ServerTypeOK
  <1>4. ServerTypeOK'
    BY <1>1, <1>2, <1>3 DEF ServerTypeOK, cronVars
  <1>5. Clock'
    <2>1. CASE main = "serving"
      BY <1>1, <2>1 DEF Tick, Quiet, Clock
    <2>2. CASE main \in {"draining", "waiting"}
      <3>1. timer > 0 /\ requested /\ timer + elapsed = Limit
        BY <2>2 DEF Tick, Quiet, Clock
      <3>2. timer' = timer - 1 /\ elapsed' = elapsed + 1
        BY <3>1 DEF Tick, ServerTypeOK
      <3> QED
        BY <1>1, <2>2, <3>1, <3>2 DEF Clock, ServerTypeOK
    <2> QED
      BY <1>1, <2>1, <2>2 DEF Tick, Clock, ServerTypeOK
  <1> QED
    BY <1>1, <1>2, <1>4, <1>5 DEF Serving, Generations, DrainedBeforeLimit, cronVars

\* The inductive invariant.
LEMMA ServerInductive == ServerSpec => []ServerInv
  <1>1. ServerInit => ServerInv
    <2> SUFFICES ASSUME ServerInit
                 PROVE  ServerInv
      OBVIOUS
    <2>1. ServerTypeOK
      <3>1. req \in [Requests -> [st : {"idle", "busy", "done", "cut"}, need : 0..Forever]]
        BY DEF ServerInit, Forever
      <3>2. task \in [Gens -> [Names -> {"none", "waiting", "loading", "running", "gone"}]]
        BY DEF ServerInit, NoTasks
      <3>3. script \in [Gens -> [Names -> BOOLEAN]]
        BY DEF ServerInit
      <3>4. gen \in 0..(MaxChanges + 1) /\ changes \in 0..MaxChanges
        BY DEF ServerInit
      <3> QED
        BY <3>1, <3>2, <3>3, <3>4 DEF ServerInit, ServerTypeOK
    <2> QED
      BY <2>1 DEF ServerInit, ServerInv, Clock, Serving, Generations, DrainedBeforeLimit
  <1>2. ServerInv /\ [ServerNext]_serverVars => ServerInv'
    <2> SUFFICES ASSUME ServerInv, [ServerNext]_serverVars
                 PROVE  ServerInv'
      OBVIOUS
    <2>1. CASE RequestShutdown
      BY <2>1 DEF RequestShutdown, ServerInv, ServerTypeOK, Clock, Serving, Generations,
                  DrainedBeforeLimit, cronVars
    <2>2. CASE UNCHANGED serverVars
      BY <2>2 DEF serverVars, ServerInv, ServerTypeOK, Clock, Serving, Generations, DrainedBeforeLimit, cronVars
    <2> QED
      BY <2>1, <2>2, ServerKeeps, CronKeeps, TickKeeps DEF ServerNext
  <1> QED
    BY <1>1, <1>2, PTL DEF ServerSpec

\* The type invariant: in particular the manager replaces its tasks no more
\* often than the settings change.
THEOREM ServerTypeCorrect == ServerSpec => []ServerTypeOK
  <1>1. ServerInv => ServerTypeOK
    BY DEF ServerInv
  <1> QED
    BY <1>1, ServerInductive, PTL

\* Before the time limit is over the process exits only with every accepted
\* request answered and the cron manager ended.
THEOREM Drained == ServerSpec => []DrainedBeforeLimit
  <1>1. ServerInv => DrainedBeforeLimit
    BY DEF ServerInv
  <1> QED
    BY <1>1, ServerInductive, PTL

\* The process does not outlive the time limit: one timeout covers the server
\* and the manager, and starts with the request.
THEOREM InTime == ServerSpec => []ExitsInTime
  <1>1. ServerInv => ExitsInTime
    BY DEF ServerInv, Clock, ExitsInTime, ServerTypeOK
  <1> QED
    BY <1>1, ServerInductive, PTL

-----------------------------------------------------------------------------
\* The Windows host.  Each reported state tells how far the server and the handler
\* have come: while Running is reported nobody has asked the server to stop.
HostOrder ==
    /\ main \in {"starting", "serving", "draining", "waiting", "exited"}
    /\ handler \in 0..3
    /\ scm \in {"StartPending", "Running", "StopPending", "Stopped"}
    /\ main = "starting" => scm = "StartPending" /\ ~requested
    /\ scm = "StartPending" => main \in {"starting", "exited"} /\ handler = 0
    /\ scm = "Running" => main = "serving" /\ handler \in {0, 1}
    /\ scm = "StopPending" => handler \in {2, 3}
    /\ scm = "Stopped" => main = "exited"
    /\ handler \in {0, 1} => ~requested
    /\ handler = 1 => scm = "Running"
    /\ handler \in {2, 3} => scm \in {"StopPending", "Stopped"}

\* The host's steps are the server's, or leave the server alone.
LEMMA HostStep == [HostNext]_<<serverVars, hostVars>> => [ServerNext]_serverVars
BY DEF HostNext, hostVars, ServerNext, Server, ReportRunning, ReportStopped, Control, HandlerReports,
   HandlerSends

\* A server that nobody has asked to stop goes on serving.
LEMMA ServesOn ==
    ASSUME BindFails \/ SeeShutdown \/ ServerEndsFirst \/ Joined \/ LimitPasses
             \/ (\E r \in Requests : Accept(r) \/ Answer(r)) \/ Cron \/ Tick
    PROVE  /\ requested' = requested
           /\ main' = main \/ main' = "exited" \/ (requested /\ main' \in {"draining", "waiting"})
           /\ main' = "exited" => main # "serving"
           /\ main = "exited" => main' = "exited"
BY DEF BindFails, SeeShutdown, ServerEndsFirst, ServerDone, Joined, LimitPasses, Exit, Accept, Answer,
   Cron, ManagerLooks, ManagerWakes, ManagerStops, TaskReturns, TaskFires, TaskLoadFails,
   TaskStartsScript, ScriptEnds, TaskDropped, TaskGoes, TaskAt, Tick

LEMMA HostOrderStep == HostOrder /\ [HostNext]_<<serverVars, hostVars>> => HostOrder'
<1> SUFFICES ASSUME HostOrder, [HostNext]_<<serverVars, hostVars>> PROVE HostOrder'
  OBVIOUS
<1>1. CASE ReportRunning
  BY <1>1 DEF ReportRunning, Bind, HostOrder
<1>2. CASE ReportStopped
  BY <1>2 DEF ReportStopped, serverVars, HostOrder
<1>3. CASE Control
  BY <1>3 DEF Control, serverVars, HostOrder
<1>4. CASE HandlerReports
  BY <1>4 DEF HandlerReports, HandlerAt, HandlerSteps, serverVars, HostOrder
<1>5. CASE HandlerSends
  BY <1>5 DEF HandlerSends, HandlerAt, HandlerSteps, RequestShutdown, HostOrder
<1>6. CASE /\ BindFails \/ SeeShutdown \/ ServerEndsFirst \/ Joined \/ LimitPasses
               \/ (\E r \in Requests : Accept(r) \/ Answer(r)) \/ Cron \/ Tick
           /\ UNCHANGED hostVars
  BY <1>6, ServesOn DEF hostVars, HostOrder
<1>7. CASE UNCHANGED <<serverVars, hostVars>>
  BY <1>7 DEF serverVars, hostVars, HostOrder
<1> QED
  BY <1>1, <1>2, <1>3, <1>4, <1>5, <1>6, <1>7 DEF HostNext

\* Everything the server does under the SCM is what it does without: what is
\* proved of the one holds for the other (run_service calls run_server).
THEOREM HostRunsServer == HostSpec => ServerInit /\ [][ServerNext]_serverVars
BY HostStep, PTL DEF HostSpec, HostInit

\* The SCM sees StartPending, Running, StopPending and Stopped in that order,
\* whatever requests, cron tasks and limits there are, though two threads report
\* (run_service, its control handler).
THEOREM ReportsInOrder == HostSpec => ScmOrder
<1>1. HostInit => HostOrder
  BY DEF HostInit, ServerInit, HostOrder
<1>2. HostOrder /\ [HostNext]_<<serverVars, hostVars>>
        => [ \/ scm = "StartPending" /\ scm' \in {"Running", "Stopped"}
             \/ scm = "Running" /\ scm' = "StopPending"
             \/ scm = "StopPending" /\ scm' = "Stopped" ]_scm
  BY DEF HostOrder, HostNext, hostVars, ReportRunning, Bind, ReportStopped, Control, HandlerReports,
     HandlerAt, HandlerSteps, HandlerSends
<1> QED
  BY <1>1, <1>2, HostOrderStep, PTL DEF HostSpec, ScmOrder
=============================================================================
