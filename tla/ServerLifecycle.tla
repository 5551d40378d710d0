--------------------------- MODULE ServerLifecycle ---------------------------
(***************************************************************************)
(* The life of one server process (crates/subconverter-server/src/main.rs): *)
(* run_server_with_settings with its graceful shutdown, the requests it     *)
(* serves, the cron manager that follows the settings, and the cron tasks,  *)
(* whose scripts run on blocking threads.                                   *)
(*                                                                         *)
(* Time counts in ticks.  The runtime is taken to be prompt: what can run   *)
(* runs before time passes (Quiet), but in any order.                       *)
(***************************************************************************)
EXTENDS Integers

CONSTANTS
    Requests,    \* the requests that come
    Names,       \* the cron tasks that may be configured
    Invalid,     \* those of them whose schedule does not parse
    Configs,     \* what the settings say of cron
    Limit,       \* GRACEFUL_SHUTDOWN_LIMIT
    MaxNeed,     \* bound on the time a request takes
    MaxChanges   \* bound on the changes of the settings

ASSUME NamesAssumption == Invalid \subseteq Names
ASSUME ConfigsAssumption == Configs \subseteq [enabled : BOOLEAN, tasks : SUBSET Names]
ASSUME TimesAssumption == Limit \in Nat /\ MaxNeed \in Nat /\ MaxChanges \in Nat

VARIABLES
    main,       \* where run_server_with_settings is
    requested,  \* whether the shutdown future has completed
    elapsed,    \* the time since it has, up to just over the limit
    timer,      \* what is left of the time limit
    req,        \* per request, its state and the time it still takes
    settings,   \* the shared settings, as far as cron goes
    changes,
    mgr,        \* where the cron manager is
    last,       \* the task_state it has last acted on
    stop,       \* the value in the cron_shutdown channel
    gen,        \* how often it has replaced its tasks
    task,       \* per generation and name, where the task is
    script      \* per generation and name, whether its script runs

cronVars == <<mgr, last, gen, task, script>>
serverVars == <<main, requested, elapsed, timer, req, settings, changes, stop, cronVars>>

-----------------------------------------------------------------------------
Forever == MaxNeed + 1    \* a client that never takes its answer
NoConfig == [enabled |-> FALSE]
Gens == 1..(MaxChanges + 1)
NoTasks == [g \in Gens |-> [n \in Names |-> "none"]]

\* The names for which a task is started.
TaskNames(c) == IF c.enabled THEN c.tasks ELSE {}

\* Mutated form of Aborted: the manager starts new tasks beside the old ones.
AbortedLate(g) == mgr = "ended"

\* The tasks of earlier generations have been aborted, and all of them when the
\* manager has ended.
Aborted(g) == g < gen \/ mgr = "ended"

\* axum::serve returns when it was asked to stop and no connection is left.
ServerDone == requested /\ \A r \in Requests : req[r].st # "busy"

ServerInit ==
    /\ main = "starting"
    /\ requested = FALSE
    /\ elapsed = 0
    /\ timer = 0
    /\ req = [r \in Requests |-> [st |-> "idle", need |-> 0]]
    /\ settings \in Configs
    /\ changes = 0
    /\ mgr = "look"
    /\ last = NoConfig
    /\ stop = FALSE
    /\ gen = 0
    /\ task = NoTasks
    /\ script = [g \in Gens |-> [n \in Names |-> FALSE]]

-----------------------------------------------------------------------------
\* run_server_with_settings.

\* The process ends: the runtime is shut down without waiting.
Exit ==
    /\ main' = "exited"
    /\ req' = [r \in Requests |->
                 IF req[r].st = "busy" THEN [req[r] EXCEPT !.st = "cut"] ELSE req[r]]

Bind ==
    /\ main = "starting"
    /\ main' = "serving"
    /\ UNCHANGED <<requested, elapsed, timer, req, settings, changes, stop, cronVars>>

\* The address is in use: the error is returned, the manager left behind.
BindFails ==
    /\ main = "starting"
    /\ Exit
    /\ UNCHANGED <<requested, elapsed, timer, settings, changes, stop, cronVars>>

\* SIGINT or SIGTERM; the service control handler on Windows.
RequestShutdown ==
    /\ main = "serving"
    /\ ~requested
    /\ requested' = TRUE
    /\ UNCHANGED <<main, elapsed, timer, req, settings, changes, stop, cronVars>>

\* Mutated form of SeeShutdown: server and manager are waited for one after the
\* other, each with the time limit.
SeeShutdownTwice ==
    /\ main = "serving" /\ requested
    /\ main' = "draining"
    /\ timer' = Limit + Limit
    /\ stop' = TRUE
    /\ UNCHANGED <<requested, elapsed, req, settings, changes, cronVars>>

\* The second branch of the select!: shutdown_started_rx.
SeeShutdown ==
    /\ main = "serving" /\ requested
    /\ main' = "draining"
    /\ timer' = Limit
    /\ stop' = TRUE
    /\ UNCHANGED <<requested, elapsed, req, settings, changes, cronVars>>

\* The first branch: the server had nothing to drain.
ServerEndsFirst ==
    /\ main = "serving" /\ ServerDone
    /\ main' = "waiting"
    /\ timer' = Limit
    /\ stop' = TRUE
    /\ UNCHANGED <<requested, elapsed, req, settings, changes, cronVars>>

\* Mutated form of Joined: only the manager is waited for.
JoinedManager ==
    /\ main \in {"draining", "waiting"} /\ mgr = "ended"
    /\ Exit
    /\ UNCHANGED <<requested, elapsed, timer, settings, changes, stop, cronVars>>

\* tokio::join!(&mut server, cron_manager), or the manager alone.
Joined ==
    /\ \/ main = "draining" /\ ServerDone
       \/ main = "waiting"
    /\ mgr = "ended"
    /\ Exit
    /\ UNCHANGED <<requested, elapsed, timer, settings, changes, stop, cronVars>>

\* Mutated form of LimitPasses: only the wait for the manager has a limit.
LimitPassesWaiting ==
    /\ main = "waiting" /\ timer = 0
    /\ Exit
    /\ UNCHANGED <<requested, elapsed, timer, settings, changes, stop, cronVars>>

\* The timeout of either branch.
LimitPasses ==
    /\ main \in {"draining", "waiting"} /\ timer = 0
    /\ Exit
    /\ UNCHANGED <<requested, elapsed, timer, settings, changes, stop, cronVars>>

-----------------------------------------------------------------------------
\* Requests are accepted until the shutdown is requested, and then drained.
Accept(r) ==
    /\ main = "serving" /\ ~requested
    /\ req[r].st = "idle"
    /\ \E need \in 0..Forever : req' = [req EXCEPT ![r] = [st |-> "busy", need |-> need]]
    /\ UNCHANGED <<main, requested, elapsed, timer, settings, changes, stop, cronVars>>

\* A request is answered; a management request may replace the settings.
Answer(r) ==
    /\ main # "exited"
    /\ req[r].st = "busy" /\ req[r].need = 0
    /\ req' = [req EXCEPT ![r].st = "done"]
    /\ \/ UNCHANGED <<settings, changes>>
       \/ /\ changes < MaxChanges
          /\ changes' = changes + 1
          /\ settings' \in Configs
    /\ UNCHANGED <<main, requested, elapsed, timer, stop, cronVars>>

-----------------------------------------------------------------------------
\* start_cron_manager.

\* Mutated form of ManagerLooks: it replaces the tasks at every look.
ManagerLooksAnew ==
    /\ main # "exited" /\ mgr = "look" /\ ~stop
    /\ mgr' = "sleep"
    /\ last' = settings
    /\ gen' = gen + 1
    /\ UNCHANGED <<main, requested, elapsed, timer, req, settings, changes, stop, task, script>>

\* It looks at the settings; if they differ in what concerns cron, it aborts the
\* tasks and starts those that are configured now.
ManagerLooks ==
    /\ main # "exited" /\ mgr = "look" /\ ~stop
    /\ mgr' = "sleep"
    /\ last' = settings
    /\ IF last = settings
       THEN UNCHANGED <<gen, task>>
       ELSE /\ gen' = gen + 1
            /\ task' = [task EXCEPT ![gen + 1] =
                  [n \in Names |-> IF n \in TaskNames(settings) THEN "waiting" ELSE "none"]]
    /\ UNCHANGED <<main, requested, elapsed, timer, req, settings, changes, stop, script>>

\* Five seconds are over.
ManagerWakes ==
    /\ main # "exited" /\ mgr = "sleep" /\ ~stop
    /\ mgr' = "look"
    /\ UNCHANGED <<main, requested, elapsed, timer, req, settings, changes, stop,
                   last, gen, task, script>>

\* The channel says so: it aborts its tasks and returns.
ManagerStops ==
    /\ main # "exited" /\ mgr # "ended" /\ stop
    /\ mgr' = "ended"
    /\ UNCHANGED <<main, requested, elapsed, timer, req, settings, changes, stop,
                   last, gen, task, script>>

-----------------------------------------------------------------------------
\* A cron task.  One that was aborted goes on to its next suspension point.

TaskAt(g, n, st) == main # "exited" /\ task[g][n] = st
TaskGoes(g, n, st) ==
    /\ task' = [task EXCEPT ![g][n] = st]
    /\ UNCHANGED <<main, requested, elapsed, timer, req, settings, changes, stop,
                   mgr, last, gen>>

\* The schedule does not parse, or the channel says that it is over.
TaskReturns(g, n) ==
    /\ TaskAt(g, n, "waiting")
    /\ n \in Invalid \/ stop
    /\ TaskGoes(g, n, "gone")
    /\ UNCHANGED script

\* Its time has come.
TaskFires(g, n) ==
    /\ TaskAt(g, n, "waiting")
    /\ n \notin Invalid
    /\ TaskGoes(g, n, "loading")
    /\ UNCHANGED script

\* load_cron_script fails.
TaskLoadFails(g, n) ==
    /\ TaskAt(g, n, "loading")
    /\ TaskGoes(g, n, "waiting")
    /\ UNCHANGED script

\* spawn_blocking.
TaskStartsScript(g, n) ==
    /\ TaskAt(g, n, "loading")
    /\ ~script[g][n]
    /\ TaskGoes(g, n, "running")
    /\ script' = [script EXCEPT ![g][n] = TRUE]

\* The script ends, by itself or at its deadline; its task goes on if it is
\* still there.
ScriptEnds(g, n) ==
    /\ main # "exited" /\ script[g][n]
    /\ script' = [script EXCEPT ![g][n] = FALSE]
    /\ TaskGoes(g, n, IF task[g][n] = "running" THEN "waiting" ELSE task[g][n])

\* The abort takes effect: the task is dropped, a script of its runs on.
TaskDropped(g, n) ==
    /\ main # "exited"
    /\ task[g][n] \in {"waiting", "loading", "running"}
    /\ Aborted(g)
    /\ TaskGoes(g, n, "gone")
    /\ UNCHANGED script

-----------------------------------------------------------------------------
\* Nothing that can run at once is left to do.
Quiet ==
    /\ ~(main = "serving" /\ requested)
    /\ stop => mgr = "ended"
    /\ main = "draining" => timer > 0 /\ (mgr # "ended" \/ ~ServerDone)
    /\ main = "waiting" => timer > 0 /\ mgr # "ended"
    /\ \A r \in Requests : req[r].st = "busy" => req[r].need > 0

Tick ==
    /\ main \notin {"starting", "exited"}
    /\ Quiet
    /\ elapsed' = IF requested /\ elapsed <= Limit THEN elapsed + 1 ELSE elapsed
    /\ timer' = IF timer > 0 THEN timer - 1 ELSE timer
    /\ req' = [r \in Requests |->
                 IF req[r].st = "busy" /\ req[r].need # Forever
                 THEN [req[r] EXCEPT !.need = @ - 1] ELSE req[r]]
    /\ UNCHANGED <<main, requested, settings, changes, stop, cronVars>>

Server ==
    \/ Bind \/ BindFails \/ SeeShutdown \/ ServerEndsFirst \/ Joined \/ LimitPasses
    \/ \E r \in Requests : Accept(r) \/ Answer(r)

Cron ==
    \/ ManagerLooks \/ ManagerWakes \/ ManagerStops
    \/ \E g \in Gens, n \in Names :
          \/ TaskReturns(g, n) \/ TaskFires(g, n) \/ TaskLoadFails(g, n)
          \/ TaskStartsScript(g, n) \/ ScriptEnds(g, n) \/ TaskDropped(g, n)

ServerNext == RequestShutdown \/ Server \/ Cron \/ Tick

\* The runtime runs what is ready, time passes, and every script has a deadline.
\* Nothing makes a request come, a cron time, or a shutdown.
Fairness ==
    /\ WF_serverVars(Bind \/ BindFails)
    /\ WF_serverVars(SeeShutdown \/ ServerEndsFirst)
    /\ WF_serverVars(Joined \/ LimitPasses)
    /\ \A r \in Requests : WF_serverVars(Answer(r))
    /\ WF_serverVars(ManagerLooks) /\ WF_serverVars(ManagerWakes) /\ WF_serverVars(ManagerStops)
    /\ \A g \in Gens, n \in Names :
          WF_serverVars(TaskReturns(g, n)) /\ WF_serverVars(TaskDropped(g, n)) /\ WF_serverVars(ScriptEnds(g, n))
    /\ WF_serverVars(Tick)

ServerSpec == ServerInit /\ [][ServerNext]_serverVars /\ Fairness

-----------------------------------------------------------------------------
\* Type invariant.
ServerTypeOK ==
    /\ main \in {"starting", "serving", "draining", "waiting", "exited"}
    /\ requested \in BOOLEAN
    /\ elapsed \in Nat
    /\ timer \in Nat
    /\ req \in [Requests -> [st : {"idle", "busy", "done", "cut"}, need : 0..Forever]]
    /\ settings \in Configs
    /\ changes \in 0..MaxChanges
    /\ mgr \in {"look", "sleep", "ended"}
    /\ last \in Configs \cup {NoConfig}
    /\ stop \in BOOLEAN
    /\ gen \in 0..(MaxChanges + 1)
    /\ task \in [Gens -> [Names -> {"none", "waiting", "loading", "running", "gone"}]]
    /\ script \in [Gens -> [Names -> BOOLEAN]]

\* The shutdown waits for what it should: the process does not exit before the
\* time limit unless every request it had accepted is answered and the manager
\* has stopped the tasks.
DrainedBeforeLimit ==
    main = "exited" /\ requested /\ elapsed < Limit =>
        /\ \A r \in Requests : req[r].st # "cut"
        /\ mgr = "ended"

\* It exits within the limit after the request, however long requests take and
\* whatever the cron tasks do.
ExitsInTime == requested /\ main # "exited" => elapsed <= Limit

\* A shutdown that was requested ends the process.
ShutdownCompletes == requested ~> main = "exited"

\* Once the settings stay as they are, exactly the tasks they configure are left.
LiveTasks ==
    { n \in Names : \E g \in Gens : task[g][n] \in {"waiting", "loading", "running"} }
CronFollowsSettings ==
    \A c \in Configs :
        <>[](settings = c /\ main = "serving" /\ ~requested)
            => <>[](LiveTasks = TaskNames(c) \ Invalid)

-----------------------------------------------------------------------------
\* docs/SERVICES.md: on shutdown "in-flight requests and cron/background tasks
\* are drained".
CronDrained ==
    main = "exited" /\ requested /\ elapsed < Limit =>
        \A g \in Gens, n \in Names : ~script[g][n]
=============================================================================
