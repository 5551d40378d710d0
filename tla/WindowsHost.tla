----------------------------- MODULE WindowsHost -----------------------------
(***************************************************************************)
(* The server under the Windows Service Control Manager                     *)
(* (crates/subconverter-server/src/windows_service_host.rs): run_service    *)
(* reports the service's state around run_server, and the control handler,  *)
(* on a thread of the SCM's, answers Stop, Shutdown and Preshutdown.        *)
(***************************************************************************)
EXTENDS ServerLifecycle, Sequences

VARIABLES
    scm,        \* the state last reported
    handler     \* how far the control handler has come

hostVars == <<scm, handler>>

\* Mutated form of HandlerSteps: the server is told before the SCM is.
HandlerStepsSwapped == <<"send", "report">>

\* What the handler does with a control, in order.
HandlerSteps == <<"report", "send">>

HostInit == ServerInit /\ scm = "StartPending" /\ handler = 0

\* The ready callback of run_server.
ReportRunning ==
    /\ Bind
    /\ scm' = "Running"
    /\ UNCHANGED handler

\* run_server returned, whether it failed or not.
ReportStopped ==
    /\ main = "exited" /\ scm # "Stopped"
    /\ scm' = "Stopped"
    /\ UNCHANGED <<serverVars, handler>>

\* The SCM sends a control only while the reported state accepts it.
Control ==
    /\ scm = "Running" /\ handler = 0
    /\ handler' = 1
    /\ UNCHANGED <<serverVars, scm>>

HandlerAt(step) == handler \in 1..2 /\ HandlerSteps[handler] = step

HandlerReports ==
    /\ HandlerAt("report")
    /\ scm' = "StopPending"
    /\ handler' = handler + 1
    /\ UNCHANGED serverVars

\* Mutated form of HandlerSends: the sender is gone, nobody is told.
HandlerSendsNothing ==
    /\ HandlerAt("send")
    /\ handler' = handler + 1
    /\ UNCHANGED <<serverVars, scm>>

\* The first control takes the sender and completes the shutdown future.
HandlerSends ==
    /\ HandlerAt("send")
    /\ handler' = handler + 1
    /\ RequestShutdown
    /\ UNCHANGED scm

HostNext ==
    \/ ReportRunning \/ ReportStopped \/ Control \/ HandlerReports \/ HandlerSends
    \/ /\ BindFails \/ SeeShutdown \/ ServerEndsFirst \/ Joined \/ LimitPasses
          \/ (\E r \in Requests : Accept(r) \/ Answer(r)) \/ Cron \/ Tick
       /\ UNCHANGED hostVars

\* The process lives until it has reported; a handler that was called returns.
HostSpec ==
    /\ HostInit /\ [][HostNext]_<<serverVars, hostVars>>
    /\ Fairness
    /\ WF_<<serverVars, hostVars>>(ReportStopped)
    /\ WF_<<serverVars, hostVars>>(HandlerReports) /\ WF_<<serverVars, hostVars>>(HandlerSends)

-----------------------------------------------------------------------------
\* Two threads report; the SCM never sees a stopped service come back, nor a
\* stop of one that was not running.
ScmOrder ==
    [][ \/ scm = "StartPending" /\ scm' \in {"Running", "Stopped"}
        \/ scm = "Running" /\ scm' = "StopPending"
        \/ scm = "StopPending" /\ scm' = "Stopped" ]_scm

\* A control that was accepted ends with Stopped, not with a service that is
\* stopping for ever.
ControlAnswered == handler = 1 ~> scm = "Stopped"
=============================================================================
