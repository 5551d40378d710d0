------------------------- MODULE MCServerLifecycle -------------------------
(* The server process and its Windows host on a small instance: cron off,    *)
(* one task, and one more whose schedule does not parse.                     *)
EXTENDS WindowsHost

MCConfigs ==
    { [enabled |-> FALSE, tasks |-> {"a"}],
      [enabled |-> TRUE, tasks |-> {"a"}],
      [enabled |-> TRUE, tasks |-> {"a", "x"}] }
=============================================================================
