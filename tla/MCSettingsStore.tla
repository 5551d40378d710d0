--------------------------- MODULE MCSettingsStore ---------------------------
(* SettingsStore with two pref files and two management requests at a time.   *)
EXTENDS SettingsStore, TLC

CONSTANTS h1, h2

\* One content of each kind, and one that turns reload_conf_on_request on.
MCContents ==
    { [id |-> 1, kind |-> "plain",     token |-> TRUE,  reload |-> FALSE],
      [id |-> 2, kind |-> "plain",     token |-> FALSE, reload |-> TRUE],
      [id |-> 3, kind |-> "nested",    token |-> TRUE,  reload |-> FALSE],
      [id |-> 4, kind |-> "remote",    token |-> TRUE,  reload |-> FALSE],
      [id |-> 5, kind |-> "badImport", token |-> TRUE,  reload |-> FALSE],
      [id |-> 6, kind |-> "badSyntax", token |-> TRUE,  reload |-> FALSE] }

HandlerSymmetry == Permutations({h1, h2})
=============================================================================
