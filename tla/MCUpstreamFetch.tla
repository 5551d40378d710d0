-------------------------- MODULE MCUpstreamFetch --------------------------
(* UpstreamFetch on a small instance: two hosts, of which one can be reached *)
(* in plain HTTP only; a public address and a private one; the settings      *)
(* before and after an update that lifts the restrictions.                   *)
EXTENDS UpstreamFetch

MCUrls ==
    { [host |-> "h", scheme |-> "https"],
      [host |-> "k", scheme |-> "http"] }

MCAnswers == { {"pub"}, {"pub", "priv"} }

MCPolicies ==
    { [redirects |-> 1, bytes |-> 1, connect |-> 1, request |-> 1,
       private |-> FALSE, http |-> FALSE],
      [redirects |-> 0, bytes |-> 0, connect |-> 1, request |-> 2,
       private |-> TRUE, http |-> TRUE] }
=============================================================================
