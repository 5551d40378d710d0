---------------------------- MODULE MCFetchCache ----------------------------
(* FetchCache on a small instance: one URL cached in two namespaces with     *)
(* different lifetimes, under three settings that differ in what they allow. *)
EXTENDS FetchCache, TLC

CONSTANTS r1, r2, u1

\* Plain settings; settings with serve_cache_on_fetch_fail, longer-lived
\* rulesets and no subscription caching; settings that forbid the URL.
MCConfigs ==
    { [subscription |-> 1, config |-> 1, ruleset |-> 2, stale |-> FALSE, allowed |-> {u1}],
      [subscription |-> 0, config |-> 1, ruleset |-> 1, stale |-> TRUE,  allowed |-> {u1}],
      [subscription |-> 1, config |-> 1, ruleset |-> 2, stale |-> FALSE, allowed |-> {}] }

MCMaxTtl == [ns \in Namespaces |-> IF ns = "ruleset" THEN 2 ELSE 1]

HandlerSymmetry == Permutations({r1, r2})
=============================================================================
