------------------------------ MODULE Deployment ------------------------------
(***************************************************************************)
(* What the service installer promises of a machine, with no files, steps   *)
(* or failures in sight: per scope nothing is registered, or one service    *)
(* that consists of one release's binary and one release's assets, both     *)
(* whole, from its registration to its removal.  ServiceInstall implements  *)
(* this.                                                                    *)
(***************************************************************************)
CONSTANTS Scopes, Versions

VARIABLE deployed   \* per scope, what is registered

None == [registered |-> FALSE]
Release(exe, assets) == [registered |-> TRUE, exe |-> exe, assets |-> assets]

Init == deployed = [s \in Scopes |-> None]

Deploy(s) ==
    /\ deployed[s] = None
    /\ \E exe, assets \in Versions :
          deployed' = [deployed EXCEPT ![s] = Release(exe, assets)]

Remove(s) ==
    /\ deployed[s] # None
    /\ deployed' = [deployed EXCEPT ![s] = None]

Next == \E s \in Scopes : Deploy(s) \/ Remove(s)

Spec == Init /\ [][Next]_deployed
=============================================================================
