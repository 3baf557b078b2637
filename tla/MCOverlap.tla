----------------------------- MODULE MCOverlap ------------------------------
(* Requests that overlap: on stored credentials, on a cached decision and  *)
(* on the folders of one owner.  The three share no state, so one run      *)
(* checks them side by side: a behaviour is one of them, as focus says.    *)
EXTENDS Credentials, PermissionCache, ConcurrentTree, TLC

CONSTANTS r1, r2, p1, p2

VARIABLE focus

BothInOne == r1 :> p1 @@ r2 :> p1

allVars == <<focus, credVars, cacheVars, vars>>

(* A component that is not looked at keeps one of its initial states.      *)
At(component) == focus = component /\ UNCHANGED focus

OverlapInit ==
    /\ focus \in {"credentials", "cache", "tree"}
    /\ CredInit
    /\ CacheInit /\ (focus # "cache" => granted)
    /\ Init /\ (focus # "tree" => DOMAIN nodes = {Root})

OverlapNext ==
    \/ At("credentials") /\ CredNext /\ UNCHANGED <<cacheVars, vars>>
    \/ At("cache") /\ CacheNext /\ UNCHANGED <<credVars, vars>>
    \/ At("tree") /\ Next /\ UNCHANGED <<credVars, cacheVars>>

OverlapSpec ==
    /\ OverlapInit /\ [][OverlapNext]_allVars
    /\ CredFairness /\ CacheFairness /\ Fairness
=============================================================================
