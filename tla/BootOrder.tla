------------------------------ MODULE BootOrder ------------------------------
(***************************************************************************)
(* What the executor promises of a boot without operator intervention,     *)
(* with no queue, no counter and no process: each service waits until all  *)
(* its dependencies have news; it is then started, or skipped if a hard    *)
(* dependency's news was bad; a started service reports its own news once. *)
(***************************************************************************)
EXTENDS ServiceGraph

VARIABLES
    st,       \* [Services -> {"waiting", "started", "skipped"}]
    verdict   \* [Services -> {"none", "good", "bad"}]: first news of each

vars == <<st, verdict>>

Settled(s) == \A d \in Deps(s) : verdict[d] # "none"
Barred(s)  == \E d \in Needs[s] \cap Services : verdict[d] = "bad"

Init ==
    /\ st = [s \in Services |-> "waiting"]
    /\ verdict = [s \in Services |-> "none"]

Start(s) ==
    /\ st[s] = "waiting" /\ Settled(s) /\ ~Barred(s)
    /\ st' = [st EXCEPT ![s] = "started"]
    /\ UNCHANGED verdict

Skip(s) ==
    /\ st[s] = "waiting" /\ Settled(s) /\ Barred(s)
    /\ st' = [st EXCEPT ![s] = "skipped"]
    /\ verdict' = [verdict EXCEPT ![s] = "bad"]

Report(s, news) ==
    /\ st[s] = "started" /\ verdict[s] = "none"
    /\ verdict' = [verdict EXCEPT ![s] = news]
    /\ UNCHANGED st

Next ==
    \E s \in Services :
        Start(s) \/ Skip(s) \/ \E news \in {"good", "bad"} : Report(s, news)

Spec == Init /\ [][Next]_vars
=============================================================================
