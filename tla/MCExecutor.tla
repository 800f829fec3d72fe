----------------------------- MODULE MCExecutor -----------------------------
(* Constants of the model-checked instances of Executor.                   *)
EXTENDS Executor, TLC

File(policy, user) == [parses |-> TRUE, restart |-> policy, user |-> user]

\* Boot: app needs db and comes after net; gui needs app and a name nobody
\* defines. db and app are daemons with a readiness file.
BootServices == {"db", "net", "app", "gui"}
BootAfter == [s \in BootServices |-> IF s = "app" THEN {"net"} ELSE {}]
BootNeeds == [s \in BootServices |-> CASE s = "app" -> {"db"}
                                       [] s = "gui" -> {"app", "ghost"}
                                       [] OTHER -> {}]
BootToml == [s \in BootServices |-> CASE s = "db" -> File("on-failure", "known")
                                      [] s = "app" -> File("always", "known")
                                      [] OTHER -> File("never", "%U")]

\* The same without gui, for the liveness runs (no symmetry there).
LiveServices == {"db", "net", "app"}
LiveAfter == [s \in LiveServices |-> BootAfter[s]]
LiveNeeds == [s \in LiveServices |-> BootNeeds[s]]
LiveToml  == [s \in LiveServices |-> BootToml[s]]

\* Control: srv needs dep, a daemon with a readiness file. The administrator
\* may break either file or bring in one for a name the boot did not load.
CtlServices == {"dep", "srv"}
CtlAfter == [s \in CtlServices |-> {}]
CtlNeeds == [s \in CtlServices |-> IF s = "srv" THEN {"dep"} ELSE {}]
CtlToml == [s \in CtlServices |-> IF s = "dep" THEN File("on-failure", "%U")
                                                ELSE File("never", "known")]
CtlEdits == {<<"dep", File("on-failure", "unknown")>>, <<"new", File("never", "known")>>}

\* Control with a third, independent service that keeps the executor going.
TrioServices == {"dep", "srv", "log"}
TrioAfter == [s \in TrioServices |-> {}]
TrioNeeds == [s \in TrioServices |-> IF s = "srv" THEN {"dep"} ELSE {}]
TrioToml  == [s \in TrioServices |-> IF s = "dep" THEN CtlToml[s] ELSE CtlToml["srv"]]

BadEdits == {<<"dep", File("never", "unknown")>>}

\* One service is enough for two clients to get in each other's way.
SoloServices == {"dep"}
SoloAfter == [s \in SoloServices |-> {}]
SoloNeeds == [s \in SoloServices |-> {}]
SoloToml  == [s \in SoloServices |-> CtlToml[s]]

PidSymmetry == Permutations(Pids)
CtlSymmetry == Permutations(Pids) \cup Permutations(Clients)
=============================================================================
