---------------------------- MODULE MCSystemInit ----------------------------
(* An fstab whose lines are not in the order of the paths, one of them for *)
(* a path with a blank as fstab(5) has it, and services that mount a tmpfs *)
(* over one of them and a disk inside that.                                *)
EXTENDS SystemInit

Disk(path) == [entry |-> TRUE, file |-> path, virtual |-> FALSE, noauto |-> FALSE]

MCPaths == {"/home", "/home/data", "/my\\040disk"}
MCBelow == {<<"/home/data", "/home">>}
MCShown == [p \in MCPaths |-> IF p = "/my\\040disk" THEN "/my\\134040disk" ELSE p]
MCFstab == << [Disk("/") EXCEPT !.entry = FALSE], Disk("/"), Disk("/home/data"),
              Disk("/home"), Disk("/my\\040disk"), [Disk("/home") EXCEPT !.noauto = TRUE],
              [Disk("/home/data") EXCEPT !.virtual = TRUE] >>
MCLater == { [path |-> "/home", virtual |-> TRUE],
             [path |-> "/home/data", virtual |-> FALSE] }
=============================================================================
