------------------------------- MODULE Archive -------------------------------
(***************************************************************************)
(* What the data directory promises, with no processes, no staging, no     *)
(* half-removed directories and no crashes in it: a set of numbered        *)
(* snapshots that appear and disappear whole, a current one that is always *)
(* among them once there is one, and a marker that says when the current   *)
(* one was last found to be up to date.                                    *)
(***************************************************************************)
CONSTANTS Names, Content, Nothing

VARIABLES
    held,       \* what each snapshot holds, or Nothing
    current,    \* the name of the current one, or Nothing
    marker      \* when the current one was last confirmed, or Nothing

avars == <<held, current, marker>>

ArchiveInit ==
    /\ held = [s \in Names |-> Nothing]
    /\ current = Nothing
    /\ marker = Nothing

(* A complete snapshot appears under a name nothing else has. *)
Publish(s, c) ==
    /\ held[s] = Nothing
    /\ held' = [held EXCEPT ![s] = c]
    /\ UNCHANGED <<current, marker>>

MakeCurrent(s) ==
    /\ held[s] # Nothing
    /\ current' = s
    /\ UNCHANGED <<held, marker>>

(* Any snapshot but the current one may go. *)
Forget(s) ==
    /\ s # current
    /\ held' = [held EXCEPT ![s] = Nothing]
    /\ UNCHANGED <<current, marker>>

Confirm(t) ==
    /\ current # Nothing
    /\ marker' = t
    /\ UNCHANGED <<held, current>>

ArchiveNext ==
    \E s \in Names :
        \/ \E c \in Content : Publish(s, c)
        \/ MakeCurrent(s)
        \/ Forget(s)
        \/ Confirm(s)

ArchiveSpec == ArchiveInit /\ [][ArchiveNext]_avars
=============================================================================
