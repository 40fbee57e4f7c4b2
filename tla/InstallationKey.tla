--------------------------- MODULE InstallationKey ---------------------------
(***************************************************************************)
(* What load_or_create_salt promises an installation: its key is chosen    *)
(* once and never again, and every process that runs holds the chosen key. *)
(* That no process may run at all is allowed: a crash between the creation *)
(* of the salt file and its first write leaves an installation without one.*)
(***************************************************************************)
CONSTANTS Procs, Keys, None

VARIABLES
    chosen,   \* the key of the installation
    key       \* the key each running process holds

vars == <<chosen, key>>

Init ==
    /\ chosen = None
    /\ key = [p \in Procs |-> None]

\* One process draws the key for all of them.
Choose ==
    /\ chosen = None
    /\ chosen' \in Keys
    /\ UNCHANGED key

\* A process comes up.
Hold(p) ==
    /\ chosen # None /\ key[p] = None
    /\ key' = [key EXCEPT ![p] = chosen]
    /\ UNCHANGED chosen

\* A process stops.
Forget(p) ==
    /\ key' = [key EXCEPT ![p] = None]
    /\ UNCHANGED chosen

Next == Choose \/ \E p \in Procs : Hold(p) \/ Forget(p)

Spec == Init /\ [][Next]_vars
=============================================================================
