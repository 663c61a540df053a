--------------------------- MODULE AtomicReplace ---------------------------
(***************************************************************************)
(* What atomicfile.Write promises: a call replaces the file at its path at *)
(* one instant by exactly the data and the mode it was given, or fails and *)
(* leaves the file alone.  A power loss may bring back a file that a later *)
(* call had replaced, but never one that no call wrote.                    *)
(***************************************************************************)
CONSTANTS Writers, Paths, Contents, Modes, None

VARIABLES
    value,    \* the file at each path
    recent,   \* the files a power loss may leave at each path
    pending,  \* the call each writer is in, until it is decided
    outcome   \* how each writer's last call was decided

replaceVars == <<value, recent, pending, outcome>>

Init ==
    /\ value = [path \in Paths |-> None]
    /\ recent = [path \in Paths |-> {None}]
    /\ pending = [w \in Writers |-> None]
    /\ outcome = [w \in Writers |-> None]

Invoke(w, path, data, mode) ==
    /\ pending[w] = None
    /\ pending' = [pending EXCEPT ![w] = [path |-> path, data |-> data, mode |-> mode]]
    /\ outcome' = [outcome EXCEPT ![w] = None]
    /\ UNCHANGED <<value, recent>>

Commit(w) ==
    LET written == [data |-> pending[w].data, mode |-> pending[w].mode]
    IN  /\ pending[w] # None
        /\ value' = [value EXCEPT ![pending[w].path] = written]
        /\ recent' = [recent EXCEPT ![pending[w].path] = @ \cup {written}]
        /\ pending' = [pending EXCEPT ![w] = None]
        /\ outcome' = [outcome EXCEPT ![w] = "ok"]

Reject(w, reason) ==
    /\ pending[w] # None
    /\ pending' = [pending EXCEPT ![w] = None]
    /\ outcome' = [outcome EXCEPT ![w] = reason]
    /\ UNCHANGED <<value, recent>>

Die(w) ==
    /\ pending' = [pending EXCEPT ![w] = None]
    /\ UNCHANGED <<value, recent, outcome>>

\* The file system makes what it shows at a path permanent.
Settle(path) ==
    /\ recent' = [recent EXCEPT ![path] = {value[path]}]
    /\ UNCHANGED <<value, pending, outcome>>

Lose ==
    /\ \E survivor \in [Paths -> UNION {recent[path] : path \in Paths}] :
         /\ \A path \in Paths : survivor[path] \in recent[path]
         /\ value' = survivor
         /\ recent' = [path \in Paths |-> {survivor[path]}]
    /\ pending' = [w \in Writers |-> None]
    /\ UNCHANGED outcome

Next ==
    \/ \E w \in Writers :
         \/ \E path \in Paths, data \in Contents, mode \in Modes : Invoke(w, path, data, mode)
         \/ Commit(w)
         \/ \E reason \in {"error", "linkError"} : Reject(w, reason)
         \/ Die(w)
    \/ \E path \in Paths : Settle(path)
    \/ Lose

Spec == Init /\ [][Next]_replaceVars
=============================================================================
