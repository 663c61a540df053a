---------------------------- MODULE EngineStore ----------------------------
(***************************************************************************)
(* What the cache of embedded engines promises, without files or system    *)
(* calls: a process asks for its engine and is told that it is there only  *)
(* if it is, at that moment; asking can only ever make an entry good.      *)
(* Entries go bad by what happens outside.  EngineCache implements this.   *)
(***************************************************************************)
EXTENDS Naturals

CONSTANTS Processes, Digests, Engine

VARIABLES
    entry,   \* the state of the cached engine of each digest
    past,    \* the states a power loss may bring back
    status,  \* how far each process is
    faults   \* how many things went wrong

storeVars == <<entry, past, status, faults>>

\* An "unexecutable" entry has the right data without the right mode: the code
\* takes it for good as long as it looks at nothing but the data.
EntryStates == {"missing", "bad", "unexecutable", "good"}

Become(digest, state) ==
    /\ entry' = [entry EXCEPT ![digest] = state]
    /\ past' = [past EXCEPT ![digest] = @ \cup {state}]

Init ==
    /\ entry = [digest \in Digests |-> "missing"]
    /\ past = [digest \in Digests |-> {"missing"}]
    /\ status = [p \in Processes |-> "asking"]
    /\ faults = 0

Ask(p) ==
    /\ status[p] # "asking"
    /\ status' = [status EXCEPT ![p] = "asking"]
    /\ UNCHANGED <<entry, past, faults>>

Provide(p) ==
    /\ status[p] = "asking"
    /\ Become(Engine[p], "good")
    /\ UNCHANGED <<status, faults>>

Find(p) ==
    /\ status[p] = "asking"
    /\ entry[Engine[p]] \in {"good", "unexecutable"}
    /\ status' = [status EXCEPT ![p] = "found"]
    /\ UNCHANGED <<entry, past, faults>>

Fail(p) ==
    /\ status[p] = "asking"
    /\ status' = [status EXCEPT ![p] = "failed"]
    /\ UNCHANGED <<entry, past, faults>>

\* A process is killed, or a system call of it fails.
Break(p) ==
    /\ faults' = faults + 1
    /\ \/ UNCHANGED status
       \/ status[p] = "asking" /\ status' = [status EXCEPT ![p] = "failed"]
    /\ UNCHANGED <<entry, past>>

\* The only way for an entry to get worse, but for a power loss.
Tamper(digest) ==
    /\ faults' = faults + 1
    /\ \E state \in EntryStates : Become(digest, state)
    /\ UNCHANGED status

Settle(digest) ==
    /\ past' = [past EXCEPT ![digest] = {entry[digest]}]
    /\ UNCHANGED <<entry, status, faults>>

Lose ==
    /\ faults' = faults + 1
    /\ entry' \in [Digests -> EntryStates]
    /\ \A digest \in Digests : entry'[digest] \in past[digest]
    /\ past' = [digest \in Digests |-> {entry'[digest]}]
    /\ status' = [p \in Processes |-> "asking"]

Next ==
    \/ \E p \in Processes : Ask(p) \/ Provide(p) \/ Find(p) \/ Fail(p) \/ Break(p)
    \/ \E digest \in Digests : Tamper(digest) \/ Settle(digest)
    \/ Lose

Spec == Init /\ [][Next]_storeVars
=============================================================================
