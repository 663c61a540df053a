---------------------------- MODULE KeyLifecycle ----------------------------
(***************************************************************************)
(* What the tokener commands promise about an agent key, without commands, *)
(* processes or requests.  A key is issued once, by one host; it becomes   *)
(* the binding of that host at most once, and never after the CLI revoked  *)
(* it; the CLI revokes only a key that has been a binding.  AgentKeys      *)
(* implements this.                                                        *)
(***************************************************************************)
CONSTANTS Keys, LegacyKeys, Hosts, DefaultHost, None, Damaged

VARIABLES
    status,   \* what the console knows of each key
    issuer,   \* the host that issued it
    binding,  \* the binding file of each host
    used      \* the keys that have been a binding

lifecycleVars == <<status, issuer, binding, used>>

\* At most one key is there at the start: the one in agent-key.json.
Init ==
    /\ \E L \in SUBSET LegacyKeys :
         /\ \A k, l \in L : k = l
         /\ status = [k \in Keys |-> IF k \in L THEN "active" ELSE "unused"]
         /\ issuer = [k \in Keys |-> IF k \in L THEN DefaultHost ELSE None]
         /\ used = L
    /\ binding = [h \in Hosts |-> None]

Issue(k, h) ==
    /\ status[k] = "unused"
    /\ status' = [status EXCEPT ![k] = "active"]
    /\ issuer' = [issuer EXCEPT ![k] = h]
    /\ UNCHANGED <<binding, used>>

Bind(k, h) ==
    /\ status[k] \in {"active", "withdrawn"}
    /\ issuer[k] = h
    /\ k \notin used
    /\ binding' = [binding EXCEPT ![h] = k]
    /\ used' = used \cup {k}
    /\ UNCHANGED <<status, issuer>>

\* The CLI revokes a key it replaces.
Retire(k) ==
    /\ status[k] = "active"
    /\ k \in used
    /\ status' = [status EXCEPT ![k] = "retired"]
    /\ UNCHANGED <<issuer, binding, used>>

\* The user revokes a key at the console.
Withdraw(k) ==
    /\ status[k] = "active"
    /\ status' = [status EXCEPT ![k] = "withdrawn"]
    /\ UNCHANGED <<issuer, binding, used>>

Damage(h) ==
    /\ binding[h] \in Keys
    /\ binding' = [binding EXCEPT ![h] = Damaged]
    /\ UNCHANGED <<status, issuer, used>>

Next ==
    \/ \E k \in Keys, h \in Hosts : Issue(k, h) \/ Bind(k, h)
    \/ \E k \in Keys : Retire(k) \/ Withdraw(k)
    \/ \E h \in Hosts : Damage(h)

Spec == Init /\ [][Next]_lifecycleVars
=============================================================================
