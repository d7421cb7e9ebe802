-------------------------- MODULE AccountRegister --------------------------
(***************************************************************************)
(* What the gateway promises of its account list, whatever it caches: a    *)
(* list that is returned is the list the helper has at that very moment    *)
(* (all effects of account changes included), read with the caller's own   *)
(* authority.  A caller may also be refused or give up.                    *)
(***************************************************************************)
CONSTANTS Readers, Keys, Muts, None

VARIABLES
    applied,  \* the account changes that took effect
    reading,  \* the authority of each caller that waits for the list
    answer    \* the list each caller was given

vars == <<applied, reading, answer>>

Init ==
    /\ applied = {}
    /\ reading = [r \in Readers |-> None]
    /\ answer = [r \in Readers |-> None]

Apply(m) ==
    /\ m \notin applied
    /\ applied' = applied \cup {m}
    /\ UNCHANGED <<reading, answer>>

Ask(r, k) ==
    /\ reading[r] = None
    /\ reading' = [reading EXCEPT ![r] = k]
    /\ answer' = [answer EXCEPT ![r] = None]
    /\ UNCHANGED applied

Return(r) ==
    /\ reading[r] # None
    /\ answer' = [answer EXCEPT ![r] = [value |-> applied, key |-> reading[r]]]
    /\ reading' = [reading EXCEPT ![r] = None]
    /\ UNCHANGED applied

GiveUp(r) ==
    /\ reading[r] # None
    /\ reading' = [reading EXCEPT ![r] = None]
    /\ UNCHANGED <<applied, answer>>

Next ==
    \/ \E m \in Muts : Apply(m)
    \/ \E r \in Readers : Return(r) \/ GiveUp(r) \/ \E k \in Keys : Ask(r, k)

Spec == Init /\ [][Next]_vars
=============================================================================
