---------------------------- MODULE VersionedStore ----------------------------
(***************************************************************************)
(* What the state manager promises those who read and change the state:    *)
(* one value with a version, reads of both together, and changes that take *)
(* effect only if their author has seen the very state they change.        *)
(***************************************************************************)
EXTENDS Naturals

CONSTANTS Clients, Values, Unread

VARIABLES value, version,
          seen,      \* client -> what it read last, with its version
          outcome    \* client -> how its last change ended

vars == <<value, version, seen, outcome>>

Init ==
    /\ value \in Values
    /\ version = 0
    /\ seen = [c \in Clients |-> Unread]
    /\ outcome = [c \in Clients |-> "none"]

Read(c) ==
    /\ seen' = [seen EXCEPT ![c] = [version |-> version, value |-> value]]
    /\ UNCHANGED <<value, version, outcome>>

NewValue ==
    /\ value' \in Values
    /\ version' = version + 1

\* The owner of the state puts another in its place.
Replace == NewValue /\ UNCHANGED <<seen, outcome>>

Current(c) == seen[c] # Unread /\ seen[c].version = version

Apply(c) ==
    /\ Current(c)
    /\ NewValue
    /\ outcome' = [outcome EXCEPT ![c] = "applied"]
    /\ UNCHANGED seen

\* Only a change that comes too late is refused ...
Refuse(c) ==
    /\ seen[c] # Unread /\ ~Current(c)
    /\ outcome' = [outcome EXCEPT ![c] = "refused"]
    /\ UNCHANGED <<value, version, seen>>

\* ... and one that thinks better of it changes nothing.
Decline(c) ==
    /\ Current(c)
    /\ outcome' = [outcome EXCEPT ![c] = "declined"]
    /\ UNCHANGED <<value, version, seen>>

Next ==
    \/ Replace
    \/ \E c \in Clients : Read(c) \/ Apply(c) \/ Refuse(c) \/ Decline(c)

Spec == Init /\ [][Next]_vars
=============================================================================
