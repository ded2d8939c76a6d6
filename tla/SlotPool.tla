------------------------------ MODULE SlotPool ------------------------------
(***************************************************************************)
(* What a backend's semaphore promises its callers: nobody owns a slot the *)
(* pool does not have, First clients are served in the order they came and *)
(* before all others, and none of them stands in line while a slot is      *)
(* unowned.  The one thing a pool should not do and this one may: Grow.    *)
(***************************************************************************)
EXTENDS Integers, Sequences, FiniteSets, SequencesExt

CONSTANTS
    Size,     \* number of slots at the start
    Clients,  \* everybody who may own a slot
    First     \* the clients that are served first

VARIABLES
    size,     \* number of slots
    owners,   \* the clients that own a slot
    line      \* the First clients that wait, in order

Init == size = Size /\ owners = {} /\ line = <<>>

\* Take an unowned slot.
Grant(c) ==
    /\ c \notin owners /\ Cardinality(owners) < size
    /\ owners' = owners \cup {c}
    /\ UNCHANGED <<size, line>>

\* Every slot is owned: a First client joins the end of the line.
Join(c) ==
    /\ c \in First \ owners /\ Cardinality(owners) = size
    /\ line' = Append(line, c)
    /\ UNCHANGED <<size, owners>>

\* A First client gives up waiting.
Leave(c) ==
    /\ Contains(line, c)
    /\ line' = RemoveFirst(line, c)
    /\ UNCHANGED <<size, owners>>

\* A slot goes back to the pool: only when nobody stands in line.
Return(c) ==
    /\ c \in owners /\ line = <<>>
    /\ owners' = owners \ {c}
    /\ UNCHANGED <<size, line>>

\* A slot changes hands: to the head of the line if there is one.
PassToFirst(c) ==
    /\ c \in owners /\ line # <<>>
    /\ owners' = (owners \ {c}) \cup {Head(line)}
    /\ line' = Tail(line)
    /\ UNCHANGED size

PassToOther(c, d) ==
    /\ c \in owners /\ line = <<>> /\ d \in Clients \ (First \cup owners)
    /\ owners' = (owners \ {c}) \cup {d}
    /\ UNCHANGED <<size, line>>

\* One more slot than before, unowned or given to a client that is not First.
Grow ==
    /\ line = <<>> /\ size' = size + 1
    /\ owners' \in {owners} \cup {owners \cup {d} : d \in Clients \ (First \cup owners)}
    /\ UNCHANGED line

Next == Grow \/ \E c \in Clients :
    \/ Grant(c) \/ Join(c) \/ Leave(c) \/ Return(c) \/ PassToFirst(c)
    \/ \E d \in Clients : PassToOther(c, d)

Spec == Init /\ [][Next]_<<size, owners, line>>
=============================================================================
