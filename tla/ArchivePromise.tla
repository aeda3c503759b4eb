--------------------------- MODULE ArchivePromise ---------------------------
(***************************************************************************)
(* What the reception archive promises its callers, with no queue, no     *)
(* files and no uploads: a reception it took is volatile until it is       *)
(* durable, what is durable stays durable through every crash, and the     *)
(* published objects hold only what is durable and only grow.  Archive.tla *)
(* implements this.                                                        *)
(***************************************************************************)
EXTENDS FiniteSets

CONSTANT Reception

VARIABLES
    volatile,   \* taken, and lost if the process dies now
    durable,    \* survives the process
    published   \* in the bucket

vars == <<volatile, durable, published>>

Init ==
    /\ volatile = {}
    /\ durable = {}
    /\ published = {}

\* The archive takes one reception it never took before.
Accept ==
    /\ \E r \in Reception \ (volatile \union durable) : volatile' = volatile \union {r}
    /\ UNCHANGED <<durable, published>>

\* Some receptions reach the disk.
Persist ==
    /\ \E R \in SUBSET volatile :
          /\ volatile' = volatile \ R
          /\ durable' = durable \union R
    /\ UNCHANGED published

\* An object is written: it may only add to what is published.
Publish ==
    /\ \E R \in SUBSET durable : published' = published \union R
    /\ UNCHANGED <<volatile, durable>>

\* The process dies with what it had not written.
Crash ==
    /\ volatile' = {}
    /\ UNCHANGED <<durable, published>>

Next == Accept \/ Persist \/ Publish \/ Crash

Spec == Init /\ [][Next]_vars
=============================================================================
