---------------------------- MODULE DurableStore ----------------------------
(***************************************************************************)
(* What the anchored pool promises the code above it (Pool::anchor,        *)
(* runtime/src/zfs.rs): one store at a time, which may vanish and come     *)
(* back at any moment, and never without a write that was acknowledged.    *)
(***************************************************************************)
CONSTANT Writes

VARIABLES
    serving,  \* is there a store to read and write?
    store,    \* the writes in it
    acked     \* the writes acknowledged so far

vars == <<serving, store, acked>>

Init == serving = TRUE /\ store = {} /\ acked = {}

\* A write happens, and may yet be lost.
Write(w) ==
    /\ serving
    /\ store' = store \cup {w}
    /\ UNCHANGED <<serving, acked>>

\* Writes the store holds are acknowledged.
Ack(W) ==
    /\ serving /\ W \subseteq store
    /\ acked' = acked \cup W
    /\ UNCHANGED <<serving, store>>

\* The store goes away, and with it all that memory held.
Vanish ==
    /\ serving = TRUE /\ serving' = FALSE
    /\ store' = {}
    /\ UNCHANGED acked

\* It comes back with every acknowledged write, and perhaps others.
Return(W) ==
    /\ serving = FALSE /\ serving' = TRUE
    /\ acked \subseteq W /\ store' = W
    /\ UNCHANGED acked

Next ==
    \/ \E w \in Writes : Write(w)
    \/ \E W \in SUBSET Writes : Ack(W) \/ Return(W)
    \/ Vanish

Spec == Init /\ [][Next]_vars
=============================================================================
