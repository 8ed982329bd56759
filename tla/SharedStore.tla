---------------------------- MODULE SharedStore -----------------------------
(***************************************************************************)
(* What processes get from sharing calibration.json without a transaction:  *)
(* each reads the whole store, changes one repository's entry of what it    *)
(* read, and puts the whole store back in one step.  An update made between *)
(* the two may be lost, but no process ever reads or leaves anything that   *)
(* is not some process's whole store, and a failure of the machine takes    *)
(* the store back at most to what was last known to be kept.                *)
(***************************************************************************)
CONSTANTS
    Processes,
    Repos,
    Offsets,  \* what an entry may hold
    NoView    \* a process that has not read the store

VARIABLES
    store,  \* the entry of each repository
    kept,   \* the store a failure of the machine may take it back to
    view    \* the store each process has read and not yet put back

Stores == [Repos -> Offsets]

Init ==
    /\ store \in Stores
    /\ kept = store
    /\ view = [p \in Processes |-> NoView]

Read(p) ==
    /\ view' = [view EXCEPT ![p] = store]
    /\ UNCHANGED <<store, kept>>

PutBack(p) ==
    /\ view[p] # NoView
    /\ \E r \in Repos, o \in Offsets : store' = [view[p] EXCEPT ![r] = o]
    /\ view' = [view EXCEPT ![p] = NoView]
    /\ UNCHANGED kept

\* A process has nothing to change, fails or dies.
GiveUp(p) ==
    /\ view' = [view EXCEPT ![p] = NoView]
    /\ UNCHANGED <<store, kept>>

Keep ==
    /\ kept' = store
    /\ UNCHANGED <<store, view>>

MachineFails ==
    /\ store' \in {store, kept}
    /\ kept' = store'
    /\ view' = [p \in Processes |-> NoView]

Next ==
    \/ \E p \in Processes : Read(p) \/ PutBack(p) \/ GiveUp(p)
    \/ Keep
    \/ MachineFails

Spec == Init /\ [][Next]_<<store, kept, view>>
=============================================================================
