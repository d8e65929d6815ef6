---------------------------- MODULE BrowserLease ----------------------------
(***************************************************************************)
(* What the pool promises its callers, without saying how.  A browser is   *)
(* absent, on the shelf, or leased to one client.  There are never more    *)
(* than Capacity browsers; a lease begins with a new browser or with one   *)
(* from the shelf, and only its holder ends it; shutting down destroys     *)
(* what is on the shelf, and nothing is put there afterwards.              *)
(***************************************************************************)
EXTENDS Naturals, FiniteSets

CONSTANTS Clients, Browsers,
          Capacity,       \* how many browsers there may be at once
          Shelf, Absent   \* two values that are not clients

VARIABLES holder, shut
vars == <<holder, shut>>

Present == {b \in Browsers : holder[b] # Absent}

Init ==
    /\ holder = [b \in Browsers |-> Absent]
    /\ shut = FALSE

\* A new browser is created for c.
Issue(c, b) ==
    /\ holder[b] = Absent
    /\ Cardinality(Present) < Capacity
    /\ holder' = [holder EXCEPT ![b] = c]
    /\ UNCHANGED shut

\* c takes b from the shelf.
Lease(c, b) ==
    /\ holder[b] = Shelf
    /\ holder' = [holder EXCEPT ![b] = c]
    /\ UNCHANGED shut

\* c gives b back in working order.
Shelve(c, b) ==
    /\ holder[b] = c
    /\ ~shut
    /\ holder' = [holder EXCEPT ![b] = Shelf]
    /\ UNCHANGED shut

\* b is destroyed by its holder, or found unfit on the shelf.
Destroy(b) ==
    /\ holder[b] # Absent
    /\ holder' = [holder EXCEPT ![b] = Absent]
    /\ UNCHANGED shut

ShutDown ==
    /\ ~shut
    /\ shut' = TRUE
    /\ holder' = [b \in Browsers |-> IF holder[b] = Shelf THEN Absent ELSE holder[b]]

Next ==
    \/ \E c \in Clients, b \in Browsers : Issue(c, b) \/ Lease(c, b) \/ Shelve(c, b)
    \/ \E b \in Browsers : Destroy(b)
    \/ ShutDown

Spec == Init /\ [][Next]_vars

=============================================================================
