-------------------------- MODULE CountingSemaphore --------------------------
(* What the kernel's semaphores promise, whatever the count, the wait queue *)
(* and the ready lists look like inside: each has a number of free units,   *)
(* at most a maximum; a thread that finds none waits; a unit that is given  *)
(* back goes to a waiting thread if there is one.                           *)
EXTENDS Integers

CONSTANTS Ids, Users

VARIABLES max,      \* the bound of a semaphore, 0 before it is created
          free,     \* the units that are free
          waiting   \* the threads that wait for a unit

csVars == <<max, free, waiting>>

Init == /\ max = [s \in Ids |-> 0]
        /\ free = [s \in Ids |-> 0]
        /\ waiting = [s \in Ids |-> {}]

Create(s) ==
    /\ max[s] = 0
    /\ max'[s] \in Nat \ {0}
    /\ free'[s] \in 0 .. max'[s]
    /\ max' = [max EXCEPT ![s] = max'[s]]
    /\ free' = [free EXCEPT ![s] = free'[s]]
    /\ UNCHANGED waiting

\* A unit is taken ...
Take(s) == /\ free[s] > 0
           /\ free' = [free EXCEPT ![s] = @ - 1]
           /\ UNCHANGED <<max, waiting>>

\* ... or waited for, which only a thread that does not wait already can do.
Wait(s, u) == /\ max[s] > 0
              /\ free[s] = 0
              /\ \A r \in Ids : u \notin waiting[r]
              /\ waiting' = [waiting EXCEPT ![s] = @ \cup {u}]
              /\ UNCHANGED <<max, free>>

\* A unit is given to a waiting thread ...
HandOver(s, u) == /\ u \in waiting[s]
                  /\ waiting' = [waiting EXCEPT ![s] = @ \ {u}]
                  /\ UNCHANGED <<max, free>>

\* ... or to nobody; more than the maximum are never free.
GiveBack(s) == /\ waiting[s] = {}
               /\ free[s] < max[s]
               /\ free' = [free EXCEPT ![s] = @ + 1]
               /\ UNCHANGED <<max, waiting>>

Next == \E s \in Ids :
            \/ Create(s) \/ Take(s) \/ GiveBack(s)
            \/ \E u \in Users : Wait(s, u) \/ HandOver(s, u)

Spec == Init /\ [][Next]_csVars
=============================================================================
