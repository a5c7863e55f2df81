-------------------------------- MODULE Mutex --------------------------------
(***************************************************************************)
(* What a lock promises: nobody or one client holds it.                    *)
(***************************************************************************)
CONSTANTS Client, Nobody

VARIABLE holder

Init == holder = Nobody

Acquire(x) == /\ holder = Nobody
              /\ holder' = x

Release == /\ holder # Nobody
           /\ holder' = Nobody

Next == \/ \E x \in Client : Acquire(x)
        \/ Release

Spec == Init /\ [][Next]_holder
=============================================================================
