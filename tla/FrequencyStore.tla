--------------------------- MODULE FrequencyStore ---------------------------
(***************************************************************************)
(* What the daemon promises of the frequency it learns (RFC 5905, 11.3, as *)
(* time_sync.c and main.c carry it out): a store that outlives the process *)
(* and changes in one step, only from a working frequency in SYNC; every   *)
(* start works with what is stored.                                        *)
(***************************************************************************)
CONSTANTS Ppms, Zero   \* frequencies, 0 PPM

VARIABLES phase,       \* of the process: new, running or ended
          stored,      \* a frequency, none yet, or lost ("empty")
          working      \* state and ppm of the process

vars == <<phase, stored, working>>

Nothing == [state |-> "NSET", ppm |-> Zero]

Init == phase = "new" /\ stored \in {"none"} \cup Ppms /\ working = Nothing

\* A start takes the stored frequency, if there is one.
Load ==
    /\ phase = "new" /\ phase' = "running"
    /\ working' = IF stored \in Ppms THEN [state |-> "FSET", ppm |-> stored] ELSE Nothing
    /\ UNCHANGED stored

\* The exchanges move the working frequency and its state.
Learn ==
    /\ phase = "running"
    /\ working' \in [state : {"NSET", "FSET", "SYNC"}, ppm : Ppms]
    /\ UNCHANGED <<phase, stored>>

End == phase # "ended" /\ phase' = "ended" /\ UNCHANGED <<stored, working>>

\* A process that ends synchronised stores its frequency, or loses what was
\* stored.
Save ==
    /\ phase = "ended"
    /\ working.state = "SYNC"
    /\ stored' \in {working.ppm, "empty"}
    /\ UNCHANGED <<phase, working>>

\* Another process begins.
Begin == phase = "ended" /\ phase' = "new" /\ working' = Nothing /\ UNCHANGED stored

Next == Load \/ Learn \/ End \/ Save \/ Begin

Spec == Init /\ [][Next]_vars
=============================================================================
