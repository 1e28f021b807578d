---------------------------- MODULE StateRegister ----------------------------
(* What state storage promises the elements of a device, whatever its layout:  *)
(* one state is kept through losses of power, and a save either takes effect   *)
(* at one instant or not at all.  A loss of power in the middle of a save may  *)
(* lose the kept state, but it never brings back an older one, and never       *)
(* replaces it by bytes that nobody saved: those may turn up only where        *)
(* nothing is kept yet.                                                        *)
CONSTANTS
    States,     \* the states the elements may have
    None,       \* nothing is kept: the elements start from their defaults
    Garbage     \* bytes that are not a saved state

VARIABLES
    kept,       \* the state a restart would load
    saving,     \* the state being saved, or None
    mode        \* "up", "down" (no power) or "failed" (storage gave up)

TypeOK ==
    /\ kept \in States \cup {None, Garbage}
    /\ saving \in States \cup {None}
    /\ mode \in {"up", "down", "failed"}

Init == kept = None /\ saving = None /\ mode = "down"

Start ==
    /\ mode = "up" /\ saving = None
    /\ saving' \in States
    /\ UNCHANGED <<kept, mode>>

\* The instant at which a save takes effect.
Commit ==
    /\ saving # None
    /\ kept' = saving
    /\ UNCHANGED <<saving, mode>>

\* While a save rewrites the directory of the storage there is none.
Lose ==
    /\ saving # None
    /\ kept' = None
    /\ UNCHANGED <<saving, mode>>

\* The first save of all describes the layout before it holds a state.
Expose ==
    /\ saving # None /\ kept = None
    /\ kept' = Garbage
    /\ UNCHANGED <<saving, mode>>

\* A save reported as done has taken effect.
Finish ==
    /\ saving # None /\ kept = saving
    /\ saving' = None
    /\ UNCHANGED <<kept, mode>>

PowerLoss == mode' = "down" /\ saving' = None /\ kept' = kept
GiveUp == mode = "up" /\ mode' = "failed" /\ saving' = None /\ kept' = kept
PowerUp == mode = "down" /\ mode' = "up" /\ UNCHANGED <<kept, saving>>

\* The elements of the device change and with them the size of the state: the
\* storage promises nothing about what it kept for the old ones.
Reconfigure ==
    /\ mode = "down"
    /\ kept' \in States \cup {None, Garbage}
    /\ UNCHANGED <<saving, mode>>

Next ==
    \/ Start \/ Commit \/ Lose \/ Expose \/ Finish
    \/ PowerLoss \/ GiveUp \/ PowerUp \/ Reconfigure

Spec == Init /\ [][Next]_<<kept, saving, mode>>
=============================================================================
