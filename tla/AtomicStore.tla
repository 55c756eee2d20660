---------------------------- MODULE AtomicStore ----------------------------
(***************************************************************************)
(* What the writers of a snapshot expect of its file: one durable value     *)
(* that a save replaces at one moment or not at all, and whose outcome is   *)
(* told truthfully.  A crash may fall before or after that moment.          *)
(***************************************************************************)
CONSTANTS Snapshots, None

VARIABLES
    stored,   \* the value a start of the process would load
    saving,   \* the value of the save under way, or None
    applied,  \* that value has become the stored one
    reported  \* what the last save returned: "ok", "error", or None if none did

StoreInit == stored = None /\ saving = None /\ applied = FALSE /\ reported = None

Begin(v) ==
    /\ saving = None
    /\ saving' = v /\ applied' = FALSE /\ reported' = None
    /\ UNCHANGED stored

Apply ==
    /\ saving # None /\ ~applied
    /\ stored' = saving /\ applied' = TRUE
    /\ UNCHANGED <<saving, reported>>

\* The save is acknowledged exactly when its value is the stored one.
Acknowledge ==
    /\ saving # None /\ applied
    /\ saving' = None /\ applied' = FALSE /\ reported' = "ok"
    /\ UNCHANGED stored

Fail ==
    /\ saving # None /\ ~applied
    /\ saving' = None /\ reported' = "error"
    /\ UNCHANGED <<stored, applied>>

Interrupt ==
    /\ saving' = None /\ applied' = FALSE /\ reported' = None
    /\ UNCHANGED stored

StoreNext == (\E v \in Snapshots : Begin(v)) \/ Apply \/ Acknowledge \/ Fail \/ Interrupt

StoreSpec == StoreInit /\ [][StoreNext]_<<stored, saving, applied, reported>>
============================================================================
