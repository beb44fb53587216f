---------------------------- MODULE StickyDevices ----------------------------
(***************************************************************************)
(* What "profiles stick to devices" promises, with no addresses in sight:   *)
(* a device keeps its profile, the rules set for it and the minutes it has  *)
(* used, until a person changes them.  A device that had no profile may     *)
(* pick one up, together with rules and minutes, from the address it is     *)
(* found at.                                                                *)
(***************************************************************************)
EXTENDS Naturals

CONSTANTS MACs, Profiles, Rules, None

VARIABLES
    profile,    \* what each device's user last chose for it, or None
    ruled,      \* the schedules, quotas and pauses set for each device
    minutes     \* the minutes each device has used today

vars == <<profile, ruled, minutes>>

Init ==
    /\ profile = [m \in MACs |-> None]
    /\ ruled = [m \in MACs |-> {}]
    /\ minutes = [m \in MACs |-> 0]

\* f may change at m, and nowhere else.
OnlyAt(f, m) == \A n \in MACs \ {m} : f'[n] = f[n]

Choose(m) ==
    /\ OnlyAt(profile, m)
    /\ profile'[m] \in Profiles \cup {None}
    /\ UNCHANGED <<ruled, minutes>>

Rule(m) ==
    /\ OnlyAt(ruled, m)
    /\ ruled'[m] \in SUBSET Rules
    /\ UNCHANGED <<profile, minutes>>

\* A device is found, used, or found somewhere else: it loses nothing.
Find(m) ==
    /\ OnlyAt(profile, m) /\ OnlyAt(ruled, m) /\ OnlyAt(minutes, m)
    /\ IF profile[m] = None THEN profile'[m] \in Profiles \cup {None}
                            ELSE profile'[m] = profile[m]
    /\ ruled[m] \subseteq ruled'[m]
    /\ minutes[m] <= minutes'[m]

Next == \E m \in MACs : Choose(m) \/ Rule(m) \/ Find(m)

Spec == Init /\ [][Next]_vars
=============================================================================
