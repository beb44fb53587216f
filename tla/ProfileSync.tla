----------------------------- MODULE ProfileSync -----------------------------
(***************************************************************************)
(* What "the network follows the store" promises.  Of the entries that are  *)
(* Guardium's, the network serves at every moment what the store has said   *)
(* at one moment: a pass reads everything at once, or gives up, and         *)
(* publishes everything at once.  However many passes overlap, and whatever *)
(* fails, what two of them have read is never mixed; and nothing comes to   *)
(* be served that the store has not asked for, but the default of the       *)
(* catch-all, which each start puts where there is none.                    *)
(***************************************************************************)
CONSTANTS
    Keys, Profiles, None,
    CatchAll, DefaultProfile,   \* the key that is seeded, and what with
    Ticks                       \* the passes that may be under way

VARIABLES
    wanted,     \* the profile the store asks for at each key, or None
    served,     \* the profile the network serves at each key, or None
    held        \* what each pass has read and not yet published, if anything

vars == <<wanted, served, held>>

Sayings == [Keys -> Profiles \cup {None}]

Init ==
    /\ wanted \in Sayings /\ served \in Sayings
    /\ held = [t \in Ticks |-> {}]

\* People, the clock and moving devices decide what the store says.
Decide ==
    /\ wanted' \in Sayings
    /\ UNCHANGED <<served, held>>

\* A pass reads the store, which it may have brought up to date just before.
Read(t) ==
    /\ held[t] = {}
    /\ wanted' \in Sayings
    /\ held' = [held EXCEPT ![t] = {wanted'}]
    /\ UNCHANGED served

Publish(t) ==
    /\ served' \in held[t]
    /\ held' = [held EXCEPT ![t] = {}]
    /\ UNCHANGED wanted

GiveUp(t) ==
    /\ held' = [held EXCEPT ![t] = {}]
    /\ UNCHANGED <<wanted, served>>

\* The service starts, and gives the catch-all a profile if it has none.
Seed ==
    /\ served[CatchAll] = None
    /\ served' = [served EXCEPT ![CatchAll] = DefaultProfile]
    /\ UNCHANGED <<wanted, held>>

\* The service dies, and with it what its passes have read.
Restart ==
    /\ held' = [t \in Ticks |-> {}]
    /\ UNCHANGED <<wanted, served>>

Next ==
    \/ Decide \/ Seed \/ Restart
    \/ \E t \in Ticks : Read(t) \/ Publish(t) \/ GiveUp(t)

Spec == Init /\ [][Next]_vars
=============================================================================
