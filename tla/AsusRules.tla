------------------------------ MODULE AsusRules ------------------------------
(***************************************************************************)
(* What a reconciler pass does to an ASUS router (Reconciler._apply_router, *)
(* AsusAdapter, AsusRouterClient): stage 1, the list of devices without     *)
(* internet (MULTIFILTER_MAC), and stage 2, DNS Director                    *)
(* (dnsfilter_rulelist).                                                    *)
(*                                                                          *)
(* Both lists are shared with whoever uses the router's own pages, and the  *)
(* entries carry no tag: an entry is the dashboard's if its address is in   *)
(* the list of addresses it recorded after its last push.  A pass reads     *)
(* that record, reads the router's list, writes the merged list back whole  *)
(* and records what it wanted, with an await before each step; nothing      *)
(* keeps two passes apart.                                                  *)
(*                                                                          *)
(* An entry's name, schedule and mode are left out, and so is the custom    *)
(* DNS address, which is taken to be configured.                            *)
(***************************************************************************)
EXTENDS Naturals, FiniteSets

CONSTANTS
    Loop, Kicks,    \* the background pass, and those of request handlers
    MACs,           \* devices the router knows
    Managed,        \* those the dashboard has a row for
    Faults,         \* what may go wrong
    MaxEdits, MaxFaults     \* bounds

Stages   == {"kill", "dns"}
Profiles == {"internet-off", "kids", "unrestricted"}
Entry    == {"none", "hand", "pushed"}
Passes   == {Loop} \cup Kicks

ASSUME AsusAssumption ==
    /\ Managed \subseteq MACs
    /\ Faults \subseteq {"fetch", "write", "lostAnswer", "crash"}
    /\ MaxEdits \in Nat /\ MaxFaults \in Nat

VARIABLES
    profile,    \* the profile in force for each device
    enabled,    \* setting router.asus.enabled
    director,   \* setting router.asus.dns_director_enabled
    managed,    \* settings managed_macs and managed_dns_macs
    list,       \* the router's two lists
    on,         \* the router's switches for them
    hand,       \* the entries the user has put on the router
    job,        \* what each pass holds
    unsure,     \* stages with a push that may not have been recorded
    exposed,    \* the addresses of user's rules that a pass may undo
    edits, faults

router  == <<list, on>>
choices == <<profile, enabled, director, hand, edits>>
people  == <<choices, exposed>>
vars    == <<people, managed, router, job, unsure, faults>>

NoEntries == [m \in MACs |-> "none"]
NoJob     == [step |-> "idle", stage |-> "kill", want |-> [s \in Stages |-> {}],
              prev |-> {}, copy |-> NoEntries]

Steps == {"idle", "load", "fetch", "write", "record"}
Job   == [step : Steps, stage : Stages, want : [Stages -> SUBSET Managed],
          prev : SUBSET Managed, copy : [MACs -> Entry]]

\* Stage 1 is for devices without internet, stage 2 for filtered ones.
Desired(s) == {m \in Managed : profile[m] = IF s = "kill" THEN "internet-off" ELSE "kids"}

Pushed(s) == {m \in MACs : list[s][m] = "pushed"}

Init ==
    /\ profile = [m \in Managed |-> "unrestricted"]
    /\ enabled = TRUE /\ director = TRUE
    /\ managed = [s \in Stages |-> {}]
    /\ list = [s \in Stages |-> NoEntries]
    /\ on = [s \in Stages |-> FALSE]
    /\ hand = [s \in Stages |-> {}]
    /\ job = [p \in Passes |-> NoJob]
    /\ unsure = {}
    /\ exposed = [s \in Stages |-> {}]
    /\ edits = 0 /\ faults = 0

-----------------------------------------------------------------------------
(* A pass. *)

\* With the integration switched off there is no adapter, and nothing to do.
Begin(p) ==
    /\ job[p].step = "idle"
    /\ enabled
    /\ job' = [job EXCEPT ![p] = [NoJob EXCEPT !.step = "load",
                                               !.want = [s \in Stages |-> Desired(s)]]]
    /\ UNCHANGED <<people, managed, router, unsure, faults>>

\* Stage 2 comes after stage 1, however that went.
Finish(p) ==
    job' = [job EXCEPT ![p] = IF @.stage = "dns" THEN NoJob
                              ELSE [NoJob EXCEPT !.step = "load", !.stage = "dns",
                                                 !.want = job[p].want]]

At(p, step) == job[p].step = step

Off(p) == job[p].stage = "dns" /\ ~director

\* Wrong: a stage that is off has nothing to do.
SkipWhenOff(p) ==
    /\ At(p, "load") /\ Off(p)
    /\ Finish(p)
    /\ UNCHANGED <<people, managed, router, unsure, faults>>

\* A stage that is off and has left nothing behind.
Skip(p) ==
    /\ At(p, "load") /\ Off(p)
    /\ managed[job[p].stage] = {}
    /\ Finish(p)
    /\ UNCHANGED <<people, managed, router, unsure, faults>>

\* Another pass has read the record of the stage and not yet replaced it.
Overlapped(p) ==
    \E q \in Passes \ {p} : /\ job[q].stage = job[p].stage
                            /\ job[q].step \in {"fetch", "write", "record"}

\* A stage that is off wants nothing: its entries are torn down.
Load(p) ==
    LET j    == job[p]
        want == [j.want EXCEPT ![j.stage] = IF Off(p) THEN {} ELSE @]
    IN  /\ j.step = "load"
        /\ ~(Off(p) /\ managed[j.stage] = {})
        /\ job' = [job EXCEPT ![p] = [j EXCEPT !.step = "fetch", !.want = want,
                                               !.prev = managed[j.stage]]]
        /\ unsure' = IF Overlapped(p) THEN unsure \cup {j.stage} ELSE unsure
        /\ UNCHANGED <<people, managed, router, faults>>

Fetch(p) ==
    /\ At(p, "fetch")
    /\ job' = [job EXCEPT ![p].step = "write", ![p].copy = list[job[p].stage]]
    /\ UNCHANGED <<people, managed, router, unsure, faults>>

\* Wrong: the list is ours.
MergedOursOnly(copy, prev, want) ==
    [m \in MACs |-> IF m \in want THEN "pushed" ELSE "none"]

\* What was not ours stays; ours is what is wanted where nothing stays.
Merged(copy, prev, want) ==
    [m \in MACs |-> IF m \notin prev /\ copy[m] # "none" THEN copy[m]
                    ELSE IF m \in want THEN "pushed" ELSE "none"]

\* The feature is on whenever its list is not empty, whoever switched it off.
WriteTo(p) ==
    LET j   == job[p]
        new == Merged(j.copy, j.prev, j.want[j.stage])
    IN  /\ list' = [list EXCEPT ![j.stage] = new]
        /\ on' = [on EXCEPT ![j.stage] = new # NoEntries]

Write(p) ==
    /\ At(p, "write")
    /\ WriteTo(p)
    /\ job' = [job EXCEPT ![p].step = "record"]
    /\ UNCHANGED <<people, managed, unsure, faults>>

\* Wrong: only the entries that are new are recorded.
RecordedNew(j) == j.want[j.stage] \ j.prev

\* Wrong: all of the list is recorded, the user's rules too.
RecordedAll(j) ==
    {m \in MACs : Merged(j.copy, j.prev, j.want[j.stage])[m] # "none"}

Recorded(j) == j.want[j.stage]

\* What was wanted is recorded, where a rule of the user's was respected too:
\* the next pass will take that rule for one of its own.
Record(p) ==
    LET j == job[p]
    IN  /\ At(p, "record")
        /\ managed' = [managed EXCEPT ![j.stage] = Recorded(j)]
        /\ exposed' = [exposed EXCEPT ![j.stage] = @ \cup (j.want[j.stage] \cap hand[j.stage])]
        /\ Finish(p)
        /\ UNCHANGED <<choices, router, unsure, faults>>

-----------------------------------------------------------------------------
(* Failures. *)

Fault(f) ==
    /\ f \in Faults /\ faults < MaxFaults
    /\ faults' = faults + 1
    /\ UNCHANGED <<people, managed>>

FetchFails(p) ==
    /\ At(p, "fetch") /\ Fault("fetch")
    /\ Finish(p) /\ UNCHANGED <<router, unsure>>

WriteFails(p) ==
    /\ At(p, "write") /\ Fault("write")
    /\ Finish(p) /\ UNCHANGED <<router, unsure>>

\* The router has done it, but the answer never comes.
AnswerLost(p) ==
    /\ At(p, "write") /\ Fault("lostAnswer")
    /\ WriteTo(p) /\ Finish(p)
    /\ unsure' = unsure \cup {job[p].stage}

Crash ==
    /\ Fault("crash")
    /\ job' = [p \in Passes |-> NoJob]
    /\ unsure' = unsure \cup {s \in Stages : \E p \in Passes : At(p, "record")
                                                            /\ job[p].stage = s}
    /\ UNCHANGED router

-----------------------------------------------------------------------------
(* Users, in the dashboard and on the router's own pages. *)

Edit ==
    /\ edits < MaxEdits
    /\ edits' = edits + 1
    /\ UNCHANGED <<managed, job, unsure, faults>>

SetProfile(m, q) ==
    /\ Edit
    /\ profile' = [profile EXCEPT ![m] = q]
    /\ UNCHANGED <<enabled, director, router, hand, exposed>>

ToggleDirector ==
    /\ Edit
    /\ director' = ~director
    /\ UNCHANGED <<profile, enabled, router, hand, exposed>>

ToggleEnabled ==
    /\ Edit
    /\ enabled' = ~enabled
    /\ UNCHANGED <<profile, director, router, hand, exposed>>

\* Some pass holds a copy of the list that it will write back.
Copied(s) == \E p \in Passes : At(p, "write") /\ job[p].stage = s

\* The dashboard takes an entry for m to be its own, or some pass does.
Claimed(s, m) ==
    \/ m \in managed[s]
    \/ \E p \in Passes : /\ job[p].stage = s /\ job[p].step \in {"fetch", "write"}
                         /\ m \in job[p].prev

HandEdit == Edit /\ UNCHANGED <<profile, enabled, director>>

\* At any time and for any device, the dashboard's too.
AddByHand(s, m) ==
    /\ HandEdit
    /\ list[s][m] = "none"
    /\ list' = [list EXCEPT ![s][m] = "hand"]
    /\ on' = [on EXCEPT ![s] = TRUE]
    /\ hand' = [hand EXCEPT ![s] = @ \cup {m}]
    /\ exposed' = [exposed EXCEPT ![s] = IF Copied(s) \/ Claimed(s, m) THEN @ \cup {m}
                                                                     ELSE @ \ {m}]

\* Any entry can be deleted there, the dashboard's too.
RemoveByHand(s, m) ==
    /\ HandEdit
    /\ list[s][m] # "none"
    /\ list' = [list EXCEPT ![s][m] = "none"]
    /\ hand' = [hand EXCEPT ![s] = @ \ {m}]
    /\ exposed' = [exposed EXCEPT ![s] = IF Copied(s) THEN @ \cup {m} ELSE @ \ {m}]
    /\ UNCHANGED on

SwitchByHand(s) ==
    /\ HandEdit
    /\ on' = [on EXCEPT ![s] = ~@]
    /\ UNCHANGED <<list, hand, exposed>>

Users ==
    \/ \E m \in Managed, q \in Profiles : SetProfile(m, q)
    \/ ToggleDirector \/ ToggleEnabled
    \/ \E s \in Stages : \/ SwitchByHand(s)
                         \/ \E m \in MACs : AddByHand(s, m) \/ RemoveByHand(s, m)

Advance(p) ==
    \/ Skip(p) \/ Load(p) \/ Fetch(p) \/ Write(p) \/ Record(p)
    \/ FetchFails(p) \/ WriteFails(p) \/ AnswerLost(p)

Next == Users \/ Crash \/ \E p \in Passes : Begin(p) \/ Advance(p)

\* The loop begins a pass every minute, and the event loop resumes what waits.
Fairness == WF_vars(Begin(Loop)) /\ \A p \in Passes : WF_vars(Advance(p))

Spec == Init /\ [][Next]_vars /\ Fairness

-----------------------------------------------------------------------------
(* Properties. *)

TypeOK ==
    /\ profile \in [Managed -> Profiles]
    /\ enabled \in BOOLEAN /\ director \in BOOLEAN
    /\ managed \in [Stages -> SUBSET Managed]
    /\ list \in [Stages -> [MACs -> Entry]]
    /\ on \in [Stages -> BOOLEAN]
    /\ hand \in [Stages -> SUBSET MACs]
    /\ job \in [Passes -> Job]
    /\ unsure \subseteq Stages
    /\ exposed \in [Stages -> SUBSET MACs]
    /\ edits \in 0..MaxEdits /\ faults \in 0..MaxFaults

(* The user's manual rules pass through untouched: what the user has put on the
   router is there, and what the user has removed is not, after any number of
   passes, failures and crashes, on two conditions.  An edit made while a pass
   holds a copy of the list may be undone by that pass, and a rule is lost when
   the dashboard has its device on record, for having wanted to push it too,
   whether that was before the rule was made or since.                       *)
HandRulesKept ==
    \A s \in Stages : \A m \in MACs \ exposed[s] : list[s][m] = "hand" <=> m \in hand[s]

\* No pass has written the list without having recorded it yet.
UpToDate(s) == \A p \in Passes : At(p, "record") => job[p].stage # s

(* Whatever the dashboard has pushed it remembers, so that it can be taken off
   the router again: an entry of its own that is not recorded would be taken
   for the user's by every later pass.  Only a push that is parted from its
   record can break this: by a crash, by a lost answer or by a second pass.  *)
NothingForgotten ==
    \A s \in Stages \ unsure : UpToDate(s) => Pushed(s) \subseteq managed[s]

Wanted(s) == IF s = "dns" /\ ~director THEN {} ELSE Desired(s)

Mirrored ==
    \A s \in Stages \ unsure : Pushed(s) = Wanted(s) /\ (Wanted(s) # {} => on[s])

(* The router comes to say what the dashboard says: once people stop changing
   things, exactly the devices that should be blocked or filtered have entries,
   in lists that are switched on, and a stage that is off has none.          *)
EventuallyMirrored == <>[](enabled => Mirrored)

-----------------------------------------------------------------------------
(* What the comments say and the code does not do. *)

(* "Respect their rule rather than trample it": a pass that finds a rule of the
   user's on the router leaves it there, though it would push the same device. *)
TheirRulesRespected ==
    [][\A p \in Passes, m \in MACs :
          Write(p) /\ job[p].copy[m] = "hand" => list'[job[p].stage][m] = "hand"]_vars
=============================================================================
