------------------------------ MODULE UnifiRule ------------------------------
(***************************************************************************)
(* What a reconciler pass does to a UniFi controller (UnifiAdapter,         *)
(* UnifiLegacyApi): one traffic rule named by the dashboard per stage,      *)
(* "kill" for the devices without internet and "doh" against encrypted DNS. *)
(*                                                                          *)
(* The id, the devices and a hash of the rule last pushed are settings.  A  *)
(* pass that finds them unchanged sends nothing.  Otherwise it updates the  *)
(* rule with that id, looks for one by name when it has no id, creates one  *)
(* when there is none, and records the outcome, with an await at each       *)
(* request; nothing keeps two passes apart.                                 *)
(*                                                                          *)
(* A rule is its name and what it blocks.  It is disabled exactly when it   *)
(* blocks no device, so that is left out, and so are the session with the   *)
(* controller, which repeats a request that was refused, and the user's own *)
(* rules, whose names and ids are never the dashboard's.                    *)
(***************************************************************************)
EXTENDS Naturals

CONSTANTS
    Loop, Kicks,    \* the background pass, and those of request handlers
    MACs,           \* the devices
    ApiKey,         \* is there a key for the interface that lists applications?
    Faults,         \* what may go wrong
    MaxRules, MaxKicks, MaxEdits, MaxFaults     \* bounds

Stages   == {"kill", "doh"}
Profiles == {"internet-off", "kids", "unrestricted"}
Passes   == {Loop} \cup Kicks
Ids      == 1..MaxRules
NoId     == 0

ASSUME UnifiAssumption ==
    /\ ApiKey \in BOOLEAN
    /\ Faults \subseteq {"request", "lostAnswer", "crash"}
    /\ MaxRules \in Nat /\ MaxKicks \in Nat /\ MaxEdits \in Nat /\ MaxFaults \in Nat

\* What a rule matches: all traffic, or the encrypted DNS applications in the
\* catalogue of an old or new firmware or in the dashboard's own list.
Catalogues == {"old", "new"}
Apps       == {"internet", "built-in"} \cup Catalogues
NoBody     == [macs |-> {}, apps |-> "none"]
HandBody   == [macs |-> {}, apps |-> "by hand"]
Body       == [macs : SUBSET MACs, apps : Apps] \cup {NoBody, HandBody}

NoRule == [name |-> "none", body |-> NoBody]
Rule   == [name : Stages, body : Body] \cup {NoRule}

Record   == [id : Ids \cup {NoId}, macs : SUBSET MACs, body : Body]
NoRecord == [id |-> NoId, macs |-> {}, body |-> NoBody]

VARIABLES
    profile,    \* the profile in force for each device
    doh,        \* setting router.unifi.doh_block_enabled
    catalogue,  \* the applications the controller lists
    cached,     \* setting router.unifi.doh_app_ids
    saved,      \* settings rule_id, managed_macs and body_hash of each stage
    rules,      \* the controller's rules
    job,        \* what each pass holds
    touched,    \* stages whose rule the user has changed since it was pushed
    unsure,     \* stages whose last push may not be what is on record
    forked,     \* those where one may have created a rule that is never found
    lone,       \* stages whose last pass to enter found no other there
    kicks, edits, faults

people == <<profile, doh, catalogue, edits>>
ghosts == <<unsure, forked, lone>>
limits == <<kicks, faults>>
vars   == <<people, cached, saved, rules, job, touched, ghosts, limits>>

Steps == {"idle", "switch", "apps", "look", "find", "put", "post", "save", "delete", "clear"}
Job   == [step : Steps, stage : Stages, want : SUBSET MACs, protect : SUBSET MACs,
          apps : Apps, id : Ids \cup {NoId}]

\* What the stage wants, and what the next one will.
NoJob == [step |-> "idle", stage |-> "kill", want |-> {}, protect |-> {},
          apps |-> "internet", id |-> NoId]

At(p, step) == job[p].step = step

\* The pass holds a record of the stage that it has read and not yet replaced.
In(p, s) == job[p].stage = s /\ job[p].step \in {"find", "put", "post", "save", "delete", "clear"}

Desired(s) == {m \in MACs : profile[m] = IF s = "kill" THEN "internet-off" ELSE "kids"}

\* The rule a pass wants.
Built(j) == [macs |-> j.want, apps |-> j.apps]

RulesOf(s) == {i \in Ids : rules[i].name = s}

\* An id that nothing refers to any more stands for one that was never used.
Free == {i \in Ids : /\ rules[i] = NoRule
                     /\ \A s \in Stages : saved[s].id # i
                     /\ \A p \in Passes : job[p].id # i}

Init ==
    /\ profile = [m \in MACs |-> "unrestricted"]
    /\ doh = TRUE
    /\ catalogue = "old" /\ cached = "none"
    /\ saved = [s \in Stages |-> NoRecord]
    /\ rules = [i \in Ids |-> NoRule]
    /\ job = [p \in Passes |-> NoJob]
    /\ touched = {} /\ unsure = {} /\ forked = {} /\ lone = {}
    /\ kicks = 0 /\ edits = 0 /\ faults = 0

-----------------------------------------------------------------------------
(* A pass.  A step runs from one await to the next; "switch" and "look" may  *)
(* also follow the step before them at once.                                 *)

Goto(p, step) == job' = [job EXCEPT ![p] = [@ EXCEPT !.step = step]]

Holding(p, step, id) == job' = [job EXCEPT ![p] = [@ EXCEPT !.step = step, !.id = id]]

\* Stage 3 comes after stage 1, however that went; there is no stage 2.
Finish(p) ==
    job' = [job EXCEPT ![p] = IF @.stage = "doh" THEN NoJob
                              ELSE [NoJob EXCEPT !.step = "switch", !.stage = "doh",
                                                 !.want = job[p].protect]]

Begin(p) ==
    /\ At(p, "idle")
    /\ IF p = Loop THEN UNCHANGED kicks ELSE kicks < MaxKicks /\ kicks' = kicks + 1
    /\ job' = [job EXCEPT ![p] = [NoJob EXCEPT !.step = "look",
                                               !.want = Desired("kill"),
                                               !.protect = Desired("doh")]]
    /\ UNCHANGED <<people, cached, saved, rules, touched, ghosts, faults>>

\* Is another pass in the stage that p enters?
Overlap(p) ==
    LET s == job[p].stage
    IN  IF \E q \in Passes \ {p} : In(q, s)
        THEN unsure' = unsure \cup {s} /\ forked' = forked \cup {s} /\ lone' = lone \ {s}
        ELSE lone' = lone \cup {s} /\ UNCHANGED <<unsure, forked>>

\* What one pass alone has pushed and recorded is certain.
Certain(s) ==
    /\ unsure' = IF s \in lone THEN unsure \ {s} ELSE unsure
    /\ UNCHANGED <<lone, forked>>

SwitchOn(p) ==
    /\ At(p, "switch") /\ doh
    /\ Goto(p, "apps")
    /\ UNCHANGED <<people, cached, saved, rules, touched, ghosts, limits>>

Cleared == NoRecord

\* Off, with a rule on record to take down.
SwitchOff(p) ==
    LET id == saved[job[p].stage].id
    IN  /\ At(p, "switch") /\ ~doh
        /\ id # NoId
        /\ Overlap(p)
        /\ Holding(p, "delete", id)
        /\ UNCHANGED <<people, cached, saved, rules, touched, limits>>

\* Off, with nothing on record.
StayOff(p) ==
    LET r == saved[job[p].stage]
    IN  /\ At(p, "switch") /\ ~doh
        /\ r.id = NoId /\ r.macs = {}
        /\ Finish(p)
        /\ UNCHANGED <<people, cached, saved, rules, touched, ghosts, limits>>

\* Off, with devices on record but no rule.
ClearLeftover(p) ==
    LET r == saved[job[p].stage]
    IN  /\ At(p, "switch") /\ ~doh
        /\ r.id = NoId /\ r.macs # {}
        /\ Overlap(p)
        /\ saved' = [saved EXCEPT ![job[p].stage] = Cleared]
        /\ Finish(p)
        /\ UNCHANGED <<people, cached, rules, touched, limits>>

\* Wrong: without a cached list there are none.
OnlyCached == cached

\* The applications when there is no key to ask for them, or no answer.
KnownApps == IF cached = "none" THEN "built-in" ELSE cached

WithApps(p, apps) == job' = [job EXCEPT ![p] = [@ EXCEPT !.step = "look", !.apps = apps]]

Discover(p) ==
    /\ At(p, "apps") /\ ApiKey
    /\ cached' = catalogue
    /\ WithApps(p, catalogue)
    /\ UNCHANGED <<people, saved, rules, touched, ghosts, limits>>

\* Wrong: the hash is not compared.
SameDevices(p) ==
    LET r == saved[job[p].stage]
    IN  r.id # NoId /\ r.macs = job[p].want

\* What the pass wants is what was recorded.
NoChange(p) ==
    LET r == saved[job[p].stage]
    IN  r.id # NoId /\ r.macs = job[p].want /\ r.body = Built(job[p])

Skip(p) ==
    /\ At(p, "look") /\ NoChange(p)
    /\ Finish(p)
    /\ UNCHANGED <<people, cached, saved, rules, touched, ghosts, limits>>

\* Wrong: without an id a rule is created.
NeverByName(id) == IF id = NoId THEN "post" ELSE "put"

FirstStep(id) == IF id = NoId THEN "find" ELSE "put"

Look(p) ==
    LET id == saved[job[p].stage].id
    IN  /\ At(p, "look") /\ ~NoChange(p)
        /\ Overlap(p)
        /\ Holding(p, FirstStep(id), id)
        /\ UNCHANGED <<people, cached, saved, rules, touched, limits>>

\* The rule is found by its name, or there is none.
Find(p) ==
    /\ At(p, "find")
    /\ \/ \E i \in RulesOf(job[p].stage) : Holding(p, "put", i)
       \/ RulesOf(job[p].stage) = {} /\ Holding(p, "post", NoId)
    /\ UNCHANGED <<people, cached, saved, rules, touched, ghosts, limits>>

Pushed(p, i) ==
    LET s == job[p].stage
    IN  /\ rules' = [rules EXCEPT ![i] = [name |-> s, body |-> Built(job[p])]]
        /\ touched' = touched \ {s}

Exists(p) == job[p].id \in Ids /\ rules[job[p].id] # NoRule

Put(p) ==
    /\ At(p, "put") /\ Exists(p)
    /\ Pushed(p, job[p].id)
    /\ Goto(p, "save")
    /\ UNCHANGED <<people, cached, saved, ghosts, limits>>

\* The controller answers 404: somebody has deleted the rule.
PutGone(p) ==
    /\ At(p, "put") /\ ~Exists(p)
    /\ Holding(p, "post", NoId)
    /\ UNCHANGED <<people, cached, saved, rules, touched, ghosts, limits>>

Fresh(i) == i \in Free /\ \A k \in Free : i <= k

Post(p) ==
    /\ At(p, "post")
    /\ \E i \in Ids : Fresh(i) /\ Pushed(p, i) /\ Holding(p, "save", i)
    /\ UNCHANGED <<people, cached, saved, ghosts, limits>>

Recorded(j) == [id |-> j.id, macs |-> j.want, body |-> Built(j)]

Save(p) ==
    /\ At(p, "save")
    /\ saved' = [saved EXCEPT ![job[p].stage] = Recorded(job[p])]
    /\ Certain(job[p].stage)
    /\ Finish(p)
    /\ UNCHANGED <<people, cached, rules, touched, limits>>

Gone(p) ==
    rules' = [i \in Ids |-> IF i = job[p].id THEN NoRule ELSE rules[i]]

\* A rule that is not there any more counts as deleted.
Delete(p) ==
    /\ At(p, "delete")
    /\ Gone(p)
    /\ Goto(p, "clear")
    /\ UNCHANGED <<people, cached, saved, touched, ghosts, limits>>

Clear(p) ==
    /\ At(p, "clear")
    /\ saved' = [saved EXCEPT ![job[p].stage] = Cleared]
    /\ Certain(job[p].stage)
    /\ Finish(p)
    /\ UNCHANGED <<people, cached, rules, touched, limits>>

-----------------------------------------------------------------------------
(* Failures. *)

Fault(f) ==
    /\ f \in Faults /\ faults < MaxFaults
    /\ faults' = faults + 1
    /\ UNCHANGED <<people, kicks>>

\* Without a key for the applications' interface it fails every time.
DiscoverFails(p) ==
    /\ At(p, "apps")
    /\ IF ApiKey THEN Fault("request") ELSE UNCHANGED <<people, limits>>
    /\ WithApps(p, KnownApps)
    /\ UNCHANGED <<cached, saved, rules, touched, ghosts>>

\* Wrong: what failed is recorded all the same.
RecordedAnyway(p) == saved' = [saved EXCEPT ![job[p].stage] = Recorded(job[p])]

NotRecorded(p) == UNCHANGED saved

RequestFails(p) ==
    /\ job[p].step \in {"find", "put", "post", "delete"} /\ Fault("request")
    /\ NotRecorded(p)
    /\ Finish(p)
    /\ UNCHANGED <<cached, rules, touched, ghosts>>

\* The controller has done it, but the answer never comes.
Unanswered(p) ==
    /\ Fault("lostAnswer")
    /\ unsure' = unsure \cup {job[p].stage}
    /\ Finish(p)
    /\ UNCHANGED <<cached, saved, lone>>

PutUnanswered(p) ==
    /\ At(p, "put") /\ Exists(p)
    /\ Pushed(p, job[p].id)
    /\ Unanswered(p)
    /\ UNCHANGED forked

\* The new rule is not looked for as long as there is another id on record.
PostUnanswered(p) ==
    LET s == job[p].stage
    IN  /\ At(p, "post")
        /\ \E i \in Ids : Fresh(i) /\ Pushed(p, i)
        /\ Unanswered(p)
        /\ forked' = IF saved[s].id # NoId THEN forked \cup {s} ELSE forked

DeleteUnanswered(p) ==
    /\ At(p, "delete")
    /\ Gone(p)
    /\ Unanswered(p)
    /\ UNCHANGED <<touched, forked>>

\* The settings are saved one by one.
HalfSaved(p) ==
    LET j == job[p]
        r == IF At(p, "save") THEN Recorded(j) ELSE Cleared
    IN  /\ At(p, "save") \/ At(p, "clear")
        /\ \/ saved' = [saved EXCEPT ![j.stage] = [@ EXCEPT !.id = r.id]]
           \/ saved' = [saved EXCEPT ![j.stage] = [@ EXCEPT !.id = r.id, !.macs = r.macs]]

Crash ==
    /\ Fault("crash")
    /\ UNCHANGED saved \/ \E p \in Passes : HalfSaved(p)
    /\ unsure' = unsure \cup {s \in Stages : \E p \in Passes :
                                  job[p].stage = s /\ (At(p, "save") \/ At(p, "clear"))}
    /\ forked' = forked \cup {s \in Stages : \E p \in Passes :
                                  job[p].stage = s /\ At(p, "save")
                                  /\ saved[s].id \notin {NoId, job[p].id}}
    /\ job' = [p \in Passes |-> NoJob]
    /\ UNCHANGED <<cached, rules, touched, lone>>

-----------------------------------------------------------------------------
(* Users, in the dashboard and on the controller's pages. *)

Edit ==
    /\ edits < MaxEdits
    /\ edits' = edits + 1
    /\ UNCHANGED <<cached, saved, job, ghosts, limits>>

SetProfile(m, q) ==
    /\ Edit
    /\ q # profile[m]
    /\ profile' = [profile EXCEPT ![m] = q]
    /\ UNCHANGED <<doh, catalogue, rules, touched>>

ToggleDoh ==
    /\ Edit
    /\ doh' = ~doh
    /\ UNCHANGED <<profile, catalogue, rules, touched>>

\* New firmware knows other applications.
Upgrade(c) ==
    /\ Edit
    /\ c # catalogue
    /\ catalogue' = c
    /\ UNCHANGED <<profile, doh, rules, touched>>

\* The user edits or deletes a rule of the dashboard's.
ByHand(i, r) ==
    /\ Edit
    /\ rules[i] # NoRule
    /\ rules' = [rules EXCEPT ![i] = r]
    /\ touched' = touched \cup {rules[i].name}
    /\ UNCHANGED <<profile, doh, catalogue>>

DeleteByHand(i) == ByHand(i, NoRule)
EditByHand(i)   == ByHand(i, [name |-> rules[i].name, body |-> HandBody])

Users ==
    \/ \E m \in MACs, q \in Profiles : SetProfile(m, q)
    \/ ToggleDoh
    \/ \E c \in Catalogues : Upgrade(c)
    \/ \E i \in Ids : DeleteByHand(i) \/ EditByHand(i)

Advance(p) ==
    \/ SwitchOn(p) \/ SwitchOff(p) \/ StayOff(p) \/ ClearLeftover(p)
    \/ Discover(p) \/ DiscoverFails(p)
    \/ Skip(p) \/ Look(p) \/ Find(p) \/ Put(p) \/ PutGone(p) \/ Post(p) \/ Save(p)
    \/ Delete(p) \/ Clear(p)
    \/ RequestFails(p) \/ PutUnanswered(p) \/ PostUnanswered(p) \/ DeleteUnanswered(p)

Next == Users \/ Crash \/ \E p \in Passes : Begin(p) \/ Advance(p)

\* The loop begins a pass every minute, and the event loop resumes what waits.
Fairness == WF_vars(Begin(Loop)) /\ \A p \in Passes : WF_vars(Advance(p))

Spec == Init /\ [][Next]_vars /\ Fairness

-----------------------------------------------------------------------------
(* Properties. *)

TypeOK ==
    /\ profile \in [MACs -> Profiles]
    /\ doh \in BOOLEAN
    /\ catalogue \in Catalogues /\ cached \in Catalogues \cup {"none"}
    /\ saved \in [Stages -> Record]
    /\ rules \in [Ids -> Rule]
    /\ job \in [Passes -> Job]
    /\ touched \subseteq Stages /\ unsure \subseteq Stages
    /\ forked \subseteq Stages /\ lone \subseteq Stages
    /\ kicks \in 0..MaxKicks /\ edits \in 0..MaxEdits /\ faults \in 0..MaxFaults

(* "The adapter must find it by managed name and adopt its _id rather than
   creating a duplicate": however often a pass fails, crashes or loses an
   answer, and whatever the user deletes, the controller never has two rules of
   one stage.  Only two passes at once, or a push that is parted from its record
   while an older id is still on record, can create a second one.            *)
AtMostOneRule ==
    \A s \in Stages \ forked : \A i, k \in RulesOf(s) : i = k

Quiet(s) == \A p \in Passes : ~In(p, s)

(* A pass that finds nothing changed sends nothing, so what is on record must be
   what the controller does: unless the user has changed the rule there, or a
   push was parted from its record, the rule on record exists, is the stage's
   and blocks what the record says.                                          *)
RecordIsTrue ==
    \A s \in Stages \ (unsure \cup touched) :
        Quiet(s) /\ saved[s].id # NoId =>
            rules[saved[s].id] = [name |-> s, body |-> saved[s].body]

Wanted(s) ==
    [macs |-> Desired(s),
     apps |-> IF s = "kill" THEN "internet" ELSE KnownApps]

Mirrored(s) ==
    IF s = "doh" /\ ~doh THEN RulesOf(s) = {}
    ELSE s \notin touched => {rules[i].body : i \in RulesOf(s)} = {Wanted(s)}

(* The controller comes to say what the dashboard says: once people stop
   changing things there is one rule for each stage that blocks just what is
   wanted, and none for a stage that is off.  A rule the user has changed is put
   right only when what is wanted changes.                                   *)
EventuallyMirrored ==
    <>[](\A s \in Stages \ (unsure \cup forked) : Mirrored(s))
=============================================================================
