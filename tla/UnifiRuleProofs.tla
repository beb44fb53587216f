--------------------------- MODULE UnifiRuleProofs ---------------------------
(* The controller's rules, for any number of devices, passes, edits and faults. *)
EXTENDS UnifiRule, TLAPS

\* What an action of p does to the other passes.
OthersKeep(p) == \A q \in Passes \ {p} : job'[q] = job[q]

LEMMA NoIdIsNoRule == NoId \notin Ids /\ NoId \in Ids \cup {NoId}
  BY UnifiAssumption DEF NoId, Ids, UnifiAssumption

LEMMA NoJobIsJob == NoJob \in Job /\ NoJob.step = "idle" /\ NoJob.id = NoId
  BY NoIdIsNoRule DEF NoJob, Job, Steps, Stages, Apps

LEMMA ConstantTypes ==
    /\ NoBody \in Body /\ HandBody \in Body
    /\ NoRule \in Rule /\ NoRecord \in Record /\ Cleared \in Record /\ Cleared.id = NoId
<1>1. NoBody \in Body /\ HandBody \in Body
  BY DEF Body
<1> QED
  BY <1>1, NoIdIsNoRule DEF NoRule, Rule, NoRecord, Record, Cleared

LEMMA MovedJob ==
    ASSUME TypeOK, NEW p \in Passes, NEW j \in Job, job' = [job EXCEPT ![p] = j]
    PROVE  job' \in [Passes -> Job] /\ job'[p] = j /\ OthersKeep(p)
  BY DEF TypeOK, OthersKeep

LEMMA FinishedJob ==
    ASSUME TypeOK, NEW p \in Passes, Finish(p)
    PROVE  /\ job' \in [Passes -> Job] /\ OthersKeep(p)
           /\ job'[p].step \in {"idle", "switch"} /\ job'[p].id = NoId
<1> DEFINE j == IF job[p].stage = "doh" THEN NoJob
                ELSE [NoJob EXCEPT !.step = "switch", !.stage = "doh", !.want = job[p].protect]
<1>1. job[p] \in Job
  BY DEF TypeOK
<1>2. j \in Job /\ j.step \in {"idle", "switch"} /\ j.id = NoId
  BY <1>1, NoJobIsJob DEF Job, NoJob, Steps, Stages
<1>3. job' = [job EXCEPT ![p] = j]
  BY DEF Finish, TypeOK
<1> HIDE DEF j
<1> QED
  BY <1>2, <1>3, MovedJob

LEMMA BegunJob ==
    ASSUME TypeOK, NEW p \in Passes, Begin(p)
    PROVE  /\ job' \in [Passes -> Job] /\ OthersKeep(p)
           /\ job'[p].step = "look" /\ job'[p].id = NoId
<1> DEFINE j == [NoJob EXCEPT !.step = "look", !.want = Desired("kill"), !.protect = Desired("doh")]
<1>1. Desired("kill") \in SUBSET MACs /\ Desired("doh") \in SUBSET MACs
  BY DEF Desired
<1>2. j \in Job /\ j.step = "look" /\ j.id = NoId
  BY <1>1, NoJobIsJob DEF Job, NoJob, Steps
<1>3. job' = [job EXCEPT ![p] = j]
  BY DEF Begin
<1> HIDE DEF j
<1> QED
  BY <1>2, <1>3, MovedJob

LEMMA WentJob ==
    ASSUME TypeOK, NEW p \in Passes, NEW step \in Steps, Goto(p, step)
    PROVE  /\ job' \in [Passes -> Job] /\ OthersKeep(p)
           /\ job'[p] = [job[p] EXCEPT !.step = step]
<1>1. [job[p] EXCEPT !.step = step] \in Job
  BY DEF TypeOK, Job
<1>2. job' = [job EXCEPT ![p] = [job[p] EXCEPT !.step = step]]
  BY DEF Goto, TypeOK
<1> QED
  BY <1>1, <1>2, MovedJob

LEMMA HoldingJob ==
    ASSUME TypeOK, NEW p \in Passes, NEW step \in Steps, NEW id \in Ids \cup {NoId},
           Holding(p, step, id)
    PROVE  /\ job' \in [Passes -> Job] /\ OthersKeep(p)
           /\ job'[p] = [job[p] EXCEPT !.step = step, !.id = id]
<1>1. [job[p] EXCEPT !.step = step, !.id = id] \in Job
  BY DEF TypeOK, Job
<1>2. job' = [job EXCEPT ![p] = [job[p] EXCEPT !.step = step, !.id = id]]
  BY DEF Holding, TypeOK
<1> QED
  BY <1>1, <1>2, MovedJob

LEMMA WithAppsJob ==
    ASSUME TypeOK, NEW p \in Passes, NEW apps \in Apps, WithApps(p, apps)
    PROVE  /\ job' \in [Passes -> Job] /\ OthersKeep(p)
           /\ job'[p] = [job[p] EXCEPT !.step = "look", !.apps = apps]
<1>1. [job[p] EXCEPT !.step = "look", !.apps = apps] \in Job
  BY DEF TypeOK, Job, Steps
<1>2. job' = [job EXCEPT ![p] = [job[p] EXCEPT !.step = "look", !.apps = apps]]
  BY DEF WithApps, TypeOK
<1> QED
  BY <1>1, <1>2, MovedJob

\* What a pass keeps of its locals as it moves on.
LEMMA MovedFields ==
    ASSUME TypeOK, NEW p \in Passes, NEW step, NEW id, NEW apps
    PROVE  /\ Goto(p, step) =>
                job'[p].step = step /\ job'[p].stage = job[p].stage /\ job'[p].id = job[p].id
                /\ job'[p].want = job[p].want /\ job'[p].apps = job[p].apps
           /\ Holding(p, step, id) =>
                job'[p].step = step /\ job'[p].stage = job[p].stage /\ job'[p].id = id
                /\ job'[p].want = job[p].want /\ job'[p].apps = job[p].apps
           /\ WithApps(p, apps) =>
                job'[p].step = "look" /\ job'[p].stage = job[p].stage /\ job'[p].id = job[p].id
<1>1. job[p] \in Job
  BY DEF TypeOK
<1>2. ASSUME Goto(p, step)
      PROVE  job'[p] = [job[p] EXCEPT !.step = step]
  BY <1>2 DEF Goto, TypeOK
<1>3. ASSUME Holding(p, step, id)
      PROVE  job'[p] = [job[p] EXCEPT !.step = step, !.id = id]
  BY <1>3 DEF Holding, TypeOK
<1>4. ASSUME WithApps(p, apps)
      PROVE  job'[p] = [job[p] EXCEPT !.step = "look", !.apps = apps]
  BY <1>4 DEF WithApps, TypeOK
<1> QED
  BY <1>1, <1>2, <1>3, <1>4 DEF Job

LEMMA AppsKnown == ASSUME TypeOK PROVE catalogue \in Apps /\ KnownApps \in Apps
  BY DEF TypeOK, KnownApps, Apps, Catalogues

LEMMA BuiltTypes ==
    ASSUME TypeOK, NEW p \in Passes
    PROVE  /\ Built(job[p]) \in Body
           /\ Recorded(job[p]) \in Record
           /\ job[p].stage \in Stages
           /\ [name |-> job[p].stage, body |-> Built(job[p])] \in Rule
<1>1. job[p] \in Job
  BY DEF TypeOK
<1>2. Built(job[p]) \in Body
  BY <1>1 DEF Built, Body, Job
<1>3. Recorded(job[p]) \in Record
  BY <1>1, <1>2 DEF Recorded, Record, Job
<1> QED
  BY <1>1, <1>2, <1>3 DEF Job, Rule

LEMMA PushedRules ==
    ASSUME TypeOK, NEW p \in Passes, NEW i \in Ids, Pushed(p, i)
    PROVE  /\ rules' \in [Ids -> Rule]
           /\ rules'[i] = [name |-> job[p].stage, body |-> Built(job[p])]
           /\ \A k \in Ids \ {i} : rules'[k] = rules[k]
           /\ touched' = touched \ {job[p].stage}
  BY BuiltTypes DEF Pushed, TypeOK

LEMMA GoneRules ==
    ASSUME TypeOK, NEW p \in Passes, Gone(p)
    PROVE  /\ rules' \in [Ids -> Rule]
           /\ \A k \in Ids : rules'[k] = IF k = job[p].id THEN NoRule ELSE rules[k]
  BY ConstantTypes DEF Gone, TypeOK

LEMMA OverlapCases ==
    ASSUME NEW p \in Passes, Overlap(p)
    PROVE  \/ /\ \E q \in Passes \ {p} : In(q, job[p].stage)
              /\ unsure' = unsure \cup {job[p].stage}
              /\ forked' = forked \cup {job[p].stage}
              /\ lone' = lone \ {job[p].stage}
           \/ /\ \A q \in Passes \ {p} : ~In(q, job[p].stage)
              /\ lone' = lone \cup {job[p].stage}
              /\ unsure' = unsure /\ forked' = forked
<1>1. CASE \E q \in Passes \ {p} : In(q, job[p].stage)
  BY <1>1 DEF Overlap
<1>2. CASE ~ \E q \in Passes \ {p} : In(q, job[p].stage)
  BY <1>2 DEF Overlap
<1> QED
  BY <1>1, <1>2

LEMMA OverlapGhosts ==
    ASSUME TypeOK, NEW p \in Passes, Overlap(p)
    PROVE  unsure' \subseteq Stages /\ forked' \subseteq Stages /\ lone' \subseteq Stages
<1>1. job[p].stage \in Stages /\ unsure \subseteq Stages /\ forked \subseteq Stages /\ lone \subseteq Stages
  BY BuiltTypes DEF TypeOK
<1> QED
  BY <1>1, OverlapCases

LEMMA FaultCount ==
    ASSUME TypeOK, NEW f, Fault(f)
    PROVE  /\ faults' \in 0..MaxFaults
           /\ UNCHANGED <<people, kicks>>
  BY UnifiAssumption DEF Fault, TypeOK, UnifiAssumption

-----------------------------------------------------------------------------

LEMMA PassKeepsTypes ==
    ASSUME TypeOK, NEW p \in Passes, Begin(p) \/ Advance(p)
    PROVE  TypeOK'
<1>0. job[p] \in Job /\ job[p].stage \in Stages
  BY BuiltTypes DEF TypeOK
<1>1. CASE Begin(p)
  <2>1. kicks' \in 0..MaxKicks
    BY <1>1, UnifiAssumption DEF Begin, TypeOK, UnifiAssumption
  <2> QED
    BY <1>1, <2>1, BegunJob DEF Begin, TypeOK, people, ghosts
<1>2. CASE SwitchOn(p)
  <2>1. Goto(p, "apps") /\ "apps" \in Steps
    BY <1>2 DEF SwitchOn, Steps
  <2> QED
    BY <1>2, <2>1, WentJob DEF SwitchOn, TypeOK, people, ghosts, limits
<1>3. CASE SwitchOff(p)
  <2> DEFINE id == saved[job[p].stage].id
  <2>1. Holding(p, "delete", id) /\ "delete" \in Steps /\ id \in Ids \cup {NoId}
    BY <1>0, <1>3 DEF SwitchOff, Steps, TypeOK, Record
  <2> QED
    BY <1>3, <2>1, HoldingJob, OverlapGhosts DEF SwitchOff, TypeOK, people, limits
<1>4. CASE StayOff(p) \/ Skip(p)
  BY <1>4, FinishedJob DEF StayOff, Skip, TypeOK, people, ghosts, limits
<1>5. CASE ClearLeftover(p)
  <2>1. saved' \in [Stages -> Record]
    BY <1>5, ConstantTypes DEF ClearLeftover, TypeOK
  <2> QED
    BY <1>5, <2>1, FinishedJob, OverlapGhosts DEF ClearLeftover, TypeOK, people, limits
<1>6. CASE Discover(p)
  BY <1>6, WithAppsJob, AppsKnown DEF Discover, TypeOK, people, ghosts, limits
<1>7. CASE DiscoverFails(p)
  <2>1. faults' \in 0..MaxFaults /\ UNCHANGED <<people, kicks>>
    BY <1>7, FaultCount DEF DiscoverFails, TypeOK, limits
  <2> QED
    BY <1>7, <2>1, WithAppsJob, AppsKnown DEF DiscoverFails, TypeOK, people, ghosts
<1>8. CASE Look(p)
  <2> DEFINE id == saved[job[p].stage].id
  <2>1. id \in Ids \cup {NoId} /\ FirstStep(id) \in Steps
    BY <1>0 DEF TypeOK, Record, FirstStep, Steps
  <2>2. Holding(p, FirstStep(id), id) /\ Overlap(p)
    BY <1>8 DEF Look
  <2> HIDE DEF id
  <2> QED
    BY <1>8, <2>1, <2>2, HoldingJob, OverlapGhosts DEF Look, TypeOK, people, limits
<1>9. CASE Find(p)
  <2>1. PICK step \in {"put", "post"}, id \in Ids \cup {NoId} : Holding(p, step, id)
    BY <1>9 DEF Find, RulesOf
  <2> QED
    BY <1>9, <2>1, HoldingJob DEF Find, TypeOK, people, ghosts, limits, Steps
<1>10. CASE Put(p)
  <2>1. Goto(p, "save") /\ "save" \in Steps /\ job[p].id \in Ids /\ Pushed(p, job[p].id)
    BY <1>10 DEF Put, Steps, Exists
  <2> QED
    BY <1>10, <2>1, WentJob, PushedRules DEF Put, TypeOK, people, ghosts, limits
<1>11. CASE PutGone(p)
  <2>1. Holding(p, "post", NoId) /\ "post" \in Steps /\ NoId \in Ids \cup {NoId}
    BY <1>11 DEF PutGone, Steps
  <2> QED
    BY <1>11, <2>1, HoldingJob DEF PutGone, TypeOK, people, ghosts, limits
<1>12. CASE Post(p)
  <2>1. PICK i \in Ids : Pushed(p, i) /\ Holding(p, "save", i)
    BY <1>12 DEF Post
  <2>2. "save" \in Steps /\ i \in Ids \cup {NoId}
    BY DEF Steps
  <2> QED
    BY <1>12, <2>1, <2>2, HoldingJob, PushedRules DEF Post, TypeOK, people, ghosts, limits
<1>13. CASE Save(p)
  <2>1. saved' \in [Stages -> Record]
    BY <1>13, BuiltTypes DEF Save, TypeOK
  <2> QED
    BY <1>13, <2>1, FinishedJob DEF Save, Certain, TypeOK, people, limits
<1>14. CASE Delete(p)
  <2>1. Goto(p, "clear") /\ "clear" \in Steps /\ Gone(p)
    BY <1>14 DEF Delete, Steps
  <2> QED
    BY <1>14, <2>1, WentJob, GoneRules DEF Delete, TypeOK, people, ghosts, limits
<1>15. CASE Clear(p)
  <2>1. saved' \in [Stages -> Record]
    BY <1>15, ConstantTypes DEF Clear, TypeOK
  <2> QED
    BY <1>15, <2>1, FinishedJob DEF Clear, Certain, TypeOK, people, limits
<1>16. CASE RequestFails(p)
  BY <1>16, FinishedJob, FaultCount DEF RequestFails, NotRecorded, TypeOK, people, ghosts
<1>17. CASE PutUnanswered(p)
  <2>1. job[p].id \in Ids /\ Pushed(p, job[p].id) /\ Unanswered(p)
    BY <1>17 DEF PutUnanswered, Exists
  <2> QED
    BY <1>0, <1>17, <2>1, FinishedJob, FaultCount, PushedRules
    DEF PutUnanswered, Unanswered, TypeOK, people
<1>18. CASE PostUnanswered(p)
  <2>1. PICK i \in Ids : Pushed(p, i)
    BY <1>18 DEF PostUnanswered
  <2>2. forked' \subseteq Stages /\ Unanswered(p)
    BY <1>0, <1>18 DEF PostUnanswered, TypeOK
  <2> QED
    BY <1>0, <2>1, <2>2, FinishedJob, FaultCount, PushedRules DEF Unanswered, TypeOK, people
<1>19. CASE DeleteUnanswered(p)
  BY <1>0, <1>19, FinishedJob, FaultCount, GoneRules
  DEF DeleteUnanswered, Unanswered, TypeOK, people
<1> QED
  BY <1>1, <1>2, <1>3, <1>4, <1>5, <1>6, <1>7, <1>8, <1>9, <1>10, <1>11, <1>12, <1>13,
     <1>14, <1>15, <1>16, <1>17, <1>18, <1>19 DEF Advance

LEMMA CrashKeepsTypes == ASSUME TypeOK, Crash PROVE TypeOK'
<1>1. saved' \in [Stages -> Record]
  <2>1. CASE UNCHANGED saved
    BY <2>1 DEF TypeOK
  <2>2. CASE \E p \in Passes : HalfSaved(p)
    <3>1. PICK p \in Passes : HalfSaved(p)
      BY <2>2
    <3> DEFINE r == IF At(p, "save") THEN Recorded(job[p]) ELSE Cleared
               old == saved[job[p].stage]
    <3>2. r \in Record /\ old \in Record
      BY BuiltTypes, ConstantTypes DEF TypeOK
    <3>3. \/ saved' = [saved EXCEPT ![job[p].stage] = [old EXCEPT !.id = r.id]]
          \/ saved' = [saved EXCEPT ![job[p].stage] = [old EXCEPT !.id = r.id, !.macs = r.macs]]
      BY <3>1, BuiltTypes DEF HalfSaved, TypeOK
    <3> HIDE DEF r, old
    <3>4. [old EXCEPT !.id = r.id] \in Record /\ [old EXCEPT !.id = r.id, !.macs = r.macs] \in Record
      BY <3>2 DEF Record
    <3> QED
      BY <3>3, <3>4 DEF TypeOK
  <2> QED
    BY <2>1, <2>2 DEF Crash
<1>2. job' \in [Passes -> Job]
  BY NoJobIsJob DEF Crash
<1>3. unsure' \subseteq Stages /\ forked' \subseteq Stages
  BY DEF Crash, TypeOK
<1>4. faults' \in 0..MaxFaults /\ UNCHANGED <<people, kicks>>
  BY FaultCount DEF Crash
<1> QED
  BY <1>1, <1>2, <1>3, <1>4 DEF Crash, TypeOK, people

LEMMA UsersKeepTypes == ASSUME TypeOK, Users PROVE TypeOK'
<1>0. Edit /\ edits' \in 0..MaxEdits
  BY UnifiAssumption DEF Users, SetProfile, ToggleDoh, Upgrade, DeleteByHand, EditByHand, ByHand,
     Edit, TypeOK, UnifiAssumption
<1>1. ASSUME NEW m \in MACs, NEW q \in Profiles, SetProfile(m, q)
      PROVE  TypeOK'
  BY <1>0, <1>1 DEF SetProfile, Edit, TypeOK, ghosts, limits
<1>2. CASE ToggleDoh
  BY <1>0, <1>2 DEF ToggleDoh, Edit, TypeOK, ghosts, limits
<1>3. ASSUME NEW c \in Catalogues, Upgrade(c)
      PROVE  TypeOK'
  BY <1>0, <1>3 DEF Upgrade, Edit, TypeOK, ghosts, limits
<1>4. ASSUME NEW i \in Ids, NEW r \in Rule, ByHand(i, r)
      PROVE  TypeOK'
  <2>1. rules' \in [Ids -> Rule]
    BY <1>4 DEF ByHand, TypeOK
  <2>2. rules[i].name \in Stages
    <3>1. rules[i] \in Rule /\ rules[i] # NoRule
      BY <1>4 DEF ByHand, TypeOK
    <3> QED
      BY <3>1 DEF Rule
  <2> QED
    BY <1>0, <1>4, <2>1, <2>2 DEF ByHand, Edit, TypeOK, ghosts, limits
<1>5. NoRule \in Rule
  BY ConstantTypes
<1>6. ASSUME NEW i \in Ids, rules[i] # NoRule
      PROVE  [name |-> rules[i].name, body |-> HandBody] \in Rule
  <2>1. rules[i] \in Rule
    BY DEF TypeOK
  <2> QED
    BY <1>6, <2>1, ConstantTypes DEF Rule
<1> QED
  BY <1>1, <1>2, <1>3, <1>4, <1>5, <1>6 DEF Users, DeleteByHand, EditByHand, ByHand

(* Every variable keeps its type; what is pushed and recorded always names the
   applications or all traffic, whatever was or was not discovered.          *)
THEOREM UnifiTypeCorrect == Spec => []TypeOK
<1>1. Init => TypeOK
  BY ConstantTypes, NoJobIsJob, UnifiAssumption
  DEF Init, TypeOK, Profiles, Catalogues, UnifiAssumption
<1>2. TypeOK /\ [Next]_vars => TypeOK'
  <2> SUFFICES ASSUME TypeOK, [Next]_vars PROVE TypeOK'
    OBVIOUS
  <2>1. CASE UNCHANGED vars
    BY <2>1 DEF vars, people, ghosts, limits, TypeOK
  <2> QED
    BY <2>1, PassKeepsTypes, CrashKeepsTypes, UsersKeepTypes DEF Next
<1> QED
  BY <1>1, <1>2, PTL DEF Spec

-----------------------------------------------------------------------------
(* Passes that share a stage. *)

\* Passes that are in one stage together have marked it.
Alone ==
    \A s \in Stages, p, q \in Passes :
        p # q /\ In(p, s) /\ In(q, s) => s \in unsure /\ s \in forked /\ s \notin lone

\* A stage with a pass in it is marked one way or the other.
Marked == \A s \in Stages, p \in Passes : In(p, s) => s \in lone \/ s \in unsure

Shared == Alone /\ Marked

LEMMA AdvancedJob ==
    ASSUME TypeOK, NEW p \in Passes, Begin(p) \/ Advance(p)
    PROVE  OthersKeep(p)
<1>1. CASE Begin(p)
  BY <1>1, BegunJob
<1>2. CASE SwitchOn(p) \/ Put(p) \/ Delete(p)
  BY <1>2, WentJob DEF SwitchOn, Put, Delete, Steps
<1>3. CASE SwitchOff(p) \/ Look(p) \/ Find(p) \/ PutGone(p) \/ Post(p)
  BY <1>3 DEF SwitchOff, Look, Find, PutGone, Post, Holding, OthersKeep, TypeOK
<1>4. CASE Discover(p) \/ DiscoverFails(p)
  BY <1>4 DEF Discover, DiscoverFails, WithApps, OthersKeep, TypeOK
<1>5. CASE StayOff(p) \/ ClearLeftover(p) \/ Skip(p) \/ Save(p) \/ Clear(p) \/ RequestFails(p)
  BY <1>5, FinishedJob DEF StayOff, ClearLeftover, Skip, Save, Clear, RequestFails
<1>6. CASE PutUnanswered(p) \/ PostUnanswered(p) \/ DeleteUnanswered(p)
  BY <1>6, FinishedJob DEF PutUnanswered, PostUnanswered, DeleteUnanswered, Unanswered
<1> QED
  BY <1>1, <1>2, <1>3, <1>4, <1>5, <1>6 DEF Advance

\* Who finishes is in no stage.
LEMMA FinishedIsOut ==
    ASSUME TypeOK, NEW p \in Passes, Finish(p), NEW s
    PROVE  ~In(p, s)'
  BY FinishedJob DEF In

LEMMA GhostCases ==
    ASSUME TypeOK, NEW p \in Passes, Begin(p) \/ Advance(p)
    PROVE  \/ Overlap(p) /\ \A s \in Stages : In(p, s)' => s = job[p].stage
           \/ /\ lone' = lone /\ unsure \subseteq unsure' /\ forked \subseteq forked'
              /\ \A s \in Stages : In(p, s)' => In(p, s)
           \/ Certain(job[p].stage) /\ \A s \in Stages : ~In(p, s)'
<1>1. CASE Begin(p)
  BY <1>1, BegunJob DEF Begin, ghosts, In
<1>2. CASE SwitchOn(p) \/ Put(p) \/ Delete(p)
  <2>1. PICK step : Goto(p, step) /\ step \in {"apps", "save", "clear"}
    BY <1>2 DEF SwitchOn, Put, Delete
  <2>2. job'[p].stage = job[p].stage /\ job'[p].step = step
    BY <2>1, MovedFields
  <2>3. CASE SwitchOn(p)
    <3>1. job'[p].step = "apps"
      BY <2>3, MovedFields DEF SwitchOn
    <3> QED
      BY <2>3, <3>1 DEF SwitchOn, ghosts, In
  <2>4. CASE Put(p) \/ Delete(p)
    BY <2>2, <2>4 DEF Put, Delete, ghosts, In, At
  <2> QED
    BY <1>2, <2>3, <2>4
<1>3. CASE Look(p) \/ SwitchOff(p)
  <2>1. Overlap(p) /\ \E step, id : Holding(p, step, id)
    BY <1>3 DEF Look, SwitchOff
  <2>2. job'[p].stage = job[p].stage
    BY <2>1, MovedFields
  <2> QED
    BY <2>1, <2>2 DEF In
<1>5. CASE Find(p) \/ PutGone(p) \/ Post(p)
  <2>1. \E step, id : Holding(p, step, id)
    BY <1>5 DEF Find, PutGone, Post
  <2>2. job'[p].stage = job[p].stage
    BY <2>1, MovedFields
  <2> QED
    BY <1>5, <2>2 DEF Find, PutGone, Post, In, At, ghosts
<1>7. CASE Discover(p) \/ DiscoverFails(p)
  <2>1. job'[p].step = "look"
    BY <1>7, MovedFields DEF Discover, DiscoverFails
  <2> QED
    BY <1>7, <2>1 DEF Discover, DiscoverFails, In, ghosts
<1>8. CASE StayOff(p) \/ Skip(p) \/ RequestFails(p)
  BY <1>8, FinishedIsOut DEF StayOff, Skip, RequestFails, ghosts
<1>9. CASE ClearLeftover(p)
  BY <1>9, FinishedIsOut DEF ClearLeftover
<1>10. CASE Save(p) \/ Clear(p)
  BY <1>10, FinishedIsOut DEF Save, Clear
<1>11. CASE PutUnanswered(p) \/ PostUnanswered(p) \/ DeleteUnanswered(p)
  <2>1. Unanswered(p) /\ forked \subseteq forked'
    BY <1>11 DEF PutUnanswered, PostUnanswered, DeleteUnanswered
  <2> QED
    BY <2>1, FinishedIsOut DEF Unanswered
<1> QED
  BY <1>1, <1>2, <1>3, <1>5, <1>7, <1>8, <1>9, <1>10, <1>11 DEF Advance

LEMMA PassKeepsShared ==
    ASSUME TypeOK, Shared, NEW p \in Passes, Begin(p) \/ Advance(p)
    PROVE  Shared'
<1>1. \A s \in Stages, q \in Passes \ {p} : In(q, s)' <=> In(q, s)
  BY AdvancedJob DEF OthersKeep, In
<1>2. CASE Overlap(p) /\ \A s \in Stages : In(p, s)' => s = job[p].stage
  <2>1. CASE \E q \in Passes \ {p} : In(q, job[p].stage)
    <3>1. /\ unsure' = unsure \cup {job[p].stage} /\ forked' = forked \cup {job[p].stage}
          /\ lone' = lone \ {job[p].stage}
      BY <1>2, <2>1, OverlapCases
    <3> QED
      BY <1>1, <1>2, <3>1 DEF Shared, Alone, Marked
  <2>2. CASE \A q \in Passes \ {p} : ~In(q, job[p].stage)
    <3>1. lone' = lone \cup {job[p].stage} /\ unsure' = unsure /\ forked' = forked
      BY <1>2, <2>2, OverlapCases
    <3> QED
      BY <1>1, <1>2, <2>2, <3>1 DEF Shared, Alone, Marked
  <2> QED
    BY <2>1, <2>2
<1>3. CASE /\ lone' = lone /\ unsure \subseteq unsure' /\ forked \subseteq forked'
           /\ \A s \in Stages : In(p, s)' => In(p, s)
  BY <1>1, <1>3 DEF Shared, Alone, Marked
<1>4. CASE Certain(job[p].stage) /\ \A s \in Stages : ~In(p, s)'
  BY <1>1, <1>4 DEF Shared, Alone, Marked, Certain
<1> QED
  BY <1>2, <1>3, <1>4, GhostCases

LEMMA OthersKeepShared ==
    ASSUME TypeOK, Shared, Crash \/ Users \/ UNCHANGED vars
    PROVE  Shared'
<1>1. CASE Crash
  <2>1. \A s \in Stages, p \in Passes : ~In(p, s)'
    BY <1>1, NoJobIsJob DEF Crash, In
  <2> QED
    BY <2>1 DEF Shared, Alone, Marked
<1>2. CASE Users \/ UNCHANGED vars
  BY <1>2 DEF Users, SetProfile, ToggleDoh, Upgrade, DeleteByHand, EditByHand, ByHand, Edit,
     vars, ghosts, Shared, Alone, Marked, In
<1> QED
  BY <1>1, <1>2

LEMMA InitShared == Init => Shared
  BY NoJobIsJob DEF Init, Shared, Alone, Marked, In

-----------------------------------------------------------------------------
(* One rule per stage. *)

One(s) == \A i, k \in RulesOf(s) : i = k

\* Between a push and its record.
Unrecorded(p, s) == job[p].stage = s /\ job[p].step \in {"save", "clear"}

\* The stage's only rule is the one on record, if there is one on record.
OnRecord(s) ==
    saved[s].id # NoId /\ (\A p \in Passes : ~Unrecorded(p, s)) => RulesOf(s) \subseteq {saved[s].id}

\* What a pass in the stage knows of its rules.
Knows(p, s) ==
    job[p].stage = s =>
        /\ At(p, "find") => saved[s].id = NoId
        /\ At(p, "put") => RulesOf(s) \subseteq {job[p].id} /\ saved[s].id \in {NoId, job[p].id}
        /\ At(p, "post") => RulesOf(s) = {}
        /\ At(p, "save") => RulesOf(s) \subseteq {job[p].id}
        /\ At(p, "delete") => saved[s].id = job[p].id /\ job[p].id # NoId
        /\ At(p, "clear") => RulesOf(s) = {}

Unique(s) == One(s) /\ OnRecord(s) /\ \A p \in Passes : Knows(p, s)

UniqueInv == \A s \in Stages \ forked : Unique(s)

\* A step that leaves the stage's record alone, creates no rule of it and is
\* not about to record one.
LEMMA UniqueElsewhere ==
    ASSUME NEW s \in Stages, Unique(s), NEW p \in Passes, OthersKeep(p),
           ~Unrecorded(p, s), ~In(p, s)',
           saved'[s] = saved[s], RulesOf(s)' \subseteq RulesOf(s)
    PROVE  Unique(s)'
<1>1. One(s)'
  BY DEF Unique, One
<1>2. OnRecord(s)'
  <2>1. \A q \in Passes : Unrecorded(q, s) => Unrecorded(q, s)'
    BY DEF OthersKeep, Unrecorded
  <2> QED
    BY <2>1 DEF Unique, OnRecord
<1>3. ASSUME NEW q \in Passes
      PROVE  Knows(q, s)'
  <2>1. CASE q = p
    BY <2>1 DEF In, Knows, At
  <2>2. CASE q # p
    <3>1. job'[q] = job[q] /\ Knows(q, s)
      BY <2>2 DEF OthersKeep, Unique
    <3> QED
      BY <3>1 DEF Knows, At
  <2> QED
    BY <2>1, <2>2
<1> QED
  BY <1>1, <1>2, <1>3 DEF Unique

\* A step of the only pass in the stage.
LEMMA UniqueHere ==
    ASSUME NEW s \in Stages, NEW p \in Passes, OthersKeep(p),
           \A q \in Passes \ {p} : ~In(q, s),
           One(s)', OnRecord(s)', Knows(p, s)'
    PROVE  Unique(s)'
<1>1. ASSUME NEW q \in Passes \ {p}
      PROVE  Knows(q, s)'
  BY DEF OthersKeep, In, Knows, At
<1> QED
  BY <1>1 DEF Unique

LEMMA AloneHere ==
    ASSUME Shared, NEW s \in Stages \ forked, NEW p \in Passes, In(p, s)
    PROVE  \A q \in Passes \ {p} : ~In(q, s)
  BY DEF Shared, Alone

LEMMA SameRules == ASSUME UNCHANGED rules PROVE \A s : RulesOf(s)' = RulesOf(s)
  BY DEF RulesOf

LEMMA PushedRulesOf ==
    ASSUME TypeOK, NEW p \in Passes, NEW i \in Ids, Pushed(p, i), NEW s \in Stages
    PROVE  IF s = job[p].stage THEN RulesOf(s)' = RulesOf(s) \cup {i}
                               ELSE RulesOf(s)' \subseteq RulesOf(s)
<1>1. rules'[i] = [name |-> job[p].stage, body |-> Built(job[p])]
  BY PushedRules
<1>2. rules'[i].name = job[p].stage /\ \A k \in Ids \ {i} : rules'[k] = rules[k]
  BY <1>1, PushedRules
<1>3. CASE s = job[p].stage
  BY <1>2, <1>3 DEF RulesOf
<1>4. CASE s # job[p].stage
  BY <1>2, <1>4 DEF RulesOf
<1> QED
  BY <1>3, <1>4

LEMMA GoneRulesOf ==
    ASSUME TypeOK, NEW p \in Passes, Gone(p)
    PROVE  \A s \in Stages : RulesOf(s)' = RulesOf(s) \ {job[p].id}
<1>1. \A k \in Ids : rules'[k] = IF k = job[p].id THEN NoRule ELSE rules[k]
  BY GoneRules
<1>2. NoRule.name \notin Stages
  BY DEF NoRule, Stages
<1> QED
  BY <1>1, <1>2 DEF RulesOf

\* Steps outside the stages, and those that leave one without a push.
LEMMA UniqueAway ==
    ASSUME TypeOK, Shared, UniqueInv, NEW p \in Passes,
           \/ Begin(p) \/ SwitchOn(p) \/ StayOff(p) \/ Discover(p) \/ DiscoverFails(p)
           \/ Skip(p) \/ RequestFails(p)
    PROVE  UniqueInv'
<1>1. OthersKeep(p)
  BY AdvancedJob DEF Advance
<1>2. UNCHANGED <<saved, rules, forked>>
  <2>1. CASE Begin(p) \/ SwitchOn(p) \/ StayOff(p)
    BY <2>1 DEF Begin, SwitchOn, StayOff, ghosts
  <2>2. CASE Discover(p) \/ DiscoverFails(p)
    BY <2>2 DEF Discover, DiscoverFails, ghosts
  <2>3. CASE Skip(p) \/ RequestFails(p)
    BY <2>3 DEF Skip, RequestFails, NotRecorded, ghosts
  <2> QED
    BY <2>1, <2>2, <2>3
<1>3. job[p].step \in {"idle", "switch", "apps", "look", "find", "put", "post", "delete"}
  <2>1. CASE Begin(p) \/ SwitchOn(p) \/ StayOff(p)
    BY <2>1 DEF Begin, SwitchOn, StayOff, At
  <2>2. CASE Discover(p) \/ DiscoverFails(p)
    BY <2>2 DEF Discover, DiscoverFails, At
  <2>3. CASE Skip(p) \/ RequestFails(p)
    BY <2>3 DEF Skip, RequestFails, At
  <2> QED
    BY <2>1, <2>2, <2>3
<1>4. job'[p].step \in {"idle", "switch", "apps", "look"}
  <2>1. CASE Begin(p)
    BY <2>1, BegunJob
  <2>2. CASE SwitchOn(p)
    BY <2>2, MovedFields DEF SwitchOn
  <2>3. CASE Discover(p) \/ DiscoverFails(p)
    BY <2>3, MovedFields DEF Discover, DiscoverFails
  <2>4. CASE StayOff(p) \/ Skip(p) \/ RequestFails(p)
    BY <2>4, FinishedJob DEF StayOff, Skip, RequestFails
  <2> QED
    BY <2>1, <2>2, <2>3, <2>4
<1> SUFFICES ASSUME NEW s \in Stages \ forked PROVE Unique(s)'
  BY <1>2 DEF UniqueInv
<1>5. ~Unrecorded(p, s) /\ ~In(p, s)'
  BY <1>3, <1>4 DEF Unrecorded, In
<1> QED
  BY <1>1, <1>2, <1>5, SameRules, UniqueElsewhere DEF UniqueInv

\* Entering a stage.
LEMMA UniqueEnter ==
    ASSUME TypeOK, Shared, UniqueInv, NEW p \in Passes,
           Look(p) \/ SwitchOff(p) \/ ClearLeftover(p)
    PROVE  UniqueInv'
<1> DEFINE t == job[p].stage
<1>1. OthersKeep(p) /\ Overlap(p) /\ UNCHANGED rules /\ t \in Stages
  BY AdvancedJob, BuiltTypes DEF Advance, Look, SwitchOff, ClearLeftover
<1>2. forked \subseteq forked' /\ (t \notin forked' => \A q \in Passes \ {p} : ~In(q, t))
  BY <1>1, OverlapCases
<1>3. \A s : ~Unrecorded(p, s) /\ ~In(p, s)
  BY DEF Look, SwitchOff, ClearLeftover, At, Unrecorded, In
<1>4. \A s : s # t => ~In(p, s)'
  BY <1>1, GhostCases, MovedFields, FinishedIsOut DEF Look, SwitchOff, ClearLeftover, In
<1>5. \A s : RulesOf(s)' = RulesOf(s)
  BY <1>1, SameRules
<1> SUFFICES ASSUME NEW s \in Stages \ forked' PROVE Unique(s)'
  BY DEF UniqueInv
<1>6. Unique(s)
  BY <1>2 DEF UniqueInv
<1>7. CASE Look(p) /\ s = t
  <2> DEFINE id == saved[t].id
  <2>1. job'[p].step = FirstStep(id) /\ job'[p].id = id /\ job'[p].stage = t /\ UNCHANGED saved
    BY <1>7, MovedFields DEF Look
  <2>2. One(s)' /\ OnRecord(s)'
    <3>1. \A q \in Passes : ~Unrecorded(q, s)
      BY <1>2, <1>3, <1>7 DEF In, Unrecorded
    <3> QED
      BY <1>5, <1>6, <2>1, <3>1 DEF Unique, One, OnRecord
  <2>3. Knows(p, s)'
    <3>1. id # NoId => RulesOf(s) \subseteq {id}
      BY <1>2, <1>3, <1>6, <1>7 DEF In, Unrecorded, Unique, OnRecord
    <3> QED
      BY <1>5, <1>7, <2>1, <3>1 DEF Knows, At, FirstStep
  <2> QED
    BY <1>1, <1>2, <1>7, <2>2, <2>3, UniqueHere
<1>8. CASE SwitchOff(p) /\ s = t
  <2>1. /\ job'[p].step = "delete" /\ job'[p].id = saved[t].id /\ job'[p].stage = t
        /\ UNCHANGED saved /\ saved[t].id # NoId
    BY <1>8, MovedFields DEF SwitchOff
  <2>2. One(s)' /\ OnRecord(s)'
    <3>1. \A q \in Passes : ~Unrecorded(q, s)
      BY <1>2, <1>3, <1>8 DEF In, Unrecorded
    <3> QED
      BY <1>5, <1>6, <2>1, <3>1 DEF Unique, One, OnRecord
  <2>3. Knows(p, s)'
    BY <1>8, <2>1 DEF Knows, At
  <2> QED
    BY <1>1, <1>2, <1>8, <2>2, <2>3, UniqueHere
<1>9. CASE ClearLeftover(p) /\ s = t
  <2>1. saved'[s].id = NoId
    BY <1>1, <1>9, ConstantTypes DEF ClearLeftover, TypeOK
  <2>2. One(s)' /\ OnRecord(s)'
    BY <1>5, <1>6, <2>1 DEF Unique, One, OnRecord
  <2>3. Knows(p, s)'
    BY <1>9, FinishedIsOut DEF ClearLeftover, In, Knows, At
  <2> QED
    BY <1>1, <1>2, <1>9, <2>2, <2>3, UniqueHere
<1>10. CASE ClearLeftover(p) /\ s # t
  <2>1. saved'[s] = saved[s] /\ ~In(p, s)'
    BY <1>10, FinishedIsOut DEF ClearLeftover, TypeOK
  <2> QED
    BY <1>1, <1>3, <1>5, <1>6, <2>1, UniqueElsewhere
<1>11. CASE (Look(p) \/ SwitchOff(p)) /\ s # t
  <2>1. saved' = saved
    BY <1>11 DEF Look, SwitchOff
  <2> QED
    BY <1>1, <1>3, <1>4, <1>5, <1>6, <1>11, <2>1, UniqueElsewhere
<1> QED
  BY <1>7, <1>8, <1>9, <1>10, <1>11

\* The other stage, whatever a pass does in its own.
LEMMA UniqueOtherStage ==
    ASSUME TypeOK, UniqueInv, NEW p \in Passes, Begin(p) \/ Advance(p),
           NEW s \in Stages \ forked', s # job[p].stage, forked \subseteq forked',
           saved'[s] = saved[s], RulesOf(s)' \subseteq RulesOf(s)
    PROVE  Unique(s)'
<1>1. OthersKeep(p) /\ Unique(s)
  BY AdvancedJob DEF UniqueInv
<1>2. ~Unrecorded(p, s) /\ ~In(p, s)
  BY DEF Unrecorded, In
<1>3. ~In(p, s)'
  BY <1>2, GhostCases
<1> QED
  BY <1>1, <1>2, <1>3, UniqueElsewhere

\* What happens in a stage whose only pass is p.
LEMMA UniqueInside ==
    ASSUME TypeOK, Shared, UniqueInv, NEW p \in Passes,
           \/ Find(p) \/ Put(p) \/ PutGone(p) \/ Post(p) \/ Save(p) \/ Delete(p) \/ Clear(p)
           \/ PutUnanswered(p) \/ PostUnanswered(p) \/ DeleteUnanswered(p),
           NEW s \in Stages \ forked', s = job[p].stage, s \notin forked
    PROVE  Unique(s)'
<1>1. OthersKeep(p) /\ Unique(s)
  BY AdvancedJob DEF Advance, UniqueInv
<1>2. In(p, s)
  BY DEF Find, Put, PutGone, Post, Save, Delete, Clear, PutUnanswered, PostUnanswered,
     DeleteUnanswered, At, In
<1>3. \A q \in Passes \ {p} : ~In(q, s)
  BY <1>2, AloneHere
<1>4. Knows(p, s) /\ One(s) /\ OnRecord(s)
  BY <1>1 DEF Unique
<1>5. \A q \in Passes : Unrecorded(q, s) => q = p
  BY <1>3 DEF In, Unrecorded
<1>6. CASE Find(p)
  <2>1. PICK id : /\ \/ id \in RulesOf(s) /\ Holding(p, "put", id)
                     \/ RulesOf(s) = {} /\ Holding(p, "post", id)
        BY <1>6 DEF Find
  <2>2. saved[s].id = NoId /\ saved' = saved /\ rules' = rules
    BY <1>4, <1>6 DEF Find, Knows
  <2>3. /\ job'[p].stage = s /\ job'[p].id = id /\ job'[p].step \in {"put", "post"}
        /\ job'[p].step = "put" => id \in RulesOf(s)
        /\ job'[p].step = "post" => RulesOf(s) = {}
    BY <2>1, MovedFields
  <2>4. RulesOf(s)' = RulesOf(s)
    BY <2>2, SameRules
  <2>5. One(s)' /\ OnRecord(s)' /\ Knows(p, s)'
    BY <1>4, <2>2, <2>3, <2>4 DEF One, OnRecord, Knows, At
  <2> QED
    BY <1>1, <1>3, <2>5, UniqueHere
<1>7. CASE Put(p)
  <2>1. /\ job[p].id \in Ids /\ job'[p].stage = s /\ job'[p].id = job[p].id
        /\ job'[p].step = "save" /\ saved' = saved /\ Pushed(p, job[p].id)
    BY <1>7, MovedFields DEF Put, Exists
  <2>2. RulesOf(s)' \subseteq {job[p].id}
    BY <1>4, <1>7, <2>1, PushedRulesOf DEF Put, Knows
  <2>3. Unrecorded(p, s)'
    BY <2>1 DEF Unrecorded
  <2>4. One(s)' /\ OnRecord(s)' /\ Knows(p, s)'
    BY <2>1, <2>2, <2>3 DEF One, OnRecord, Knows, At
  <2> QED
    BY <1>1, <1>3, <2>4, UniqueHere
<1>8. CASE PutGone(p)
  <2>1. /\ job'[p].stage = s /\ job'[p].step = "post" /\ saved' = saved /\ rules' = rules
    BY <1>8, MovedFields DEF PutGone
  <2>2. RulesOf(s)' = RulesOf(s)
    BY <2>1, SameRules
  <2>3. RulesOf(s) = {}
    <3>1. RulesOf(s) \subseteq {job[p].id} /\ ~Exists(p)
      BY <1>4, <1>8 DEF PutGone, Knows
    <3>2. NoRule.name \notin Stages
      BY DEF NoRule, Stages
    <3> QED
      BY <3>1, <3>2 DEF Exists, RulesOf
  <2>4. One(s)' /\ OnRecord(s)' /\ Knows(p, s)'
    BY <2>1, <2>2, <2>3 DEF One, OnRecord, Knows, At
  <2> QED
    BY <1>1, <1>3, <2>4, UniqueHere
<1>9. CASE Post(p)
  <2>1. PICK i \in Ids : Pushed(p, i) /\ Holding(p, "save", i)
    BY <1>9 DEF Post
  <2>2. job'[p].stage = s /\ job'[p].id = i /\ job'[p].step = "save"
    BY <2>1, MovedFields
  <2>3. RulesOf(s)' \subseteq {i}
    BY <1>4, <1>9, <2>1, PushedRulesOf DEF Post, Knows
  <2>4. Unrecorded(p, s)'
    BY <2>2 DEF Unrecorded
  <2>5. One(s)' /\ OnRecord(s)' /\ Knows(p, s)'
    BY <2>2, <2>3, <2>4 DEF One, OnRecord, Knows, At
  <2> QED
    BY <1>1, <1>3, <2>5, UniqueHere
<1>10. CASE Save(p)
  <2>1. saved'[s].id = job[p].id /\ rules' = rules /\ RulesOf(s) \subseteq {job[p].id}
    BY <1>4, <1>10 DEF Save, Recorded, Knows, TypeOK
  <2>2. RulesOf(s)' = RulesOf(s)
    BY <2>1, SameRules
  <2>3. One(s)' /\ OnRecord(s)'
    BY <2>1, <2>2 DEF One, OnRecord
  <2>4. Knows(p, s)'
    BY <1>10, FinishedIsOut DEF Save, In, Knows, At
  <2> QED
    BY <1>1, <1>3, <2>3, <2>4, UniqueHere
<1>11. CASE Clear(p)
  <2>1. saved'[s].id = NoId /\ rules' = rules /\ RulesOf(s) = {}
    BY <1>4, <1>11, ConstantTypes DEF Clear, Knows, TypeOK
  <2>2. RulesOf(s)' = RulesOf(s)
    BY <2>1, SameRules
  <2>3. One(s)' /\ OnRecord(s)'
    BY <2>1, <2>2 DEF One, OnRecord
  <2>4. Knows(p, s)'
    BY <1>11, FinishedIsOut DEF Clear, In, Knows, At
  <2> QED
    BY <1>1, <1>3, <2>3, <2>4, UniqueHere
<1>12. CASE Delete(p) \/ DeleteUnanswered(p)
  <2>1. At(p, "delete") /\ Gone(p)
    BY <1>12 DEF Delete, DeleteUnanswered
  <2>2. saved[s].id = job[p].id /\ job[p].id # NoId /\ ~Unrecorded(p, s)
    BY <1>4, <2>1 DEF Knows, At, Unrecorded
  <2>3. RulesOf(s) \subseteq {job[p].id}
    BY <1>4, <1>5, <2>2 DEF OnRecord
  <2>4. RulesOf(s)' = {}
    BY <2>1, <2>3, GoneRulesOf
  <2>5. \/ job'[p].step = "clear" /\ job'[p].stage = s
        \/ ~In(p, s)'
    BY <1>12, MovedFields, FinishedIsOut DEF Delete, DeleteUnanswered, Unanswered
  <2>6. One(s)' /\ OnRecord(s)' /\ Knows(p, s)'
    BY <2>4, <2>5 DEF One, OnRecord, Knows, At, In
  <2> QED
    BY <1>1, <1>3, <2>6, UniqueHere
<1>13. CASE PutUnanswered(p)
  <2>1. job[p].id \in Ids /\ saved' = saved /\ Pushed(p, job[p].id) /\ Finish(p)
    BY <1>13 DEF PutUnanswered, Unanswered, Exists
  <2>2. RulesOf(s)' \subseteq {job[p].id} /\ saved[s].id \in {NoId, job[p].id}
    BY <1>4, <1>13, <2>1, PushedRulesOf DEF PutUnanswered, Knows
  <2>3. ~In(p, s)'
    BY <2>1, FinishedIsOut
  <2>4. One(s)' /\ OnRecord(s)' /\ Knows(p, s)'
    BY <2>1, <2>2, <2>3 DEF One, OnRecord, Knows, At, In
  <2> QED
    BY <1>1, <1>3, <2>4, UniqueHere
<1>14. CASE PostUnanswered(p)
  <2>1. PICK i \in Ids : Pushed(p, i)
    BY <1>14 DEF PostUnanswered
  <2>2. saved' = saved /\ Finish(p)
    BY <1>14 DEF PostUnanswered, Unanswered
  <2>3. RulesOf(s)' \subseteq {i}
    BY <1>4, <1>14, <2>1, PushedRulesOf DEF PostUnanswered, Knows
  <2>4. saved[s].id = NoId
    BY <1>14 DEF PostUnanswered
  <2>5. ~In(p, s)'
    BY <2>2, FinishedIsOut
  <2>6. One(s)' /\ OnRecord(s)' /\ Knows(p, s)'
    BY <2>2, <2>3, <2>4, <2>5 DEF One, OnRecord, Knows, At, In
  <2> QED
    BY <1>1, <1>3, <2>6, UniqueHere
<1> QED
  BY <1>6, <1>7, <1>8, <1>9, <1>10, <1>11, <1>12, <1>13, <1>14

LEMMA PassKeepsUnique ==
    ASSUME TypeOK, Shared, UniqueInv, NEW p \in Passes, Begin(p) \/ Advance(p)
    PROVE  UniqueInv'
<1>1. CASE \/ Begin(p) \/ SwitchOn(p) \/ StayOff(p) \/ Discover(p) \/ DiscoverFails(p)
           \/ Skip(p) \/ RequestFails(p)
  BY <1>1, UniqueAway
<1>2. CASE Look(p) \/ SwitchOff(p) \/ ClearLeftover(p)
  BY <1>2, UniqueEnter
<1>3. CASE \/ Find(p) \/ Put(p) \/ PutGone(p) \/ Post(p) \/ Save(p) \/ Delete(p) \/ Clear(p)
           \/ PutUnanswered(p) \/ PostUnanswered(p) \/ DeleteUnanswered(p)
  <2>1. forked \subseteq forked'
    BY <1>3 DEF Find, Put, PutGone, Post, Save, Delete, Clear, PutUnanswered, PostUnanswered,
       DeleteUnanswered, Certain, ghosts
  <2>2. ASSUME NEW s \in Stages, s # job[p].stage
        PROVE  saved'[s] = saved[s] /\ RulesOf(s)' \subseteq RulesOf(s)
    <3>1. CASE Find(p) \/ PutGone(p)
      BY <3>1, SameRules DEF Find, PutGone
    <3>2. CASE Save(p) \/ Clear(p)
      BY <2>2, <3>2, SameRules DEF Save, Clear, TypeOK
    <3>3. CASE Put(p) \/ PutUnanswered(p) \/ Post(p) \/ PostUnanswered(p)
      <4>1. saved' = saved /\ \E i \in Ids : Pushed(p, i)
        BY <3>3 DEF Put, PutUnanswered, Post, PostUnanswered, Unanswered, Exists
      <4> QED
        BY <2>2, <4>1, PushedRulesOf
    <3>4. CASE Delete(p) \/ DeleteUnanswered(p)
      BY <3>4, GoneRulesOf DEF Delete, DeleteUnanswered, Unanswered
    <3> QED
      BY <1>3, <3>1, <3>2, <3>3, <3>4
  <2> SUFFICES ASSUME NEW s \in Stages \ forked' PROVE Unique(s)'
    BY DEF UniqueInv
  <2>3. CASE s = job[p].stage
    BY <1>3, <2>1, <2>3, UniqueInside
  <2>4. CASE s # job[p].stage
    BY <2>1, <2>2, <2>4, UniqueOtherStage
  <2> QED
    BY <2>3, <2>4
<1> QED
  BY <1>1, <1>2, <1>3 DEF Advance

LEMMA CrashKeepsUnique ==
    ASSUME TypeOK, UniqueInv, Crash
    PROVE  UniqueInv'
<1>1. \A p \in Passes : job'[p].step = "idle"
  BY NoJobIsJob DEF Crash
<1>2. rules' = rules /\ forked \subseteq forked'
  BY DEF Crash
<1> SUFFICES ASSUME NEW s \in Stages \ forked' PROVE Unique(s)'
  BY DEF UniqueInv
<1>3. RulesOf(s)' = RulesOf(s) /\ Unique(s)
  BY <1>2, SameRules DEF UniqueInv
<1>4. One(s)' /\ \A p \in Passes : Knows(p, s)'
  BY <1>1, <1>3 DEF Unique, One, Knows, At
<1>5. \/ saved'[s].id = saved[s].id
      \/ \E p \in Passes : Unrecorded(p, s) /\ saved'[s].id = IF At(p, "save") THEN job[p].id ELSE NoId
  <2>1. CASE UNCHANGED saved
    BY <2>1
  <2>2. ASSUME NEW p \in Passes, HalfSaved(p)
        PROVE  <1>5
    <3> DEFINE r == IF At(p, "save") THEN Recorded(job[p]) ELSE Cleared
    <3>1. r.id = IF At(p, "save") THEN job[p].id ELSE NoId
      BY ConstantTypes DEF Recorded
    <3>2. saved[s] \in Record /\ job[p].stage \in Stages
      BY BuiltTypes DEF TypeOK
    <3>3. CASE s # job[p].stage
      BY <2>2, <3>3 DEF HalfSaved, TypeOK
    <3>4. CASE s = job[p].stage
      <4>1. \/ saved'[s] = [saved[s] EXCEPT !.id = r.id]
            \/ saved'[s] = [saved[s] EXCEPT !.id = r.id, !.macs = r.macs]
        BY <2>2, <3>2, <3>4 DEF HalfSaved, TypeOK
      <4> HIDE DEF r
      <4>2. saved'[s].id = r.id
        BY <3>2, <4>1 DEF Record
      <4> QED
        BY <2>2, <3>1, <3>4, <4>2 DEF HalfSaved, Unrecorded, At
    <3> QED
      BY <3>3, <3>4
  <2> QED
    BY <2>1, <2>2 DEF Crash
<1>6. ASSUME NEW p \in Passes, Unrecorded(p, s)
      PROVE  \/ At(p, "save") /\ RulesOf(s) \subseteq {job[p].id} /\ saved[s].id \in {NoId, job[p].id}
             \/ At(p, "clear") /\ RulesOf(s) = {}
  <2>1. At(p, "save") => saved[s].id \in {NoId, job[p].id}
    BY <1>6 DEF Crash, Unrecorded
  <2> QED
    BY <1>3, <1>6, <2>1 DEF Unique, Knows, Unrecorded, At
<1>7. OnRecord(s)'
  <2>1. CASE saved'[s].id = saved[s].id
    <3>1. CASE \E p \in Passes : Unrecorded(p, s)
      BY <1>3, <1>6, <2>1, <3>1 DEF OnRecord
    <3>2. CASE \A p \in Passes : ~Unrecorded(p, s)
      BY <1>3, <2>1, <3>2 DEF Unique, OnRecord
    <3> QED
      BY <3>1, <3>2
  <2>2. ASSUME NEW p \in Passes, Unrecorded(p, s),
               saved'[s].id = IF At(p, "save") THEN job[p].id ELSE NoId
        PROVE  OnRecord(s)'
    BY <1>3, <1>6, <2>2 DEF OnRecord, At
  <2> QED
    BY <1>5, <2>1, <2>2
<1> QED
  BY <1>4, <1>7 DEF Unique

LEMMA UsersKeepUnique ==
    ASSUME TypeOK, UniqueInv, Users \/ UNCHANGED vars
    PROVE  UniqueInv'
<1>1. UNCHANGED <<job, saved, forked>>
  BY DEF Users, SetProfile, ToggleDoh, Upgrade, DeleteByHand, EditByHand, ByHand, Edit, vars, ghosts
<1>2. \A s \in Stages : RulesOf(s)' \subseteq RulesOf(s)
  <2>1. CASE UNCHANGED rules
    BY <2>1, SameRules
  <2>2. ASSUME NEW i \in Ids, DeleteByHand(i) \/ EditByHand(i)
        PROVE  <1>2
    <3>1. PICK r : rules' = [rules EXCEPT ![i] = r] /\ r.name \in {"none", rules[i].name}
      BY <2>2 DEF DeleteByHand, EditByHand, ByHand, NoRule
    <3>2. "none" \notin Stages
      BY DEF Stages
    <3> QED
      BY <3>1, <3>2 DEF RulesOf, TypeOK
  <2> QED
    BY <2>1, <2>2 DEF Users, SetProfile, ToggleDoh, Upgrade, vars
<1> SUFFICES ASSUME NEW s \in Stages \ forked PROVE Unique(s)'
  BY <1>1 DEF UniqueInv
<1>3. Unique(s) /\ RulesOf(s)' \subseteq RulesOf(s)
  BY <1>2 DEF UniqueInv
<1>4. \A p \in Passes : Unrecorded(p, s)' <=> Unrecorded(p, s)
  BY <1>1 DEF Unrecorded
<1> QED
  BY <1>1, <1>3, <1>4 DEF Unique, One, OnRecord, Knows, At

LEMMA InitUnique == Init => UniqueInv
<1>1. Init => \A s \in Stages : RulesOf(s) = {}
  BY DEF Init, RulesOf, NoRule, Stages
<1>2. Init => \A s \in Stages : saved[s].id = NoId
  BY DEF Init, NoRecord
<1>3. Init => \A p \in Passes : job[p].step = "idle"
  BY NoJobIsJob DEF Init
<1> QED
  BY <1>1, <1>2, <1>3 DEF UniqueInv, Unique, One, OnRecord, Knows, At

(* The controller never has two rules of one stage, except where passes have
   overlapped or a rule was created over an id still on record and the answer
   or the process was lost.                                                  *)
THEOREM RulesAreUnique == Spec => []AtMostOneRule
<1> DEFINE Inv == TypeOK /\ Shared /\ UniqueInv
<1>1. Init => TypeOK
  BY ConstantTypes, NoJobIsJob, UnifiAssumption
  DEF Init, TypeOK, Profiles, Catalogues, UnifiAssumption
<1>2. Init => Inv
  BY <1>1, InitShared, InitUnique
<1>3. Inv /\ [Next]_vars => Inv'
  <2> SUFFICES ASSUME Inv, [Next]_vars PROVE Inv'
    OBVIOUS
  <2>1. ASSUME NEW p \in Passes, Begin(p) \/ Advance(p)
        PROVE  Inv'
    BY <2>1, PassKeepsTypes, PassKeepsShared, PassKeepsUnique
  <2>2. CASE Crash
    BY <2>2, CrashKeepsTypes, OthersKeepShared, CrashKeepsUnique
  <2>3. CASE Users
    BY <2>3, UsersKeepTypes, OthersKeepShared, UsersKeepUnique
  <2>4. CASE UNCHANGED vars
    <3>1. TypeOK'
      BY <2>4 DEF vars, people, ghosts, limits, TypeOK
    <3> QED
      BY <2>4, <3>1, OthersKeepShared, UsersKeepUnique
  <2> QED
    BY <2>1, <2>2, <2>3, <2>4 DEF Next
<1>4. Inv => AtMostOneRule
  BY DEF UniqueInv, Unique, One, AtMostOneRule
<1> QED
  BY <1>2, <1>3, <1>4, PTL DEF Spec

-----------------------------------------------------------------------------
(* What is on record is what the controller does. *)

\* A rule that is on record or in a pass's hands is not the other stage's.
OwnSaved(s) == saved[s].id # NoId => rules[saved[s].id].name \in {s, "none"}
OwnHeld(p)  == job[p].id # NoId => rules[job[p].id].name \in {job[p].stage, "none"}

OwnRules == (\A s \in Stages : OwnSaved(s)) /\ (\A p \in Passes : OwnHeld(p))

LEMMA RuleNames ==
    ASSUME TypeOK, NEW i \in Ids
    PROVE  rules[i] = NoRule \/ rules[i].name \in Stages
<1>1. rules[i] \in Rule
  BY DEF TypeOK
<1> QED
  BY <1>1 DEF Rule

LEMMA IdTypes ==
    ASSUME TypeOK
    PROVE  /\ \A s \in Stages : saved[s].id # NoId => saved[s].id \in Ids
           /\ \A p \in Passes : job[p].id # NoId => job[p].id \in Ids
  BY DEF TypeOK, Record, Job

\* A push changes the name of no rule that anybody refers to.
LEMMA PushedNames ==
    ASSUME TypeOK, OwnRules, NEW p \in Passes, NEW i \in Ids, Pushed(p, i),
           i \in Free \/ (i = job[p].id /\ Exists(p))
    PROVE  /\ rules'[i].name = job[p].stage
           /\ \A k \in Ids : k # i => rules'[k] = rules[k]
           /\ \A s \in Stages : saved[s].id = i => s = job[p].stage
           /\ \A q \in Passes : job[q].id = i => job[q].stage = job[p].stage
<1>1. rules'[i] = [name |-> job[p].stage, body |-> Built(job[p])]
  BY PushedRules
<1>2. rules'[i].name = job[p].stage /\ \A k \in Ids : k # i => rules'[k] = rules[k]
  BY <1>1, PushedRules
<1>3. CASE i \in Free
  BY <1>2, <1>3 DEF Free
<1>4. CASE i = job[p].id /\ Exists(p)
  <2>1. rules[i].name \in Stages /\ i # NoId
    BY <1>4, RuleNames, NoIdIsNoRule DEF Exists
  <2>2. "none" \notin Stages
    BY DEF Stages
  <2>3. rules[i].name = job[p].stage
    BY <1>4, <2>1, <2>2 DEF OwnRules, OwnHeld
  <2> QED
    BY <1>2, <2>1, <2>2, <2>3 DEF OwnRules, OwnHeld, OwnSaved
<1> QED
  BY <1>3, <1>4

\* Steps that create no rule.
LEMMA NamesOnlyGo ==
    ASSUME TypeOK, OwnRules, \A i \in Ids : rules'[i].name \in {rules[i].name, "none"},
           \A s \in Stages : saved'[s].id \in {NoId, saved[s].id}
                             \/ \E p \in Passes : saved'[s].id = job[p].id /\ job[p].stage = s,
           \A p \in Passes : \/ job'[p].id = NoId
                             \/ job'[p].stage = job[p].stage /\ job'[p].id = job[p].id
                             \/ /\ job'[p].stage = job[p].stage
                                /\ job'[p].id \in Ids
                                /\ rules[job'[p].id].name \in {job[p].stage, "none"}
    PROVE  OwnRules'
<1>1. ASSUME NEW s \in Stages
      PROVE  OwnSaved(s)'
  <2>1. CASE saved'[s].id \in {NoId, saved[s].id}
    BY <2>1, IdTypes DEF OwnSaved, OwnRules
  <2>2. ASSUME NEW p \in Passes, saved'[s].id = job[p].id, job[p].stage = s
        PROVE  OwnSaved(s)'
    BY <2>2, IdTypes DEF OwnSaved, OwnHeld, OwnRules
  <2> QED
    BY <2>1, <2>2
<1>2. ASSUME NEW p \in Passes
      PROVE  OwnHeld(p)'
  BY IdTypes DEF OwnHeld, OwnRules
<1> QED
  BY <1>1, <1>2 DEF OwnRules

\* What happens to the names and ids in the steps of a pass.
LEMMA PassKeepsOwnRules ==
    ASSUME TypeOK, OwnRules, NEW p \in Passes, Begin(p) \/ Advance(p)
    PROVE  OwnRules'
<1>0. \A q \in Passes \ {p} : job'[q] = job[q]
  BY AdvancedJob DEF OthersKeep
<1> DEFINE KeepsIds == \/ job'[p].id = NoId
                       \/ job'[p].stage = job[p].stage /\ job'[p].id = job[p].id
                       \/ /\ job'[p].stage = job[p].stage
                          /\ job'[p].id \in Ids
                          /\ rules[job'[p].id].name \in {job[p].stage, "none"}
<1>1. CASE \/ Begin(p) \/ SwitchOn(p) \/ StayOff(p) \/ Discover(p) \/ DiscoverFails(p)
           \/ Skip(p) \/ RequestFails(p)
  <2>1. rules' = rules /\ saved' = saved
    <3>1. CASE Begin(p) \/ SwitchOn(p) \/ StayOff(p)
      BY <3>1 DEF Begin, SwitchOn, StayOff
    <3>2. CASE Discover(p) \/ DiscoverFails(p)
      BY <3>2 DEF Discover, DiscoverFails
    <3>3. CASE Skip(p) \/ RequestFails(p)
      BY <3>3 DEF Skip, RequestFails, NotRecorded
    <3> QED
      BY <1>1, <3>1, <3>2, <3>3
  <2>2. KeepsIds
    <3>1. CASE Begin(p)
      BY <3>1, BegunJob
    <3>2. CASE SwitchOn(p) \/ Discover(p) \/ DiscoverFails(p)
      BY <3>2, MovedFields DEF SwitchOn, Discover, DiscoverFails
    <3>3. CASE StayOff(p) \/ Skip(p) \/ RequestFails(p)
      BY <3>3, FinishedJob DEF StayOff, Skip, RequestFails
    <3> QED
      BY <1>1, <3>1, <3>2, <3>3
  <2> QED
    BY <1>0, <2>1, <2>2, NamesOnlyGo
<1>2. CASE Look(p) \/ SwitchOff(p)
  <2>1. rules' = rules /\ saved' = saved
    BY <1>2 DEF Look, SwitchOff
  <2>2. job'[p].stage = job[p].stage /\ job'[p].id = saved[job[p].stage].id
    BY <1>2, MovedFields DEF Look, SwitchOff
  <2>3. KeepsIds
    BY <2>2, BuiltTypes, IdTypes DEF OwnRules, OwnSaved
  <2> QED
    BY <1>0, <2>1, <2>3, NamesOnlyGo
<1>3. CASE Find(p) \/ PutGone(p)
  <2>1. rules' = rules /\ saved' = saved
    BY <1>3 DEF Find, PutGone
  <2>2. KeepsIds
    <3>1. CASE \E i \in RulesOf(job[p].stage) : Holding(p, "put", i)
      BY <3>1, MovedFields DEF RulesOf
    <3>2. CASE Holding(p, "post", NoId)
      BY <3>2, MovedFields
    <3> QED
      BY <1>3, <3>1, <3>2 DEF Find, PutGone
  <2> QED
    BY <1>0, <2>1, <2>2, NamesOnlyGo
<1>4. CASE Save(p) \/ Clear(p) \/ ClearLeftover(p)
  <2>1. rules' = rules /\ job'[p].id = NoId
    BY <1>4, FinishedJob DEF Save, Clear, ClearLeftover
  <2>2. saved' = [saved EXCEPT ![job[p].stage] = Recorded(job[p])]
        \/ saved' = [saved EXCEPT ![job[p].stage] = Cleared]
    BY <1>4 DEF Save, Clear, ClearLeftover
  <2>3. \A s \in Stages : \/ saved'[s].id \in {NoId, saved[s].id}
                          \/ saved'[s].id = job[p].id /\ job[p].stage = s
    BY <2>2, ConstantTypes DEF TypeOK, Recorded
  <2> QED
    BY <1>0, <2>1, <2>3, NamesOnlyGo
<1>5. CASE Delete(p) \/ DeleteUnanswered(p)
  <2>1. Gone(p) /\ saved' = saved
    BY <1>5 DEF Delete, DeleteUnanswered, Unanswered
  <2>2. \A i \in Ids : rules'[i].name \in {rules[i].name, "none"}
    BY <2>1, GoneRules DEF NoRule
  <2>3. KeepsIds
    BY <1>5, MovedFields, FinishedJob DEF Delete, DeleteUnanswered, Unanswered
  <2> QED
    BY <1>0, <2>1, <2>2, <2>3, NamesOnlyGo
<1>6. CASE Put(p) \/ PutUnanswered(p) \/ Post(p) \/ PostUnanswered(p)
  <2>1. PICK i \in Ids : /\ Pushed(p, i) /\ (i \in Free \/ (i = job[p].id /\ Exists(p)))
                         /\ \/ job'[p].id = NoId
                            \/ job'[p].stage = job[p].stage /\ job'[p].id = i
    <3>1. CASE Put(p) \/ PutUnanswered(p)
      BY <3>1, MovedFields, FinishedJob DEF Put, PutUnanswered, Unanswered, Exists
    <3>2. CASE Post(p)
      BY <3>2, MovedFields DEF Post, Fresh
    <3>3. CASE PostUnanswered(p)
      BY <3>3, FinishedJob DEF PostUnanswered, Unanswered, Fresh
    <3> QED
      BY <1>6, <3>1, <3>2, <3>3
  <2>2. saved' = saved
    BY <1>6 DEF Put, PutUnanswered, Post, PostUnanswered, Unanswered
  <2>3. /\ rules'[i].name = job[p].stage
        /\ \A k \in Ids : k # i => rules'[k] = rules[k]
        /\ \A s \in Stages : saved[s].id = i => s = job[p].stage
        /\ \A q \in Passes : job[q].id = i => job[q].stage = job[p].stage
    BY <2>1, PushedNames
  <2>4. ASSUME NEW s \in Stages
        PROVE  OwnSaved(s)'
    BY <2>2, <2>3, IdTypes DEF OwnSaved, OwnRules
  <2>5. ASSUME NEW q \in Passes
        PROVE  OwnHeld(q)'
    <3>1. CASE q = p
      BY <2>1, <2>3, <3>1 DEF OwnHeld
    <3>2. CASE q # p
      <4>1. job'[q] = job[q]
        BY <1>0, <3>2
      <4> QED
        BY <2>3, <4>1, IdTypes DEF OwnHeld, OwnRules
    <3> QED
      BY <3>1, <3>2
  <2> QED
    BY <2>4, <2>5 DEF OwnRules
<1> QED
  BY <1>1, <1>2, <1>3, <1>4, <1>5, <1>6 DEF Advance

LEMMA OthersKeepOwnRules ==
    ASSUME TypeOK, OwnRules, Crash \/ Users \/ UNCHANGED vars
    PROVE  OwnRules'
<1>1. CASE Crash
  <2>1. \A p \in Passes : job'[p].id = NoId
    BY <1>1, NoJobIsJob DEF Crash
  <2>2. \A s \in Stages : \/ saved'[s].id \in {NoId, saved[s].id}
                          \/ \E p \in Passes : saved'[s].id = job[p].id /\ job[p].stage = s
    <3>1. CASE UNCHANGED saved
      BY <3>1
    <3>2. ASSUME NEW p \in Passes, HalfSaved(p)
          PROVE  <2>2
      <4> DEFINE r == IF At(p, "save") THEN Recorded(job[p]) ELSE Cleared
                 old == saved[job[p].stage]
      <4>1. r.id \in {NoId, job[p].id}
        BY ConstantTypes DEF Recorded
      <4>2. old \in Record /\ job[p].stage \in Stages
        BY BuiltTypes DEF TypeOK
      <4>3. \/ saved' = [saved EXCEPT ![job[p].stage] = [old EXCEPT !.id = r.id]]
            \/ saved' = [saved EXCEPT ![job[p].stage] = [old EXCEPT !.id = r.id, !.macs = r.macs]]
        BY <3>2, <4>2 DEF HalfSaved, TypeOK
      <4> HIDE DEF r, old
      <4>4. \A s \in Stages : s # job[p].stage => saved'[s] = saved[s]
        BY <4>3 DEF TypeOK
      <4>5. ASSUME NEW s \in Stages, s = job[p].stage
            PROVE  saved'[s].id = r.id
        <5>1. \/ saved'[s] = [old EXCEPT !.id = r.id]
              \/ saved'[s] = [old EXCEPT !.id = r.id, !.macs = r.macs]
          BY <4>3, <4>5 DEF TypeOK
        <5> QED
          BY <4>2, <5>1 DEF Record
      <4> QED
        BY <4>1, <4>4, <4>5
    <3> QED
      BY <1>1, <3>1, <3>2 DEF Crash
  <2>3. rules' = rules
    BY <1>1 DEF Crash
  <2> QED
    BY <2>1, <2>2, <2>3, NamesOnlyGo
<1>2. CASE Users \/ UNCHANGED vars
  <2>1. UNCHANGED <<job, saved>>
    BY <1>2 DEF Users, SetProfile, ToggleDoh, Upgrade, DeleteByHand, EditByHand, ByHand, Edit, vars
  <2>2. \A i \in Ids : rules'[i].name \in {rules[i].name, "none"}
    <3>1. CASE UNCHANGED rules
      BY <3>1
    <3>2. ASSUME NEW i \in Ids, DeleteByHand(i) \/ EditByHand(i)
          PROVE  <2>2
      <4>1. PICK r : rules' = [rules EXCEPT ![i] = r] /\ r.name \in {"none", rules[i].name}
        BY <3>2 DEF DeleteByHand, EditByHand, ByHand, NoRule
      <4> QED
        BY <4>1 DEF TypeOK
    <3> QED
      BY <1>2, <3>1, <3>2 DEF Users, SetProfile, ToggleDoh, Upgrade, vars
  <2> QED
    BY <2>1, <2>2, NamesOnlyGo
<1> QED
  BY <1>1, <1>2
\* The rule on record is what the controller has.
RecTrue(s) ==
    s \notin unsure /\ s \notin touched /\ saved[s].id # NoId /\ (\A p \in Passes : ~Unrecorded(p, s)) =>
        rules[saved[s].id] = [name |-> s, body |-> saved[s].body]

\* What a pass alone in its stage is about to record is what it has pushed.
Written(p, s) ==
    Unrecorded(p, s) /\ At(p, "save") /\ s \in lone /\ s \notin touched =>
        job[p].id \in Ids /\ rules[job[p].id] = [name |-> s, body |-> Built(job[p])]

Faithful(s) == RecTrue(s) /\ \A p \in Passes : Written(p, s)

FaithInv == \A s \in Stages : Faithful(s)

\* A step of a pass that pushes and records nothing in the stage.
LEMMA FaithKept ==
    ASSUME TypeOK, NEW s \in Stages, Faithful(s), NEW p \in Passes, OthersKeep(p),
           ~Unrecorded(p, s), ~Unrecorded(p, s)',
           saved'[s] = saved[s] \/ saved'[s].id = NoId,
           s \in touched => s \in touched', s \in unsure => s \in unsure',
           s \in lone' => s \in lone \/ \A q \in Passes \ {p} : ~In(q, s),
           \A i \in Ids : rules[i].name = s => rules'[i] = rules[i]
    PROVE  Faithful(s)'
<1>1. \A q \in Passes : Unrecorded(q, s)' <=> Unrecorded(q, s)
  BY DEF OthersKeep, Unrecorded
<1>2. RecTrue(s)'
  <2>1. CASE saved'[s].id = NoId
    BY <2>1 DEF RecTrue
  <2>2. CASE saved'[s] = saved[s] /\ saved[s].id # NoId
    <3> SUFFICES ASSUME s \notin unsure', s \notin touched', \A q \in Passes : ~Unrecorded(q, s)'
                 PROVE  rules'[saved[s].id] = [name |-> s, body |-> saved[s].body]
      BY <2>2 DEF RecTrue
    <3>1. rules[saved[s].id] = [name |-> s, body |-> saved[s].body]
      BY <1>1, <2>2 DEF Faithful, RecTrue
    <3>2. saved[s].id \in Ids /\ rules[saved[s].id].name = s
      BY <2>2, <3>1, IdTypes
    <3> QED
      BY <3>1, <3>2
  <2> QED
    BY <2>1, <2>2
<1>3. ASSUME NEW q \in Passes
      PROVE  Written(q, s)'
  <2> SUFFICES ASSUME Unrecorded(q, s)', At(q, "save")', s \in lone', s \notin touched'
               PROVE  /\ job'[q].id \in Ids
                      /\ rules'[job'[q].id] = [name |-> s, body |-> Built(job'[q])]
    BY DEF Written, Built
  <2>1. q # p /\ job'[q] = job[q] /\ Unrecorded(q, s) /\ In(q, s)
    BY <1>1 DEF OthersKeep, Unrecorded, In
  <2>2. job[q].id \in Ids /\ rules[job[q].id] = [name |-> s, body |-> Built(job[q])]
    BY <2>1 DEF Faithful, Written, At
  <2>3. rules[job[q].id].name = s
    BY <2>2
  <2> QED
    BY <2>1, <2>2, <2>3
<1> QED
  BY <1>2, <1>3 DEF Faithful

\* No other pass is about to record anything in the stage of a pass alone there.
LEMMA OthersWritten ==
    ASSUME Shared, NEW p \in Passes, NEW s \in Stages, In(p, s), OthersKeep(p), lone' = lone
    PROVE  \A q \in Passes \ {p} : Written(q, s)'
<1> SUFFICES ASSUME NEW q \in Passes \ {p}, Unrecorded(q, s)', s \in lone
             PROVE  FALSE
  BY DEF Written
<1>1. In(q, s)
  BY DEF OthersKeep, Unrecorded, In
<1> QED
  BY <1>1 DEF Shared, Alone

\* A pass changes nothing of the other stage.
LEMMA OtherStageStays ==
    ASSUME TypeOK, OwnRules, NEW p \in Passes, Begin(p) \/ Advance(p),
           NEW s \in Stages, s # job[p].stage
    PROVE  /\ saved'[s] = saved[s]
           /\ s \in touched => s \in touched'
           /\ \A i \in Ids : rules[i].name = s => rules'[i] = rules[i]
<1>0. "none" \notin Stages
  BY DEF Stages
<1>1. CASE Begin(p) \/ SwitchOn(p) \/ StayOff(p) \/ SwitchOff(p)
  BY <1>1 DEF Begin, SwitchOn, StayOff, SwitchOff
<1>2. CASE Discover(p) \/ DiscoverFails(p) \/ Skip(p) \/ Look(p) \/ Find(p) \/ PutGone(p)
  BY <1>2 DEF Discover, DiscoverFails, Skip, Look, Find, PutGone
<1>3. CASE RequestFails(p)
  BY <1>3 DEF RequestFails, NotRecorded
<1>4. CASE ClearLeftover(p) \/ Save(p) \/ Clear(p)
  BY <1>4 DEF ClearLeftover, Save, Clear, TypeOK
<1>5. CASE Delete(p) \/ DeleteUnanswered(p)
  <2>1. saved' = saved /\ touched' = touched /\ Gone(p)
    BY <1>5 DEF Delete, DeleteUnanswered, Unanswered
  <2>2. \A i \in Ids : i = job[p].id => rules[i].name \in {job[p].stage, "none"}
    BY NoIdIsNoRule DEF OwnRules, OwnHeld
  <2> QED
    BY <1>0, <2>1, <2>2, GoneRules
<1>6. CASE Put(p) \/ PutUnanswered(p) \/ Post(p) \/ PostUnanswered(p)
  <2>1. PICK i \in Ids : Pushed(p, i) /\ (i \in Free \/ (i = job[p].id /\ Exists(p)))
    BY <1>6 DEF Put, PutUnanswered, Post, PostUnanswered, Exists, Fresh
  <2>2. saved' = saved
    BY <1>6 DEF Put, PutUnanswered, Post, PostUnanswered, Unanswered
  <2>3. rules[i].name \in {job[p].stage, "none"}
    <3>1. CASE i \in Free
      BY <3>1 DEF Free, NoRule
    <3>2. CASE i = job[p].id
      BY <3>2, NoIdIsNoRule DEF OwnRules, OwnHeld
    <3> QED
      BY <2>1, <3>1, <3>2
  <2> QED
    BY <1>0, <2>1, <2>2, <2>3, PushedRules
<1> QED
  BY <1>1, <1>2, <1>3, <1>4, <1>5, <1>6 DEF Advance

LEMMA FaithOtherStage ==
    ASSUME TypeOK, OwnRules, NEW p \in Passes, Begin(p) \/ Advance(p),
           NEW s \in Stages, s # job[p].stage, Faithful(s)
    PROVE  Faithful(s)'
<1>1. OthersKeep(p) /\ ~In(p, s)
  BY AdvancedJob DEF In
<1>2. ~In(p, s)' /\ (s \in unsure => s \in unsure') /\ (s \in lone' => s \in lone)
  <2>1. CASE Overlap(p) /\ \A r \in Stages : In(p, r)' => r = job[p].stage
    BY <2>1, OverlapCases
  <2>2. CASE /\ lone' = lone /\ unsure \subseteq unsure' /\ forked \subseteq forked'
             /\ \A r \in Stages : In(p, r)' => In(p, r)
    BY <1>1, <2>2
  <2>3. CASE Certain(job[p].stage) /\ \A r \in Stages : ~In(p, r)'
    BY <2>3 DEF Certain
  <2> QED
    BY <2>1, <2>2, <2>3, GhostCases
<1>3. ~Unrecorded(p, s) /\ ~Unrecorded(p, s)'
  BY <1>1, <1>2 DEF In, Unrecorded
<1> QED
  BY <1>1, <1>2, <1>3, OtherStageStays, FaithKept

\* The stage of a pass that is not in it before or after, and does nothing there.
LEMMA FaithAway ==
    ASSUME TypeOK, NEW p \in Passes,
           \/ Begin(p) \/ SwitchOn(p) \/ StayOff(p) \/ Discover(p) \/ DiscoverFails(p)
           \/ Skip(p) \/ RequestFails(p) \/ Find(p) \/ PutGone(p),
           NEW s \in Stages, Faithful(s)
    PROVE  Faithful(s)'
<1>1. OthersKeep(p)
  BY AdvancedJob DEF Advance
<1>2. UNCHANGED <<saved, rules, touched, unsure, lone>>
  <2>1. CASE Begin(p) \/ SwitchOn(p) \/ StayOff(p)
    BY <2>1 DEF Begin, SwitchOn, StayOff, ghosts
  <2>2. CASE Discover(p) \/ DiscoverFails(p) \/ Find(p) \/ PutGone(p)
    BY <2>2 DEF Discover, DiscoverFails, Find, PutGone, ghosts
  <2>3. CASE Skip(p) \/ RequestFails(p)
    BY <2>3 DEF Skip, RequestFails, NotRecorded, ghosts
  <2> QED
    BY <2>1, <2>2, <2>3
<1>3. ~Unrecorded(p, s)
  <2>1. CASE Begin(p) \/ SwitchOn(p) \/ StayOff(p)
    BY <2>1 DEF Begin, SwitchOn, StayOff, At, Unrecorded
  <2>2. CASE Discover(p) \/ DiscoverFails(p) \/ Find(p) \/ PutGone(p)
    BY <2>2 DEF Discover, DiscoverFails, Find, PutGone, At, Unrecorded
  <2>3. CASE Skip(p) \/ RequestFails(p)
    BY <2>3 DEF Skip, RequestFails, At, Unrecorded
  <2> QED
    BY <2>1, <2>2, <2>3
<1>4. job'[p].step \in {"idle", "switch", "apps", "look", "put", "post"}
  <2>1. CASE Begin(p)
    BY <2>1, BegunJob
  <2>2. CASE SwitchOn(p) \/ Discover(p) \/ DiscoverFails(p)
    BY <2>2, MovedFields DEF SwitchOn, Discover, DiscoverFails
  <2>3. CASE Find(p) \/ PutGone(p)
    BY <2>3, MovedFields DEF Find, PutGone
  <2>4. CASE StayOff(p) \/ Skip(p) \/ RequestFails(p)
    BY <2>4, FinishedJob DEF StayOff, Skip, RequestFails
  <2> QED
    BY <2>1, <2>2, <2>3, <2>4
<1>5. ~Unrecorded(p, s)'
  BY <1>4 DEF Unrecorded
<1> QED
  BY <1>1, <1>2, <1>3, <1>5, FaithKept

\* Entering a stage, or clearing a record there at once.
LEMMA FaithEnter ==
    ASSUME TypeOK, NEW p \in Passes, Look(p) \/ SwitchOff(p) \/ ClearLeftover(p),
           NEW s \in Stages, s = job[p].stage, Faithful(s)
    PROVE  Faithful(s)'
<1>1. OthersKeep(p) /\ Overlap(p) /\ UNCHANGED <<rules, touched>>
  BY AdvancedJob DEF Advance, Look, SwitchOff, ClearLeftover
<1>2. saved'[s] = saved[s] \/ saved'[s].id = NoId
  <2>1. CASE Look(p) \/ SwitchOff(p)
    BY <2>1 DEF Look, SwitchOff
  <2>2. CASE ClearLeftover(p)
    BY <2>2, ConstantTypes DEF ClearLeftover, TypeOK
  <2> QED
    BY <2>1, <2>2
<1>3. ~Unrecorded(p, s)
  BY DEF Look, SwitchOff, ClearLeftover, At, Unrecorded
<1>4. ~Unrecorded(p, s)'
  <2>1. CASE Look(p)
    BY <2>1, MovedFields DEF Look, FirstStep, Unrecorded
  <2>2. CASE SwitchOff(p)
    BY <2>2, MovedFields DEF SwitchOff, Unrecorded
  <2>3. CASE ClearLeftover(p)
    BY <2>3, FinishedJob DEF ClearLeftover, Unrecorded
  <2> QED
    BY <2>1, <2>2, <2>3
<1>5. (s \in unsure => s \in unsure') /\ (s \in lone' => \A q \in Passes \ {p} : ~In(q, s))
  BY <1>1, OverlapCases
<1> QED
  BY <1>1, <1>2, <1>3, <1>4, <1>5, FaithKept

\* A push or a deletion that is to be recorded.
LEMMA FaithPush ==
    ASSUME TypeOK, Shared, NEW p \in Passes, Put(p) \/ Post(p) \/ Delete(p),
           NEW s \in Stages, s = job[p].stage
    PROVE  Faithful(s)'
<1>1. OthersKeep(p) /\ In(p, s) /\ lone' = lone
  BY AdvancedJob DEF Advance, Put, Post, Delete, In, At, ghosts
<1>2. job'[p].stage = s /\ job'[p].step \in {"save", "clear"}
  BY MovedFields DEF Put, Post, Delete
<1>3. RecTrue(s)'
  BY <1>2 DEF RecTrue, Unrecorded
<1>4. Written(p, s)'
  <2>1. CASE Put(p) \/ Post(p)
    <3>1. PICK i \in Ids : Pushed(p, i) /\ job'[p].id = i
      BY <2>1, MovedFields DEF Put, Post, Exists
    <3>2. rules'[i] = [name |-> s, body |-> Built(job[p])]
      BY <3>1, PushedRules
    <3>3. job'[p].want = job[p].want /\ job'[p].apps = job[p].apps
      BY <2>1, MovedFields DEF Put, Post
    <3>4. rules'[i] = [name |-> s, body |-> [macs |-> job'[p].want, apps |-> job'[p].apps]]
      BY <3>2, <3>3 DEF Built
    <3> QED
      BY <3>1, <3>4 DEF Written, Built
  <2>2. CASE Delete(p)
    <3>1. job'[p].step = "clear"
      BY <2>2, MovedFields DEF Delete
    <3> QED
      BY <3>1 DEF Written, At
  <2> QED
    BY <2>1, <2>2
<1> QED
  BY <1>1, <1>3, <1>4, OthersWritten DEF Faithful

\* The outcome is recorded.
LEMMA FaithRecord ==
    ASSUME TypeOK, Shared, NEW p \in Passes, Save(p) \/ Clear(p),
           NEW s \in Stages, s = job[p].stage, Faithful(s)
    PROVE  Faithful(s)'
<1>1. OthersKeep(p) /\ In(p, s) /\ lone' = lone /\ UNCHANGED <<rules, touched>>
  BY AdvancedJob DEF Advance, Save, Clear, Certain, In, At
<1>2. Written(p, s)'
  BY FinishedJob DEF Save, Clear, Written, Unrecorded
<1>3. CASE Clear(p)
  <2>1. saved'[s].id = NoId
    BY <1>3, ConstantTypes DEF Clear, TypeOK
  <2> QED
    BY <1>1, <1>2, <2>1, OthersWritten DEF Faithful, RecTrue
<1>4. CASE Save(p)
  <2>1. saved'[s] = Recorded(job[p])
    BY <1>4 DEF Save, TypeOK
  <2>2. saved'[s].id = job[p].id /\ saved'[s].body = Built(job[p])
    BY <2>1 DEF Recorded
  <2>3. RecTrue(s)'
    <3> SUFFICES ASSUME s \notin unsure', s \notin touched
                 PROVE  rules[job[p].id] = [name |-> s, body |-> Built(job[p])]
      BY <1>1, <2>2 DEF RecTrue
    <3>1. s \in lone
      BY <1>1, <1>4 DEF Save, Certain, Shared, Marked
    <3>2. Unrecorded(p, s) /\ At(p, "save")
      BY <1>4 DEF Save, Unrecorded, At
    <3> QED
      BY <3>1, <3>2 DEF Faithful, Written
  <2> QED
    BY <1>1, <1>2, <2>3, OthersWritten DEF Faithful
<1> QED
  BY <1>3, <1>4

\* The answer is lost.
LEMMA FaithUnanswered ==
    ASSUME TypeOK, Shared, NEW p \in Passes,
           PutUnanswered(p) \/ PostUnanswered(p) \/ DeleteUnanswered(p),
           NEW s \in Stages, s = job[p].stage
    PROVE  Faithful(s)'
<1>1. OthersKeep(p) /\ In(p, s)
  BY AdvancedJob DEF Advance, PutUnanswered, PostUnanswered, DeleteUnanswered, In, At
<1>2. Finish(p) /\ lone' = lone /\ s \in unsure'
  BY DEF PutUnanswered, PostUnanswered, DeleteUnanswered, Unanswered
<1>3. Written(p, s)'
  BY <1>2, FinishedJob DEF Written, Unrecorded
<1> QED
  BY <1>1, <1>2, <1>3, OthersWritten DEF Faithful, RecTrue

LEMMA PassKeepsFaith ==
    ASSUME TypeOK, Shared, OwnRules, FaithInv, NEW p \in Passes, Begin(p) \/ Advance(p)
    PROVE  FaithInv'
<1> SUFFICES ASSUME NEW s \in Stages PROVE Faithful(s)'
  BY DEF FaithInv
<1>1. Faithful(s)
  BY DEF FaithInv
<1>2. CASE s # job[p].stage
  BY <1>1, <1>2, FaithOtherStage
<1>3. CASE s = job[p].stage
  <2>1. CASE \/ Begin(p) \/ SwitchOn(p) \/ StayOff(p) \/ Discover(p) \/ DiscoverFails(p)
             \/ Skip(p) \/ RequestFails(p) \/ Find(p) \/ PutGone(p)
    BY <1>1, <2>1, FaithAway
  <2>2. CASE Look(p) \/ SwitchOff(p) \/ ClearLeftover(p)
    BY <1>1, <1>3, <2>2, FaithEnter
  <2>3. CASE Put(p) \/ Post(p) \/ Delete(p)
    BY <1>3, <2>3, FaithPush
  <2>4. CASE Save(p) \/ Clear(p)
    BY <1>1, <1>3, <2>4, FaithRecord
  <2>5. CASE PutUnanswered(p) \/ PostUnanswered(p) \/ DeleteUnanswered(p)
    BY <1>3, <2>5, FaithUnanswered
  <2> QED
    BY <2>1, <2>2, <2>3, <2>4, <2>5 DEF Advance
<1> QED
  BY <1>2, <1>3

LEMMA CrashKeepsFaith == ASSUME TypeOK, FaithInv, Crash PROVE FaithInv'
<1> SUFFICES ASSUME NEW s \in Stages PROVE Faithful(s)'
  BY DEF FaithInv
<1>1. \A p \in Passes : ~Unrecorded(p, s)'
  BY NoJobIsJob DEF Crash, Unrecorded
<1>2. CASE s \in unsure'
  BY <1>1, <1>2 DEF Faithful, RecTrue, Written
<1>3. CASE s \notin unsure'
  <2>1. s \notin unsure /\ \A p \in Passes : ~Unrecorded(p, s)
    BY <1>3 DEF Crash, Unrecorded, At
  <2>2. saved'[s] = saved[s]
    <3>1. ASSUME NEW p \in Passes, HalfSaved(p)
          PROVE  <2>2
      <4>1. job[p].stage # s
        BY <2>1, <3>1 DEF HalfSaved, Unrecorded, At
      <4> QED
        BY <3>1, <4>1 DEF HalfSaved, TypeOK
    <3> QED
      BY <3>1 DEF Crash
  <2>3. UNCHANGED <<rules, touched>>
    BY DEF Crash
  <2>4. RecTrue(s)
    BY DEF FaithInv, Faithful
  <2> QED
    BY <1>1, <2>1, <2>2, <2>3, <2>4 DEF Faithful, RecTrue, Written
<1> QED
  BY <1>2, <1>3

LEMMA UsersKeepFaith ==
    ASSUME TypeOK, FaithInv, Users \/ UNCHANGED vars
    PROVE  FaithInv'
<1> SUFFICES ASSUME NEW s \in Stages PROVE Faithful(s)'
  BY DEF FaithInv
<1>1. UNCHANGED <<job, saved, unsure, lone>>
  BY DEF Users, SetProfile, ToggleDoh, Upgrade, DeleteByHand, EditByHand, ByHand, Edit, vars, ghosts
<1>2. /\ touched \subseteq touched'
      /\ s \notin touched' => \A i \in Ids : rules[i].name = s => rules'[i] = rules[i]
  <2>1. CASE UNCHANGED <<rules, touched>>
    BY <2>1
  <2>2. ASSUME NEW i \in Ids, NEW r, ByHand(i, r)
        PROVE  <1>2
    BY <2>2 DEF ByHand, TypeOK
  <2> QED
    BY <2>1, <2>2 DEF Users, SetProfile, ToggleDoh, Upgrade, DeleteByHand, EditByHand, vars
<1>3. RecTrue(s) /\ \A p \in Passes : Written(p, s)
  BY DEF FaithInv, Faithful
<1>4. RecTrue(s)'
  <2> SUFFICES ASSUME s \notin unsure, s \notin touched', saved[s].id # NoId,
                      \A p \in Passes : ~Unrecorded(p, s)
               PROVE  rules'[saved[s].id] = [name |-> s, body |-> saved[s].body]
    BY <1>1 DEF RecTrue, Unrecorded
  <2>1. rules[saved[s].id] = [name |-> s, body |-> saved[s].body] /\ saved[s].id \in Ids
    BY <1>2, <1>3, IdTypes DEF RecTrue
  <2>2. rules[saved[s].id].name = s
    BY <2>1
  <2> QED
    BY <1>2, <2>1, <2>2
<1>5. ASSUME NEW p \in Passes
      PROVE  Written(p, s)'
  <2> SUFFICES ASSUME Unrecorded(p, s), At(p, "save"), s \in lone, s \notin touched'
               PROVE  job[p].id \in Ids /\ rules'[job[p].id] = [name |-> s, body |-> Built(job[p])]
    BY <1>1 DEF Written, Unrecorded, At, Built
  <2>1. job[p].id \in Ids /\ rules[job[p].id] = [name |-> s, body |-> Built(job[p])]
    BY <1>2, <1>3 DEF Written
  <2>2. rules[job[p].id].name = s
    BY <2>1
  <2> QED
    BY <1>2, <2>1, <2>2
<1> QED
  BY <1>4, <1>5 DEF Faithful

LEMMA InitFaith == Init => FaithInv /\ OwnRules
<1>1. Init => \A s \in Stages : saved[s].id = NoId
  BY DEF Init, NoRecord
<1>2. Init => \A p \in Passes : job[p].step = "idle" /\ job[p].id = NoId
  BY NoJobIsJob DEF Init
<1> QED
  BY <1>1, <1>2 DEF FaithInv, Faithful, RecTrue, Written, Unrecorded, OwnRules, OwnSaved, OwnHeld

(* The next pass may rely on what is on record: wherever no pass is at work, the
   user has changed nothing and no push was parted from its record, the rule on
   record is there, is the stage's and blocks what the record says.          *)
THEOREM RecordsAreTrue == Spec => []RecordIsTrue
<1> DEFINE Inv == TypeOK /\ Shared /\ OwnRules /\ FaithInv
<1>1. Init => TypeOK
  BY ConstantTypes, NoJobIsJob, UnifiAssumption
  DEF Init, TypeOK, Profiles, Catalogues, UnifiAssumption
<1>2. Init => Inv
  BY <1>1, InitShared, InitFaith
<1>3. Inv /\ [Next]_vars => Inv'
  <2> SUFFICES ASSUME Inv, [Next]_vars PROVE Inv'
    OBVIOUS
  <2>1. ASSUME NEW p \in Passes, Begin(p) \/ Advance(p)
        PROVE  Inv'
    BY <2>1, PassKeepsTypes, PassKeepsShared, PassKeepsOwnRules, PassKeepsFaith
  <2>2. CASE Crash
    BY <2>2, CrashKeepsTypes, OthersKeepShared, OthersKeepOwnRules, CrashKeepsFaith
  <2>3. CASE Users
    BY <2>3, UsersKeepTypes, OthersKeepShared, OthersKeepOwnRules, UsersKeepFaith
  <2>4. CASE UNCHANGED vars
    <3>1. TypeOK'
      BY <2>4 DEF vars, people, ghosts, limits, TypeOK
    <3> QED
      BY <2>4, <3>1, OthersKeepShared, OthersKeepOwnRules, UsersKeepFaith
  <2> QED
    BY <2>1, <2>2, <2>3, <2>4 DEF Next
<1>4. Inv => RecordIsTrue
  <2> SUFFICES ASSUME Inv, NEW s \in Stages \ (unsure \cup touched), Quiet(s), saved[s].id # NoId
               PROVE  rules[saved[s].id] = [name |-> s, body |-> saved[s].body]
    BY DEF RecordIsTrue
  <2>1. \A p \in Passes : ~Unrecorded(p, s)
    BY DEF Quiet, In, Unrecorded
  <2> QED
    BY <2>1 DEF FaithInv, Faithful, RecTrue
<1> QED
  BY <1>2, <1>3, <1>4, PTL DEF Spec
=============================================================================
