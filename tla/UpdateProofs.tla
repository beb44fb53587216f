---------------------------- MODULE UpdateProofs ----------------------------
(* The update, for any number and quality of commits, runs, checks and faults. *)
EXTENDS Update, TLAPS

-----------------------------------------------------------------------------
(* Types. *)

LEMMA RunTypes ==
    ASSUME TypeOK
    PROVE  /\ run.step \in Steps /\ run.old \in Commits /\ run.new \in Commits
           /\ run.option \in Options
           /\ NoRun \in Run /\ 0 \in Commits /\ remote \in Commits
           /\ \A s \in Steps : To(s) \in Run
<1>1. 0 \in Commits
  BY UpdateAssumption DEF Commits
<1>2. NoRun \in Run
  BY <1>1 DEF NoRun, Run, Steps, Options
<1>3. run \in Run
  BY DEF TypeOK
<1>4. \A s \in Steps : To(s) \in Run
  BY <1>3 DEF Run, To
<1>5. run.step \in Steps /\ run.old \in Commits /\ run.new \in Commits /\ run.option \in Options
  BY <1>3 DEF Run
<1> QED
  BY <1>1, <1>2, <1>4, <1>5 DEF TypeOK

\* The same step with one commit replaced.
LEMMA AtCommit ==
    ASSUME TypeOK, NEW s \in Steps, NEW c \in Commits
    PROVE  /\ [To(s) EXCEPT !.old = c] \in Run /\ [To(s) EXCEPT !.new = c] \in Run
           /\ [To(s) EXCEPT !.old = c].step = s /\ [To(s) EXCEPT !.old = c].old = c
           /\ [To(s) EXCEPT !.new = c].step = s /\ [To(s) EXCEPT !.new = c].old = run.old
           /\ [To(s) EXCEPT !.new = c].new = c
<1>1. To(s) \in Run /\ To(s).step = s /\ To(s).old = run.old
  BY DEF TypeOK, Run, To
<1> QED
  BY <1>1 DEF Run

\* The script begins.
LEMMA Begun ==
    ASSUME TypeOK, NEW option \in Options, Start(option)
    PROVE  /\ run' \in Run
           /\ run'.step \in {"bootstrap", "fetch"}
           /\ run'.step = "fetch" => run'.old = head
<1>1. CASE checkout = "no"
  BY <1>1, RunTypes DEF Start, Goto, NoRun, Run, Steps
<1>2. CASE checkout # "no"
  <2>1. run' = [NoRun EXCEPT !.step = "fetch", !.old = head, !.option = option]
    BY <1>2 DEF Start, Goto, OldSha
  <2>2. run' = [step |-> "fetch", old |-> head, new |-> 0, option |-> option]
    BY <2>1 DEF NoRun
  <2> QED
    BY <2>2, RunTypes DEF TypeOK, Run, Steps
<1> QED
  BY <1>1, <1>2

LEMMA FaultTypes ==
    ASSUME TypeOK, NEW f, Fault(f)
    PROVE  faults' \in 0..MaxFaults
  BY UpdateAssumption DEF TypeOK, Fault

LEMMA NoCheckTypes == UpdateAssumption => NoCheck \in Check /\ [c \in Checks |-> NoCheck] \in [Checks -> Check]
  BY DEF NoCheck, Check, Commits, UpdateAssumption

LEMMA RestartedTypes ==
    ASSUME TypeOK, Restarted
    PROVE  running' \in Commits /\ up' \in BOOLEAN /\ check' \in [Checks -> Check]
  BY UpdateAssumption, NoCheckTypes DEF TypeOK, Restarted

LEMMA UpdateTypesInit == Init => TypeOK
<1> SUFFICES ASSUME Init PROVE TypeOK
  OBVIOUS
<1>1. 0 \in Commits /\ runs \in 0..MaxRuns /\ faults \in 0..MaxFaults
  BY UpdateAssumption DEF Init, Commits
<1>2. run \in Run
  BY <1>1 DEF Init, NoRun, Run, Steps, Options
<1>3. check \in [Checks -> Check]
  BY UpdateAssumption, NoCheckTypes DEF Init
<1> QED
  BY <1>1, <1>2, <1>3 DEF Init, TypeOK, Checkout

LEMMA UpdateTypesStep == TypeOK /\ [Next]_vars => TypeOK'
<1> SUFFICES ASSUME TypeOK, [Next]_vars PROVE TypeOK'
  OBVIOUS
<1> USE RunTypes, UpdateAssumption, NoCheckTypes
<1> USE DEF TypeOK, world, disk, service, banner, ghosts, Goto
<1>1. CASE Commit
  BY <1>1 DEF Commit, Commits
<1>2. CASE \E option \in Options : Start(option)
  <2> PICK option \in Options : Start(option)
    BY <1>2
  <2>1. run' \in Run
    BY Begun
  <2>2. runs' \in 0..MaxRuns
    BY DEF Start
  <2> QED
    BY <2>1, <2>2 DEF Start, Checkout
<1>3. CASE Bootstrap
  <2>1. run' \in Run
    BY <1>3, AtCommit DEF Bootstrap, Steps
  <2> QED
    BY <1>3, <2>1 DEF Bootstrap, Checkout
<1>4. CASE Fetch
  <2>1. run' \in Run
    BY <1>4, AtCommit DEF Fetch, Steps
  <2> QED
    BY <1>4, <2>1 DEF Fetch
<1>5. CASE FetchFails
  BY <1>5, FaultTypes DEF FetchFails
<1>6. CASE Reset
  BY <1>6 DEF Reset, Steps
<1>7. CASE Install
  BY <1>7 DEF Install, Steps
<1>8. CASE InstallFails
  BY <1>8, FaultTypes DEF InstallFails, Steps
<1>9. CASE Restart
  BY <1>9, RestartedTypes DEF Restart, Restarted, Steps
<1>10. CASE Healthy
  BY <1>10 DEF Healthy, Steps
<1>11. CASE Unhealthy
  BY <1>11, FaultTypes DEF Unhealthy, Steps
<1>12. CASE Undo
  BY <1>12 DEF Undo, Steps
<1>13. CASE Reinstall
  BY <1>13, FaultTypes DEF Reinstall, Steps
<1>14. CASE RestartOld
  BY <1>14, RestartedTypes DEF RestartOld, Restarted
<1>15. CASE Stamp
  BY <1>15 DEF Stamp
<1>16. CASE Kill
  BY <1>16, FaultTypes DEF Kill
<1>17. CASE Crash
  BY <1>17, RestartedTypes, FaultTypes DEF Crash, Restarted
<1>18. CASE Dismiss
  BY <1>18 DEF Dismiss
<1>19. ASSUME NEW c \in Checks, CheckStep(c) PROVE TypeOK'
  <2>1. CASE Ask(c)
    BY <2>1 DEF Ask, Check
  <2>2. CASE Answer(c)
    BY <2>2 DEF Answer, Check
  <2>3. CASE SaveCache(c)
    BY <2>3 DEF SaveCache, Check
  <2>4. CASE SaveError(c)
    BY <2>4, FaultTypes DEF SaveError
  <2> QED
    BY <1>19, <2>1, <2>2, <2>3, <2>4 DEF CheckStep
<1>20. CASE UNCHANGED vars
  BY <1>20 DEF vars
<1> QED
  BY <1>1, <1>2, <1>3, <1>4, <1>5, <1>6, <1>7, <1>8, <1>9, <1>10, <1>11, <1>12, <1>13,
     <1>14, <1>15, <1>16, <1>17, <1>18, <1>19, <1>20 DEF Next, Advance

(* What the script and the service hold stays well formed: every commit named
   is one of the channel's, and every step one of guardium-update's.         *)
THEOREM UpdateTypeCorrect == Spec => []TypeOK
  BY UpdateTypesInit, UpdateTypesStep, PTL DEF Spec

-----------------------------------------------------------------------------
(* What an update that has not been disturbed may rely on. *)

\* Nothing is between two releases.
Sound == /\ up /\ running \in vetted /\ head = running /\ deps = running
         /\ stamp \in {None, running}

Before == {"idle", "bootstrap", "fetch", "reset"}

\* Only a commit that comes up is ever seen to be up.
OnlyGoodComeUp == /\ \A c \in vetted : quality[c] # "sick"
                  /\ up => quality[running] # "sick"

\* Where the script is, disturbed or not.
OnCourse ==
    /\ run.step \in {"fetch", "reset"} => run.old = head
    /\ run.step \in {"install", "restart", "health", "stamp"} => head = run.new
    /\ run.step \in {"restart", "health", "stamp"} => deps = head
    /\ run.step \in {"health", "stamp"} =>
           running = head /\ (quality[head] # "sick" => up)
    /\ run.step \in {"reinstall", "again"} => head = run.old

\* There is always a commit to go back to.
WayBack ==
    ~disturbed =>
        /\ run.step \in Before => Sound
        /\ run.step \notin Before => run.old \in vetted /\ stamp \in {None, run.old}
        /\ run.step = "again" => deps = head
        /\ run.step = "stamp" => run.new \in vetted

UpdateInv == TypeOK /\ OnlyGoodComeUp /\ OnCourse /\ WayBack

\* The jobs of the script's next step.
LEMMA StepsTo ==
    ASSUME TypeOK, NEW s \in Steps
    PROVE  To(s).step = s /\ To(s).old = run.old /\ To(s).new = run.new
  BY DEF TypeOK, Run, To

LEMMA NoRunIdle == NoRun.step = "idle"
  BY DEF NoRun

LEMMA UpdateInvInit == Init => UpdateInv
<1> SUFFICES ASSUME Init PROVE UpdateInv
  OBVIOUS
<1>1. TypeOK
  BY UpdateTypesInit
<1>2. run.step = "idle"
  BY DEF Init, NoRun
<1>3. OnlyGoodComeUp
  BY DEF Init, OnlyGoodComeUp
<1>4. OnCourse
  BY <1>2 DEF OnCourse
<1>5. WayBack
  BY <1>2 DEF Init, WayBack, Sound, Before
<1> QED
  BY <1>1, <1>3, <1>4, <1>5 DEF UpdateInv

LEMMA UpdateInvStep == UpdateInv /\ [Next]_vars => UpdateInv'
<1> SUFFICES ASSUME UpdateInv, [Next]_vars PROVE UpdateInv'
  OBVIOUS
<1> USE DEF UpdateInv
<1>1. TypeOK'
  BY UpdateTypesStep
<1>2. run.step \in Steps /\ head \in Commits /\ running \in Commits /\ remote \in Commits
  BY RunTypes DEF TypeOK
<1> USE DEF world, disk, service, banner, ghosts, Goto, At
<1> SUFFICES OnlyGoodComeUp' /\ OnCourse' /\ WayBack'
  BY <1>1
<1>a. CASE UNCHANGED <<quality, head, deps, service, stamp, run, ghosts>>
  BY <1>a DEF OnlyGoodComeUp, OnCourse, WayBack, Sound
<1>3. CASE Commit
  BY <1>3, <1>a DEF Commit
<1>4. CASE \E option \in Options : Start(option)
  <2> PICK option \in Options : Start(option)
    BY <1>4
  <2>1. run.step = "idle" /\ UNCHANGED <<quality, head, deps, service, stamp, ghosts>>
    BY DEF Start
  <2>2. run'.step \in {"bootstrap", "fetch"} /\ (run'.step = "fetch" => run'.old = head)
    BY Begun
  <2> QED
    BY <2>1, <2>2 DEF OnlyGoodComeUp, OnCourse, WayBack, Sound, Before
<1>5. CASE Bootstrap
  <2>1. run' = [To("fetch") EXCEPT !.old = remote] /\ head' = remote
    BY <1>5 DEF Bootstrap
  <2>3. [To("fetch") EXCEPT !.old = remote].step = "fetch"
        /\ [To("fetch") EXCEPT !.old = remote].old = remote
    <3>1. TypeOK /\ "fetch" \in Steps
      BY DEF Steps
    <3> HIDE DEF UpdateInv
    <3> QED
      BY <1>2, <3>1, AtCommit
  <2>4. run'.step = "fetch" /\ run'.old = head'
    BY <2>1, <2>3
  <2>2. head' # head => disturbed'
    BY <1>5 DEF Bootstrap
  <2> QED
    BY <1>5, <2>2, <2>4 DEF Bootstrap, OnlyGoodComeUp, OnCourse, WayBack, Sound, Before
<1>6. CASE Fetch
  <2>1. \/ run'.step = "idle"
        \/ run'.step = "reset" /\ run'.old = run.old
    BY <1>6, <1>2, AtCommit, StepsTo, NoRunIdle DEF Fetch, Steps
  <2> QED
    BY <1>6, <2>1 DEF Fetch, OnlyGoodComeUp, OnCourse, WayBack, Sound, Before
<1>7. CASE FetchFails
  BY <1>7, StepsTo, NoRunIdle DEF FetchFails, OnlyGoodComeUp, OnCourse, WayBack, Sound, Before, Steps
<1>8. CASE Reset
  BY <1>8, StepsTo, NoRunIdle DEF Reset, OnlyGoodComeUp, OnCourse, WayBack, Sound, Before, Steps
<1>9. CASE Install
  BY <1>9, StepsTo, NoRunIdle DEF Install, OnlyGoodComeUp, OnCourse, WayBack, Before, Steps
<1>10. CASE InstallFails
  BY <1>10, StepsTo, NoRunIdle DEF InstallFails, Keep, OnlyGoodComeUp, OnCourse, WayBack, Before, Steps
<1>11. CASE Restart
  <2>1. run'.step = "health" /\ run'.old = run.old /\ run'.new = run.new
    BY <1>11, StepsTo, NoRunIdle DEF Restart, Steps
  <2>2. running' = head /\ (up' => quality[head] # "sick")
        /\ (deps = head /\ quality[head] # "sick" => up')
    BY <1>11 DEF Restart, Restarted
  <2> QED
    BY <1>11, <2>1, <2>2 DEF Restart, OnlyGoodComeUp, OnCourse, WayBack, Before
<1>12. CASE Healthy
  BY <1>12, StepsTo, NoRunIdle DEF Healthy, OnlyGoodComeUp, OnCourse, WayBack, Before, Steps
<1>13. CASE Unhealthy
  BY <1>13, StepsTo, NoRunIdle DEF Unhealthy, Keep, OnlyGoodComeUp, OnCourse, WayBack, Before, Steps
<1>14. CASE Undo
  BY <1>14, StepsTo, NoRunIdle DEF Undo, OnlyGoodComeUp, OnCourse, WayBack, Before, Steps
<1>15. CASE Reinstall
  BY <1>15, StepsTo, NoRunIdle DEF Reinstall, OnlyGoodComeUp, OnCourse, WayBack, Before, Steps
<1>16. CASE RestartOld
  <2>1. run'.step = "idle"
    BY <1>16, StepsTo, NoRunIdle DEF RestartOld
  <2>2. running' = head /\ (up' => quality[head] # "sick")
        /\ (deps = head /\ quality[head] # "sick" => up')
    BY <1>16 DEF RestartOld, Restarted
  <2> QED
    BY <1>16, <2>1, <2>2 DEF RestartOld, OnlyGoodComeUp, OnCourse, WayBack, Sound, Before
<1>17. CASE Stamp
  <2>1. run'.step = "idle" /\ stamp' = run.new /\ (~disturbed' => run.new \in vetted)
    BY <1>17, NoRunIdle DEF Stamp, WayBack, Before
  <2>2. head = run.new /\ deps = head /\ running = head /\ (quality[head] # "sick" => up)
    BY <1>17 DEF Stamp, OnCourse
  <2>3. run.new \in vetted => quality[head] # "sick"
    BY <2>2 DEF OnlyGoodComeUp
  <2> QED
    BY <1>17, <2>1, <2>2, <2>3 DEF Stamp, OnlyGoodComeUp, OnCourse, WayBack, Sound, Before
<1>18. CASE Kill
  BY <1>18, StepsTo, NoRunIdle DEF Kill, OnlyGoodComeUp, OnCourse, WayBack, Sound, Before
<1>19. CASE Crash
  <2>1. running' = head /\ (up' => quality[head] # "sick")
        /\ (deps = head /\ quality[head] # "sick" => up')
    BY <1>19 DEF Crash, Restarted
  <2> QED
    BY <1>19, <2>1 DEF Crash, OnlyGoodComeUp, OnCourse, WayBack, Sound, Before
<1>20. CASE Dismiss
  BY <1>20, <1>a DEF Dismiss
<1>21. CASE \E c \in Checks : CheckStep(c)
  BY <1>21, <1>a DEF CheckStep, Ask, Answer, SaveCache, SaveError
<1>22. CASE UNCHANGED vars
  BY <1>22, <1>a DEF vars
<1> QED
  BY <1>3, <1>4, <1>5, <1>6, <1>7, <1>8, <1>9, <1>10, <1>11, <1>12, <1>13, <1>14, <1>15,
     <1>16, <1>17, <1>18, <1>19, <1>20, <1>21, <1>22 DEF Next, Advance

LEMMA UpdateInvHolds == Spec => []UpdateInv
  BY UpdateInvInit, UpdateInvStep, PTL DEF Spec

(* No update, however it ends, leaves a service that does not answer or that
   runs with the dependencies of another commit, unless it was disturbed.    *)
THEOREM GoodReleasesRun == Spec => []GoodReleaseRuns
<1>1. UpdateInv => GoodReleaseRuns
  BY DEF UpdateInv, WayBack, Sound, Before, GoodReleaseRuns, At
<1> QED
  BY <1>1, UpdateInvHolds, PTL

(* What the dashboard says is installed is what the service runs, unless an
   update was disturbed.                                                     *)
THEOREM InstalledIsWhatRuns == Spec => []InstalledIsRunning
<1>1. UpdateInv => InstalledIsRunning
  BY DEF UpdateInv, WayBack, Sound, Before, InstalledIsRunning, Installed, At
<1> QED
  BY <1>1, UpdateInvHolds, PTL
=============================================================================
