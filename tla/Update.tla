-------------------------------- MODULE Update --------------------------------
(***************************************************************************)
(* How the dashboard is updated: guardium-update, which moves the checkout  *)
(* to the tip of the channel, runs the installer, restarts the service,     *)
(* waits for it to answer, and rolls back or stamps version.json; the       *)
(* installer; systemd; and the service's own version checker, which says    *)
(* what is installed and whether there is something newer.                  *)
(*                                                                          *)
(* A commit is its place in the history of the channel.  The updater runs   *)
(* outside the service, step by step, and may be killed between two of its  *)
(* steps: it is a shell script under somebody's SSH session.                *)
(***************************************************************************)
EXTENDS Naturals, FiniteSets

CONSTANTS
    None,
    Checks,         \* the poll and the requests to check now
    Faults,         \* what may go wrong
    MaxCommits, MaxFaults, MaxRuns  \* bounds

Commits == 0..MaxCommits

\* A sick commit does not come up, a broken one cannot be installed.
Quality == {"good", "sick", "broken"}

ASSUME UpdateAssumption ==
    /\ None \notin Commits
    /\ Faults \subseteq {"kill", "crash", "offline", "slow", "install"}
    /\ MaxCommits \in Nat /\ MaxFaults \in Nat /\ MaxRuns \in Nat

VARIABLES
    remote,     \* the tip of the channel
    quality,    \* of each commit
    checkout,   \* the install directory: no checkout, one without commits, or one
    head,       \* the commit whose files are there
    deps,       \* the commit the installer last ran for, None if it stopped half way
    running,    \* the commit the service process was started from
    up,         \* does it answer /api/health?
    stamp,      \* the commit in version.json, None without the file
    run,        \* the updater
    cache,      \* setting update.latest_cache
    dismissed,  \* setting update.dismissed_sha
    check,      \* version checks under way
    vetted,     \* commits that have answered after an update
    disturbed,  \* an update has been left half way
    runs, faults

service == <<running, up>>
disk    == <<checkout, head, deps, stamp>>
banner  == <<cache, dismissed>>
ghosts  == <<vetted, disturbed>>
world   == <<remote, quality>>
vars    == <<world, disk, service, run, banner, check, ghosts, runs, faults>>

Checkout == {"no", "empty", "yes"}
Options  == {"none", "check", "no-rollback"}

NoRun   == [step |-> "idle", old |-> 0, new |-> 0, option |-> "none"]
Steps   == {"idle", "bootstrap", "fetch", "reset", "install", "restart", "health",
            "stamp", "undo", "reinstall", "again"}
Run     == [step : Steps, old : Commits, new : Commits, option : Options]
NoCheck == [step |-> "idle", sha |-> 0]
Check   == [step : {"idle", "asked", "answered"}, sha : Commits]

Init ==
    /\ remote = 0
    /\ quality \in [Commits -> Quality] /\ quality[0] = "good"
    /\ checkout \in {"no", "yes"}
    /\ head = 0 /\ deps = 0
    /\ running = 0 /\ up = TRUE
    /\ stamp = None
    /\ run = NoRun
    /\ cache = None /\ dismissed = None
    /\ check = [c \in Checks |-> NoCheck]
    /\ vetted = {0} /\ disturbed = FALSE
    /\ runs = 0 /\ faults = 0

Fault(f) ==
    /\ f \in Faults /\ faults < MaxFaults
    /\ faults' = faults + 1

-----------------------------------------------------------------------------
(* The service. *)

\* The service is started from the files that are there.  With the dependencies
\* of another commit it may or may not come up.  Its checks end with it.
Restarted ==
    /\ running' = head
    /\ up' \in IF quality[head] = "sick" THEN {FALSE}
               ELSE IF deps = head THEN {TRUE} ELSE BOOLEAN
    /\ check' = [c \in Checks |-> NoCheck]

\* systemd starts it again after a crash or a reboot of the host.
Crash ==
    /\ Fault("crash")
    /\ Restarted
    /\ UNCHANGED <<world, disk, run, banner, ghosts, runs>>

-----------------------------------------------------------------------------
(* guardium-update. *)

At(step)  == run.step = step
Goto(new) == run' = new
To(step)  == [run EXCEPT !.step = step]

\* Wrong: what is installed is what was last stamped.
OldStamped == stamp

OldSha == head

Keep == run.option = "no-rollback"

\* In a checkout without commits the script stops at once.
Start(option) ==
    /\ At("idle") /\ runs < MaxRuns
    /\ checkout # "empty"
    /\ runs' = runs + 1
    /\ IF checkout = "no"
       THEN checkout' = "empty" /\ Goto([NoRun EXCEPT !.step = "bootstrap", !.option = option])
       ELSE /\ UNCHANGED checkout
            /\ Goto([NoRun EXCEPT !.step = "fetch", !.old = OldSha, !.option = option])
    /\ UNCHANGED <<world, head, deps, stamp, service, banner, check, ghosts, faults>>

\* The directory is made a checkout, at the tip, before the script looks what is
\* installed.
Bootstrap ==
    /\ At("bootstrap")
    /\ checkout' = "yes"
    /\ head' = remote
    /\ disturbed' = (disturbed \/ head' # head)
    /\ Goto([To("fetch") EXCEPT !.old = head'])
    /\ UNCHANGED <<world, deps, stamp, service, banner, check, vetted, runs, faults>>

\* "Already up to date", or nothing is to be applied.
Fetch ==
    /\ At("fetch")
    /\ Goto(IF run.old = remote \/ run.option = "check" THEN NoRun
            ELSE [To("reset") EXCEPT !.new = remote])
    /\ UNCHANGED <<world, disk, service, banner, check, ghosts, runs, faults>>

FetchFails ==
    /\ At("fetch") \/ At("bootstrap")
    /\ Fault("offline")
    /\ Goto(NoRun)
    /\ UNCHANGED <<world, disk, service, banner, check, ghosts, runs>>

Reset ==
    /\ At("reset")
    /\ head' = run.new
    /\ Goto(To("install"))
    /\ UNCHANGED <<world, checkout, deps, stamp, service, banner, check, ghosts, runs, faults>>

\* deploy/install.sh, which ends by restarting the service.
Install ==
    /\ At("install")
    /\ quality[head] # "broken"
    /\ deps' = head
    /\ Goto(To("restart"))
    /\ UNCHANGED <<world, checkout, head, stamp, service, banner, check, ghosts, runs, faults>>

\* Under --no-rollback everything is left as it is.
InstallFails ==
    /\ At("install")
    /\ IF quality[head] = "broken" THEN faults' = faults ELSE Fault("install")
    /\ deps' = None
    /\ Goto(IF Keep THEN NoRun ELSE To("undo"))
    /\ disturbed' = (disturbed \/ Keep)
    /\ UNCHANGED <<world, checkout, head, stamp, service, banner, check, vetted, runs>>

Restart ==
    /\ At("restart")
    /\ Restarted
    /\ Goto(To("health"))
    /\ UNCHANGED <<world, disk, banner, ghosts, runs, faults>>

Healthy ==
    /\ At("health") /\ up
    /\ vetted' = vetted \cup {running}
    /\ Goto(To("stamp"))
    /\ UNCHANGED <<world, disk, service, banner, check, disturbed, runs, faults>>

\* Or it comes up too late.
Unhealthy ==
    /\ At("health")
    /\ IF up THEN Fault("slow") ELSE faults' = faults
    /\ Goto(IF Keep THEN To("stamp") ELSE To("undo"))
    /\ disturbed' = (disturbed \/ Keep)
    /\ UNCHANGED <<world, disk, service, banner, check, vetted, runs>>

Undo ==
    /\ At("undo")
    /\ head' = run.old
    /\ Goto(To("reinstall"))
    /\ UNCHANGED <<world, checkout, deps, stamp, service, banner, check, ghosts, runs, faults>>

\* Wrong: the old commit's dependencies are still there.
ReinstallSkipped ==
    /\ At("reinstall")
    /\ Goto(To("again"))
    /\ UNCHANGED <<world, disk, service, banner, check, ghosts, runs, faults>>

\* A failure here is logged and otherwise ignored.
Reinstall ==
    /\ At("reinstall")
    /\ \/ deps' = head /\ UNCHANGED <<disturbed, faults>>
       \/ Fault("install") /\ deps' = None /\ disturbed' = TRUE
    /\ Goto(To("again"))
    /\ UNCHANGED <<world, checkout, head, stamp, service, banner, check, vetted, runs>>

RestartOld ==
    /\ At("again")
    /\ Restarted
    /\ Goto(NoRun)
    /\ UNCHANGED <<world, disk, banner, ghosts, runs, faults>>

\* Wrong: stamps what is the tip by now.
StampTip ==
    /\ At("stamp")
    /\ stamp' = remote
    /\ disturbed' = (disturbed /\ ~up)
    /\ Goto(NoRun)
    /\ UNCHANGED <<world, checkout, head, deps, service, banner, check, vetted, runs, faults>>

\* An update that has gone well mends whatever an earlier one has left.
Stamp ==
    /\ At("stamp")
    /\ stamp' = run.new
    /\ disturbed' = (disturbed /\ run.new \notin vetted)
    /\ Goto(NoRun)
    /\ UNCHANGED <<world, checkout, head, deps, service, banner, check, vetted, runs, faults>>

\* The script is killed: nothing takes up where it left off.
Kill ==
    /\ ~At("idle") /\ Fault("kill")
    /\ disturbed' = (disturbed \/ run.step \notin {"bootstrap", "fetch", "reset"})
    /\ deps' \in IF At("install") \/ At("reinstall") THEN {deps, None} ELSE {deps}
    /\ Goto(NoRun)
    /\ UNCHANGED <<world, checkout, head, stamp, service, banner, check, vetted, runs>>

-----------------------------------------------------------------------------
(* The version checker, in the service. *)

Ask(c) ==
    /\ up /\ check[c].step = "idle"
    /\ check' = [check EXCEPT ![c].step = "asked"]
    /\ UNCHANGED <<world, disk, service, run, banner, ghosts, runs, faults>>

\* GitHub's answer is on its way.
Answer(c) ==
    /\ check[c].step = "asked"
    /\ check' = [check EXCEPT ![c] = [step |-> "answered", sha |-> remote]]
    /\ UNCHANGED <<world, disk, service, run, banner, ghosts, runs, faults>>

\* Wrong: an answer is kept if there is none yet.
SaveFirst(c) ==
    /\ check[c].step = "answered"
    /\ cache' = IF cache = None THEN check[c].sha ELSE cache
    /\ check' = [check EXCEPT ![c] = NoCheck]
    /\ UNCHANGED <<world, disk, service, run, dismissed, ghosts, runs, faults>>

SaveCache(c) ==
    /\ check[c].step = "answered"
    /\ cache' = check[c].sha
    /\ check' = [check EXCEPT ![c] = NoCheck]
    /\ UNCHANGED <<world, disk, service, run, dismissed, ghosts, runs, faults>>

\* The error is noted, and what was cached stays.
SaveError(c) ==
    /\ check[c].step # "idle" /\ Fault("offline")
    /\ check' = [check EXCEPT ![c] = NoCheck]
    /\ UNCHANGED <<world, disk, service, run, banner, ghosts, runs>>

\* The banner is dismissed for the version that it shows, or shown again.
Dismiss ==
    /\ up
    /\ dismissed' \in {cache, None} \ {dismissed}
    /\ UNCHANGED <<world, disk, service, run, cache, check, ghosts, runs, faults>>

\* version.json if there is one, else what git says.
Installed == IF stamp # None THEN stamp ELSE IF checkout = "yes" THEN head ELSE None

UpdateAvailable ==
    /\ cache # None /\ Installed # None
    /\ Installed # cache
    /\ dismissed # cache

-----------------------------------------------------------------------------

Commit ==
    /\ remote < MaxCommits
    /\ remote' = remote + 1
    /\ UNCHANGED <<quality, disk, service, run, banner, check, ghosts, runs, faults>>

Advance ==
    \/ Bootstrap \/ Fetch \/ FetchFails \/ Reset \/ Install \/ InstallFails \/ Restart
    \/ Healthy \/ Unhealthy \/ Undo \/ Reinstall \/ RestartOld \/ Stamp

CheckStep(c) == Ask(c) \/ Answer(c) \/ SaveCache(c) \/ SaveError(c)

Next ==
    \/ Commit \/ Advance \/ Kill \/ Crash \/ Dismiss
    \/ \E option \in Options : Start(option)
    \/ \E c \in Checks : CheckStep(c)

\* A script that runs goes on, and the service polls again and again.
Fairness == WF_vars(Advance) /\ \A c \in Checks : WF_vars(CheckStep(c))

Spec == Init /\ [][Next]_vars /\ Fairness

-----------------------------------------------------------------------------
(* Properties. *)

TypeOK ==
    /\ remote \in Commits /\ quality \in [Commits -> Quality]
    /\ checkout \in Checkout /\ head \in Commits /\ deps \in Commits \cup {None}
    /\ running \in Commits /\ up \in BOOLEAN
    /\ stamp \in Commits \cup {None}
    /\ run \in Run
    /\ cache \in Commits \cup {None} /\ dismissed \in Commits \cup {None}
    /\ check \in [Checks -> Check]
    /\ vetted \subseteq Commits /\ disturbed \in BOOLEAN
    /\ runs \in 0..MaxRuns /\ faults \in 0..MaxFaults

(* "A bad commit doesn't leave you with a dead dashboard": when no update is
   under way, the service is up and runs a commit that has answered a health
   check with its own dependencies, whichever commits of whatever quality have
   come and gone and however often the service has crashed.  Not so after an
   update that was killed, told not to roll back, whose rollback failed, or
   that began by making the directory a checkout.                            *)
GoodReleaseRuns ==
    At("idle") /\ ~disturbed => up /\ running \in vetted /\ deps = running

(* "Installed -- what code Guardium DNS is actually running": so it is when no
   update is under way or has been left half way.                            *)
InstalledIsRunning ==
    At("idle") /\ ~disturbed => head = running /\ Installed \in {running, None}

(* Once commits stop coming the dashboard says that there is something newer
   exactly when there is and it has not been dismissed, although checks overlap
   and the older answer may be stored last.                                  *)
BannerTellsTruth ==
    <>[](up /\ At("idle") /\ ~disturbed /\ Installed # None =>
            (UpdateAvailable <=> running # remote /\ dismissed # remote))
=============================================================================
