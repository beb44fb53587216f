# Guardium DNS, specified

TLA+ models of the Guardium DNS dashboard (`src/server/`), model-checked with
TLC and, for the core, proved with TLAPS.

## 1. The system

Guardium DNS is one Python process (FastAPI on one asyncio loop) that sits
between a family and two devices it configures: a Technitium DNS server, whose
*Advanced Blocking* app maps addresses to groups of block lists, and optionally
a router (ASUS or UniFi), which blocks devices outright and forces their DNS.
What people ask for is kept in an SQLite store; a *reconciler* makes Technitium
and the router say what the store says.

| Component | State it keeps | Operations | What makes it correct |
|---|---|---|---|
| Start-up (`app.py` lifespan) | none | seed groups and catch-all, backfill base profiles, start the loops | users' choices survive restarts and the upgrade |
| Reconciler (`reconciler.py`) | results held across awaits | the 60-second loop; one pass per mutating request | the map converges to the store; nobody else's entries are touched |
| Technitium (`technitium.py`) | the Advanced Blocking configuration | get, replace whole | |
| Store (`store.py`) | devices, overrides, people, schedules, quotas, usage, settings | one SQL statement or transaction per operation | one row per device; history follows the device |
| Override resolution (`overrides.py`) | none | resolve a target, merge a person into a device | the documented priorities |
| Lease follow (`store.follow_device_to_new_ip`, `_reconcile_device_macs`) | `devices.mac_address` | migrate a row, stamp a MAC | profiles stick to devices, at most one row per MAC |
| Sampler (`sampler.py`) | `daily_usage` | credit the active devices every five minutes | a minute is counted once, for the right device and person |
| ASUS adapter (`routers/asus`) | router NVRAM and firewall, `router.managed.*` settings | kill switch, DNS Director over HTTP; the DoH chain over SSH | the user's own router rules are never touched, and nothing of ours is left when a stage is off |
| UniFi adapter (`routers/unifi`) | controller rules, the id, devices and hash of each in settings | find by name, create, update, skip, tear down one rule per stage | one rule per stage, and a record that is what the controller holds |
| Router registry and settings | `router.*` settings | choose an adapter, switch vendors | the old router is left clean |
| Hostname resolver (`hostnames.py`) | a cache with expiry | look up, invalidate | |
| Version checker and updater (`version.py`, `guardium-update.sh`, `install.sh`) | the checkout, `version.json`, `update.*` settings | check, dismiss, install with rollback | a release that works keeps running; what is said to be installed is what runs |

Hard behaviours: passes of the reconciler interleave at every await and share
Technitium's configuration and the router's lists without a lock; every write
replaces the whole configuration or list; the router's client report may swap,
duplicate or lag behind leases; the process may die between changing the router
and recording what it changed; schedules and quotas are never stored as
overrides and have to be recomputed from the clock; the router's firewall is
forgotten at every reboot; an update may stop at any of its steps. `PROJECT.json` lists the
places where this bites, line by line ("hazards").

How the parts interact. A *pass* of the reconciler (every 60 seconds, and once
per mutating request) purges expired overrides, opens a session with the router
and reads its clients (await), moves device rows after their MACs, resolves
what every device should be on, reads Technitium's configuration (await),
writes it back (await), and then pushes the same result to the router, stage by
stage (several awaits each). Each interaction is modelled in the module that
owns the state it can damage:

    Overrides          what applies to a target at a minute (pure)
       |  EXTENDS
    Household          the tables people change, the clock, the sampler
    Reconciler         passes against Technitium's map      (a base profile and overrides)
       |  INSTANCE
    ProfileSync        what "the network follows the store" promises
    LeaseFollow        rows against the router's client report
       |  INSTANCE
    StickyDevices      what "profiles stick to devices" promises
    AsusRules          passes against the router's two lists
    AsusDoh            passes against the router's firewall
    UnifiRule          passes against the controller's two rules
    Update             the updater and the service against the checkout

## 2. The modules

| Module | Source | State | Actions |
|---|---|---|---|
| `Reconciler` | `reconciler.py` tick, `_apply`; `app.py` lifespan and device handlers; `technitium.py` | `rows`, `base`, `over` are the tables; `config` is Technitium's configuration; `pc`, `eff`, `copy` are the locals of each pass; `phase` is start-up | `SeedRead`, `SeedPush`, `Backfill` and their failures; `StartLoopPass`; `ReadStore`, `Fetch`, `Push` with `FetchFails`, `PushFails` (not carried out, or carried out and the answer lost); one action per handler; `MapByHand` for Technitium's console; `Crash` |
| `LeaseFollow` | `store.follow_device_to_new_ip`, `set_device_mac`, `_reconcile_device_macs`, `_refresh_fingerprints` | `rows` by address; `target`, `family`, `usage`, what hangs on an address; `report`, clients still to be followed; `asked`, fingerprint queries under way | `ListClients`, `Follow` (move, stamp or fail), `AskFingerprint`, `StoreFingerprint`, the handlers, `Credit` |
| `ProfileSync` | the reconciler's purpose: Technitium says what the store says | what the store wants, what is served, what each pass has read; no fetches, saves or entries of others | `Decide`, `Read`, `Publish`, `GiveUp`, `Seed`, `Restart` |
| `StickyDevices` | the README's "profiles stick to devices" | profile, rules and minutes of each device; no addresses | `Choose`, `Rule`, `Find` |
| `Overrides` | `overrides.py` | none | `WindowActive`, `Resolve`, `MergePersonIntoDevice` are the three public functions |
| `Household` | handlers of `app.py`, tables of `store.py`, `sampler.py` | one variable per table, `now`, and `deleting`, the statements of `delete_person` still to run | one action per handler; `Statement`, `Crash`; `Tick`, `Sample`, `Purge` |
| `AsusRules` | `routers/asus/__init__.py`, `http_client.py`, `_apply_router` | `list`, `on`: the router's NVRAM; `managed`: the recorded addresses; `job`: the locals of each pass | `Begin`, `Skip`, `Load`, `Fetch`, `Write`, `Record`, their failures, `Crash`; the settings; the user on the router's own pages |
| `UnifiRule` | `routers/unifi/__init__.py`, `legacy_api.py`, `doh_apps.py`, `traffic_rule.py`, `_apply_router` | `rules`: the controller; `saved`: id, devices and hash of each stage; `cached`: the applications; `job`: the locals of each pass | `Begin`; `SwitchOn`, `SwitchOff`, `StayOff`; `Discover`; `Skip`, `Look`, `Find`, `Put`, `PutGone`, `Post`, `Save`; `Delete`, `Clear`; their failures and lost answers; `Crash`, also between two of the settings; the user and new firmware on the controller |
| `AsusDoh` | `AsusAdapter.apply_doh_block`, `ssh_client.py`, the router settings of `app.py` | `fw`: what the router's firewall holds of ours; `managed`: the record; `job`: the next command of each pass; `enabled`, `doh`: the settings | `Begin`, `Load`; one action per command: the probe (`ProbeCreate` ... `SweepSet`), the build (`EnsureSet` ... `AddRule`), the teardown (`Unjump` ... `DeleteSet`), each of which may be refused; `Record`; `Cut`, `Reboot`, `Crash`; the settings |
| `Update` | `guardium-update.sh`, `install.sh`, `dns-dashboard.service`, `version.py`, the version handlers of `app.py` | `checkout`, `head`, `deps`: the install directory; `stamp`: `version.json`; `running`, `up`: the process; `run`: the script; `cache`, `dismissed`: the settings; `check`: checks under way | one action per step of the script and one per way in which it fails, `Kill`; `Crash`; `Ask`, `Answer`, `SaveCache`, `SaveError`, `Dismiss`; `Commit` |

Conventions. An action is what the code does between two awaits. A definition
whose comment starts with "Wrong:" is a plausible mistake in the definition
below it and is used by no specification; `PROJECT.json` ("mutants") names, for
each property, the mistake that breaks it. History variables (`assigned`,
`hand`, `stale`, `fresh`, `settled`, `credited`, `unsure`, `exposed`, `touched`,
`forked`, `lone`, `vetted`, `disturbed`) record what happened and guard no
action. Some of them mark what the code is known to lose (`stale`, `unsure`,
`exposed`, `touched`, `forked`, `disturbed`): a property that speaks of them
promises nothing there, says so in its comment, and section 3 says what is lost. `Overrides`,
`StickyDevices`, `ProfileSync`, `Reconciler`, `AsusRules`, `AsusDoh`, `UnifiRule` and `Update`
are instantiated by their `.cfg` files alone; `MCLeaseFollow` adds a symmetry,
and `MCHousehold` the definitions that a `.cfg` cannot give.

Abstractions worth knowing:

* `Reconciler`: the two catch-all keys behave alike and are one; each profile
  names one managed group; a device has a base profile and a set of overrides
  that outrank it, one of which outranks the others (which, and the schedules,
  quotas and owners, is `Household`'s business). A pass moves at most one row to
  a new lease (`LeaseFollow` has the passes that move several). The router
  session is one await.
* `LeaseFollow`: a row's `base` stands for every column the migration merges
  the same way; daily and per-app usage are one counter.
* `Overrides`: time is in minutes, and the lengths of a day and a week are
  parameters, so that TLC can go through whole weeks and the proofs hold for
  weeks of seven days of 1440 minutes as for any other.
* `Household`: `Crash` is modelled where it parts the statements of
  `delete_person`; elsewhere it leaves the tables as another legal call would.
* `AsusRules`: names, schedules and modes of entries are left out, the custom
  DNS address is configured; a failed login or client list means that the pass
  does nothing on the router and is the same as not beginning it.
* `UnifiRule`: a rule is enabled exactly when it blocks some device, so that is
  left out; so are the user's own rules, a rule renamed by hand, the session
  (a refused request is repeated once after a new login) and a change of
  controller or site. The hash of a body is the body. Reading the toggle, the
  applications and the record are steps of their own, which only adds orders.
* `AsusDoh`: the three rules of a device stand and fall together, and the
  addresses of the servers are all in the set or none is. A repeated rule
  is not told from one. Connecting and asking for `ipset` are one with the
  first command of the probe. An adapter exists only with a password, and that
  is the SSH password when no other is set, so the branch for missing SSH
  credentials cannot be taken and is left out.
* `Update`: a commit is its place in the channel's history and one of good,
  sick (does not come up) and broken (cannot be installed). A service whose
  dependencies are those of another commit may or may not come up. The
  installer restarts the service too, just before the script does; that is one
  restart. One updater runs at a time: nothing in the script keeps two apart.

## 3. The runs

| Run | Properties | Bounds, and why they are enough |
|---|---|---|
| `ReconcilerSafety` | `TypeOK` `AdminWorkKept` `ChoiceKept` `SettledMeansApplied` `EventuallyApplied` `NetworkFollowsStore` | two addresses (a migration needs both), the loop and one request (the overlaps that matter are pairwise), three changes, the administrator at Technitium's console among them at any moment, one fault of any kind, starting from a pre-reconciler installation. By hand one address and the catch-all are mapped (`ConsoleKeys`): the addresses are alike |
| `LeaseFollow` | `TypeOK` `MacUnique` `FamilyPauseEnds` `MinutesConserved` `ProfilesStick` | three addresses (old, new and a third in the way), two devices, reports of up to two clients |
| `HouseholdRules` | `TypeOK` `NoDanglingMember` `WindowIsOpening` `PauseHolds` `PurgeIsInvisible` `NoFlapping` `CutStaysCut` | one device, one person, two rules at a time, a week of two days of three minutes: an overnight window, the wrap of the week, a quota on one day or both and a pause that outlives midnight all fit; `WindowIsOpening` is checked for every window, not only the scheduled one |
| `AsusRules` | `TypeOK` `HandRulesKept` `NothingForgotten` `EventuallyMirrored` | one device with a row and one without, two passes, both stages, two edits (a profile, a toggle, or either list edited on the router's pages, at any time and for either device), one fault of any kind |
| `UnifiRule` | `TypeOK` `AtMostOneRule` `RecordIsTrue` `EventuallyMirrored` | one device, which every profile puts in one stage, the other or none; two passes, both stages, two edits (a rule deleted or edited, new firmware, the toggle, a profile), one fault of any kind; ids for every rule that these can create |
| `AsusDoh` | `TypeOK` `NothingForgotten` `ProbesCleanUp` `EventuallyCovered` | two devices, so that a chain can be half filled; the loop and a request's pass, so that probes, builds and teardowns meet in every order; three edits (a profile, the stage on or off, the integration on or off), one fault of any kind |
| `Update` | `TypeOK` `GoodReleaseRuns` `InstalledIsRunning` `BannerTellsTruth` | three commits of every quality, so that a second update meets what the first one left; two runs with every option, one fault of any kind, the poll and one request to check now |

Every invariant and every action property of the passing runs is proved for
every value of these bounds (section 4); what TLC alone shows is liveness.

What the properties say is written above each of them. The ones a reader should
know first: once a pass that read the current store has ended, the map says what
the store says, whatever it overlapped with (`SettledMeansApplied`); whatever
was lost or overwritten before, it comes to say so again (`EventuallyApplied`);
it never says part of one moment and part of another (`NetworkFollowsStore`, a
refinement);
no save loses the administrator's own groups and entries, except what they
edited between its reading and its writing and an entry that a row claims
(`AdminWorkKept`); a
device keeps its profile, rules and minutes whatever lease it gets
(`ProfilesStick`, a refinement); what is set by hand for a person, or for a
device of nobody's, holds until its time is over (`PauseHolds`); a spent quota
stays spent until midnight or until a schedule takes over (`CutStaysCut`);
bedtime goes through midnight
without a gap (`NoFlapping`); the user's own router rules survive any passes,
failures and crashes, except an edit that a pass in flight undoes and a rule for
a device on the dashboard's record (`HandRulesKept`); whatever the dashboard has pushed it
remembers (`NothingForgotten`); a UniFi controller never has two rules of one
stage (`AtMostOneRule`), and a pass that sends nothing because nothing has
changed is right to (`RecordIsTrue`); a router whose record is empty holds
nothing of the DoH chain (`AsusDoh`'s `NothingForgotten`), and in the end the
chain covers exactly the filtered devices (`EventuallyCovered`); an update that
nobody disturbs ends with a release that works, the old one if need be
(`GoodReleaseRuns`).

### Fairness

`Reconciler`: the service's own work (`Loop`: start-up, then one pass of the
loop after the other) goes on, since some step of it is always possible: the
loop's `wait_for` has a timeout of 60 seconds, an awaited HTTP call has one too,
so it ends or fails, and systemd restarts the service. A handler's pass that
awaits is resumed likewise. Nothing is assumed about requests, people or faults; faults are
bounded in number. `AsusRules`, `UnifiRule`: the same for the loop's pass and
for every pass that has begun; none is assumed to succeed. `AsusDoh`: likewise,
but its commands have no timeout of their own (`ssh_client.py:143`): that a
pass gets an answer or an error rests on TCP finding a dead connection, and a
router that accepts a command and never answers would hold up the loop for good.
`Update`: a script that runs goes on until it is killed, and the service polls
again and again (`_run` waits with a timeout); neither is assumed to succeed,
nor anybody to run the script. The other specifications state no fairness and
no liveness.

### Where the code and its documentation differ

| Run | Property | What TLC shows |
|---|---|---|
| `ReconcilerCatchAll` | `CatchAllKept` | the orphan pass drops the catch-all entries that start-up has just seeded |
| `ReconcilerRestart` | `BaseIsUsersChoice` | a restart during a pause makes the paused profile the row's base profile |
| `LeaseReuse` | `ProfilesStick` | two devices that swap leases swap profiles; a guest at a free lease inherits one |
| `HouseholdPaused` | `PauseCuts` | a paused tablet is online again when a schedule opens for its owner or for the household |
| `AsusOverlap` | `TheirRulesRespected` | a rule that the user has made on the router for a device the dashboard blocks too is respected by one pass and overwritten by the next |

Smaller ones, met while modelling and left without a run. `overrides.py:14-19`
lists quotas above schedules, but `resolve_target` looks at schedules first
(`overrides.py:139-150`), so an open "homework" schedule lifts a spent quota
(`CutStaysCut` allows for it). The same list puts what is set by hand above
every baseline, and "source priority still beats baseline ordering"
(`overrides.py:174-175`), but of a device and its owner the more restrictive
wins unless something is in force for the owner
(`merge_person_into_device`): a device put on `unrestricted` by hand stays on
its owner's `kids` base profile, and anything set by hand for it, a schedule or
spent quota of the owner's replaces. `PauseHolds` is therefore about people and
about devices of nobody's only, and `PauseCuts` shows the worst case.
A handler answers after its own pass, "so the
user sees their action take effect right away" (`app.py:375`), but a pass that
read the store earlier can save after it and undo it until the next minute
(`SettledMeansApplied` ends there). The description of a UniFi rule says that
changes made by hand "will be overwritten on the next reconcile tick"
(`traffic_rule.py:38-41`), but a pass that finds the record unchanged sends
nothing, so such a change stays until the wanted set changes (`touched`).
A pass writes the whole configuration of Technitium back as it was one await
earlier (`reconciler.py:389-426`): a group or a mapping that the administrator
saves in the console in between is lost, although the pass means to "leave
hand-curated mappings alone" (`reconciler.py:404`). `AdminWorkKept` lets them
save at any moment and gives up exactly what such a save overtakes
(`Overtaken`). A backfill that fails at start-up after an
upgrade lets the first pass clear the old mappings for good (`BackfillFails`,
which gives these choices up). The README (340-341) promises that everything added to the router
can be removed cleanly: an ASUS entry whose push is parted from its record by a
crash, a lost answer or a second pass cannot (`unsure`), and neither the
`enabled` switch nor a change of vendor takes anything down
(`registry.py:58`).

User rules on an ASUS router. What `AsusOverlap` shows comes of one line: a pass
records every address it wanted, that of a rule it respected too
(`routers/asus/__init__.py:206`), against "respect their rule rather than trample
it" (`http_client.py:536-537`). And a list is written back whole, as it was read
one await earlier (`http_client.py:570`), so that an edit on the router's pages
in between is undone. `HandRulesKept` lets the user edit either list at any time
and for any device, and gives up exactly these two (`exposed`): an address that is
edited while a pass holds a copy, and a rule for an address that is or comes to be
on record.

The DoH chain: the firewall is not always "back to exactly the user's
pre-dashboard state" (`ssh_client.py:307`), because a first push that ends half
way is on no record and the answers of a teardown are not looked at
(`"chain" \in unsure`); two passes can make FORWARD jump twice, where the code
wants it "exactly once" (`ssh_client.py:224`), and one teardown then removes
one jump; and every pass flushes the chain and adds its rules one by one, so
that for a moment each minute a filtered device is not covered. The skip of an
unchanged push never applies: the adapter is new in every pass
(`routers/asus/__init__.py:101-106`).

Updates. In an install directory that is not a checkout the bootstrap moves
the files to the tip of the channel before the script looks what is installed
(`guardium-update.sh:101-104`), so it says "already up to date" without
installing, restarting or stamping anything, also under `--check`, which should
not "apply anything"; the dashboard then reports the tip while the old code
runs. If the fetch of the bootstrap fails, an empty `.git` stays behind, and
every later run dies at `git rev-parse HEAD` (`checkout = "empty"`). An update
that is killed after its reset, or that was told not to roll back, is not taken
up by the next run, which finds nothing to do until a newer commit arrives. All
of these but the empty `.git` are what `disturbed` stands for. A dismissed
update comes back as news when an older answer is stored after a newer one,
until the next poll; polls come every six hours (`version.py:41`), not "every
~30 minutes" (README.md:747).

## 4. The proofs

TLAPS checks them for every value of the constants that satisfies the
assumption named in each module. `*Proofs` modules extend the module they are
about; each has the type invariant first, one lemma per action or group of
actions, then one section per property.

| Theorem | Assumes | Why it holds |
|---|---|---|
| `ReconcilerProofs!TypeCorrect`, `LeaseTypeCorrect`, `AsusTypeCorrect`, `DohTypeCorrect`, `UnifiTypeCorrect`, `UpdateTypeCorrect` | | step by step |
| `HouseholdTypeCorrect` | `Devices` finite | step by step; inductive only together with `NoDanglingMember`, since attaching and deleting rest on each other; a table loses rows by `OnlyType` |
| `SettledIsApplied` | | a pass that nothing has changed under holds the result of the present store (`FreshIsCurrent`), and what it is about to save is the reconciled form of some configuration for that result (`PushIsReconciled`); that form says what the store says whatever it started from |
| `PassesFollowTheStore` | | what is Guardium's in a reconciled map is what the pass has read, whatever the map was (`ManagedReconciled`); so ending a pass is `Publish` or `GiveUp`, everything else before it but the reading changes nothing, and start-up's copy differs from the map by the seeded catch-all alone (`SeedInv`). No assumption on the console: a stale save loses entries made by hand, never a part of ours |
| `AdminWorkIsKept` | | every copy in flight still has the administrator's groups and entries, except those a row claims and those changed since it was read (`CopiesKeepAdminWork`), and a save gives up no more than that (`Overtaken`) |
| `ChoiceIsKept` | | until the backfill has run, a choice is in the row or in the map, and no pass runs (`QuietStart`, `ChoicesHeld`); a backfill that fails gives up those that are in the map alone |
| `OneRowPerMac` | | inductive as it stands: both ways of giving a row a MAC check or vacate the other rows |
| `FamilyPauseCanEnd` | | inductive as it stands |
| `ProfilesStickToDevices` | `AddressReuse = FALSE` | every client still in the report is free to take its address (`ReportFree`), which a move or a stamp of another client does not change; then each step of the rows is a step of `StickyDevices` or a stutter |
| `ActiveIsOpening`, `WindowsAreOpenings` | | division and remainder by the length of a day, case by case; the last opening that can still matter is today's or yesterday's |
| `ActiveUntilBoundary` | | from `ActiveIsOpening` at both minutes: the openings that matter at `t - 1` and at `t` are those of the same two days |
| `DroppingTheDead`, `PurgeChangesNothing` | | `Only` is an order isomorphism (`PlaceIsBijective`), so what is in force stands in the same order after a purge, and `Strongest` picks the same row; the other tables are untouched |
| `PausesHold` | | each step of another target's, a purge and a `DELETE` included, keeps the top row of a target and puts none above it (`TopIsKept`, `HeldStays`); a row set by hand that is on top is what `Resolve` and the merge answer with (`ManualResolves`, `ManualMerges`) |
| `NothingFlaps` | | where no boundary is, the rows in force, the open schedules and the spent quotas are the same at both minutes, for devices and people alike (`QuietMinute`, `SameTraces`) |
| `SpentStaysSpent` | | within a day a person's minutes never shrink and a spent quota stays spent (`CutPersists`); no override in force can appear without a handler |
| `NoMinuteLost` | | the invariant counts pairs of an address and the number of a minute there; a move maps those of the old address one to one behind those of the new (`MovedMinutes`), so the count stays |
| `NobodyDangles` | | until "detach" is behind it, the deletion has not removed the person's row; attaching is only to people who are there |
| `HandRulesAreKept` | | for an address that is not exposed, the list and every copy about to be written show exactly what the user has left there, and no rule of theirs is on record or taken by a pass for one of the dashboard's (`Safe`, `HandInv`) |
| `NothingIsForgotten` | | in a stage that is sure, one pass at a time is between reading the record and replacing it; it knows the record, its copy shows nothing pushed outside it, and what it has written is within what it will record (`RecordInv`) |
| `RulesAreUnique` | | a pass alone in its stage knows which rule, if any, there is: the one it holds before and after a push, none before it creates one, the one on record otherwise (`Knows`, `OnRecord`); where two passes meet, both have marked the stage (`Shared`) |
| `RecordsAreTrue` | | no id on record or in a pass's hands is of the other stage's rule (`OwnRules`), so only the stage's own pass changes its rule; what that pass will record is what it has pushed (`Written`) |
| `DohNothingForgotten` | `Kicks` finite | while the chain is sure, at most one pass is at work on it (`Alone`) and there is at most one jump to it; a pass builds exactly if it wants some device (`Wanting`), so what it builds will be recorded; and at each command of a teardown everything that the earlier ones take away is gone (`Ready`), since a refusal would have been marked |
| `DohProbesCleanUp` | `Kicks` finite | there are never more probe rules than passes that have put one in and not yet taken one out, counted as a cardinality (`Holding`), and never a set without a probe under way |
| `GoodReleasesRun`, `InstalledIsWhatRuns` | | only commits that come up are ever seen up (`OnlyGoodComeUp`); at each step of the script the files, the dependencies and the process are those of the commit it is at (`OnCourse`), also after earlier disturbances; an undisturbed run has a vetted commit to go back to, and `version.json` still names that one (`WayBack`) |

What the proofs changed in the model. The proof of `NothingFlaps` failed on
windows that start at 24:00, which the editor allows: they open at the first
minute of the next day, and `Opens` had looked at the present day alone, so that
the property was false of them, unseen by TLC because no window of the runs
starts then; it now counts an opening of yesterday's. What a
`DELETE` leaves is `Only`, which says where each remaining row comes, instead of
a selection by a recursive function, about which nothing can be proved here;
TLC finds the same states with either. `MinutesConserved` counts minutes
instead of adding them up, for the same reason.

Only model-checked: the liveness properties (`EventuallyApplied`,
`EventuallyMirrored` of both adapters, `EventuallyCovered`,
`BannerTellsTruth`), since fairness and ENABLED are beyond the prover. The five
runs that disagree with the documentation show that `CatchAllKept`,
`BaseIsUsersChoice`, `ProfilesStick` with reused addresses, `PauseCuts` and
`TheirRulesRespected` are no theorems.

## 5. Not modelled, and the plan

What could follow, in this order:

1. `ProfileSync` for the router stages. A UniFi rule is replaced whole, as
   Technitium's map is, but can be edited by hand; an ASUS list keeps entries
   whose record was lost, and a DoH chain is rebuilt rule by rule, so these need
   weaker promises.
2. The sampler's window: the last hour read every five minutes, the bucket that
   spans midnight; what a minute of quota is worth. `Household` takes any set of
   active devices as the answer, and so does not say.
3. Moving to another router: what stays on the one that is left.
4. A second updater at the same time, a change of channel, and the database,
   which a rollback leaves as the newer version has made it (its migrations
   only add columns).
5. The host name resolver: a lookup that was under way at an invalidation
   stores its old answer (`hostnames.py:97`). Names are only shown.

Left out for good: the profile and app catalogues (static data), fingerprinting
and the OUI table (pattern matching without state), the vault (a cipher), the
web interface (every rule is applied again by the server), the set-up scripts
(run by hand, once) and the installer's own steps, which are one in `Update`.
