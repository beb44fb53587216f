----------------------------- MODULE Reconciler -----------------------------
(***************************************************************************)
(* The reconciler and the Technitium configuration it keeps in step with    *)
(* the dashboard's store (server/reconciler.py, the start-up sequence of    *)
(* server/app.py, the device table of server/store.py).                     *)
(*                                                                          *)
(* All of the dashboard runs on one asyncio loop: code between two awaits   *)
(* is one atomic step, and passes of the reconciler interleave only where   *)
(* they await the router or Technitium.  Nothing serialises them: the       *)
(* background loop runs one, and every mutating request handler runs its    *)
(* own before it answers.                                                   *)
(*                                                                          *)
(* A pass goes   idle -> session -> apply -> push -> idle:                  *)
(*   session  expired overrides purged, waiting for the router session      *)
(*   apply    store read and resolved, waiting for getAppConfig             *)
(*   push     new map computed, waiting for setAppConfig, which replaces    *)
(*            the WHOLE configuration with the pass's own copy              *)
(*                                                                          *)
(* What a device should be on is resolved in module Overrides; here a       *)
(* device has a base profile and overrides that outrank it, one of which    *)
(* (always the same one, whichever it is) outranks the others.              *)
(***************************************************************************)
EXTENDS Naturals

CONSTANTS
    IPs,            \* addresses a device row may be keyed by
    CatchAll,       \* the "0.0.0.0/0" and "[::]/0" keys, which behave alike
    Profiles,       \* built-in profiles; each names one managed group
    DefaultProfile, \* the profile whose group the catch-all is seeded with
    UserGroups,     \* groups the administrator creates in Technitium's console
    None,           \* no profile, no map entry
    ConsoleKeys,    \* bound: the addresses the administrator maps by hand
    Background,     \* the pass run by the 60-second loop
    Kicks,          \* the passes run by request handlers
    Faults,         \* which faults the environment may inject
    Legacy,         \* start from a pre-reconciler installation?
    MaxEdits,       \* bound on changes made by people and by the clock
    MaxFaults       \* bound on injected faults

AllFaults == {"fetch", "push", "lostAnswer", "seed", "backfill", "crash"}

ASSUME ConstantsAssumption ==
    /\ DefaultProfile \in Profiles
    /\ CatchAll \notin IPs
    /\ None \notin Profiles \cup UserGroups
    /\ Profiles \cap UserGroups = {}
    /\ ConsoleKeys \subseteq IPs \cup {CatchAll}
    /\ Background \notin Kicks
    /\ Faults \subseteq AllFaults
    /\ Legacy \in BOOLEAN
    /\ UserGroups \cap (IPs \cup {CatchAll}) = {}
    /\ MaxEdits \in Nat /\ MaxFaults \in Nat

VARIABLES
    rows,       \* IPs that have a row in table devices
    base,       \* devices.base_profile_id
    over,       \* device_overrides: the overrides of an IP
    config,     \* Technitium's Advanced Blocking configuration
    phase,      \* how far the service has started
    pc,         \* where each pass is
    eff,        \* the effective profile of each row, as a pass resolved it
    copy,       \* the configuration a pass (or start-up) is about to save
    edits,      \* changes made so far, up to MaxEdits
    faults,     \* faults injected so far, up to MaxFaults
    assigned,   \* history: the profile the user last chose for a row, if not given up
    hand,       \* history: what the administrator saved by hand, if not overtaken
    stale,      \* history: what they changed since a copy in flight was read
    fresh,      \* history: has nothing changed since the pass read the store?
    settled     \* history: has a pass finished since the last change?

vars == <<rows, base, over, config, phase, pc, eff, copy, edits, faults,
          assigned, hand, stale, fresh, settled>>

history == <<assigned, hand, stale, fresh, settled>>

-----------------------------------------------------------------------------

Ticks  == {Background} \cup Kicks
Keys   == IPs \cup {CatchAll}
Choice == Profiles \cup {None}
Entry  == Profiles \cup UserGroups \cup {None}

Override == [profile : Profiles, live : BOOLEAN]
Config   == [map : [Keys -> Entry], groups : SUBSET UserGroups]

\* What a pass resolved: a profile or None for each device row it saw.
Resolved == UNION {[S -> Choice] : S \in SUBSET IPs}

\* Which of an IP's overrides wins; module Overrides says by which rules.
Strongest(os) == CHOOSE o \in os : TRUE

\* The profile each row should be on: an override outranks its base profile.
\* Overrides that expired after the pass purged still count for that pass,
\* which compares them with the time it started at.
Effective(rs, b, o) == [ip \in rs |-> IF o[ip] # {} THEN Strongest(o[ip]).profile
                                                    ELSE b[ip]]

\* What a pass asks for at a key: nothing where there is no row or no profile.
Wanted(e, k) == IF k \in DOMAIN e THEN e[k] ELSE None

\* Wrong variants of a definition stand before it; with one of them in place
\* of the right one, a property of this module must fail.

\* Wrong: without the orphan pass, keys no row has keep their managed group.
ReconciledWithOrphans(m, e) ==
    [k \in Keys |-> IF Wanted(e, k) # None THEN Wanted(e, k)
                    ELSE IF k \in DOMAIN e /\ m[k] \in Profiles THEN None
                    ELSE m[k]]

\* Wrong: whatever nobody wants is dropped, the administrator's entries too.
ReconciledDroppingAll(m, e) == [k \in Keys |-> Wanted(e, k)]

\* The map _apply computes: wanted groups are written, managed groups that
\* are not wanted (or whose key has no row at all) are dropped, and every
\* other entry is left as it is.
Reconciled(m, e) ==
    [k \in Keys |-> IF Wanted(e, k) # None THEN Wanted(e, k)
                    ELSE IF m[k] \in Profiles THEN None
                    ELSE m[k]]

Purged(o) == [ip \in IPs |-> {row \in o[ip] : row.live}]

\* The catch-all is added when it is missing, everything else is kept.
Seeded(c) == [c EXCEPT !.map[CatchAll] = IF @ = None THEN DefaultProfile
                                                     ELSE @]

\* Wrong: a row's own profile does not stop the backfill.
BackfilledOverChoices(m) ==
    [ip \in IPs |-> IF ip \in rows /\ m[ip] \in Profiles THEN m[ip] ELSE base[ip]]

\* Wrong: entries for groups that name no profile are promoted too.
BackfilledFromAnyGroup(m) ==
    [ip \in IPs |-> IF ip \in rows /\ base[ip] = None THEN m[ip] ELSE base[ip]]

\* The profile a row is given by the backfill: the managed group the map has
\* for it, if the row has no profile of its own.
Backfilled(m) == [ip \in IPs |-> IF ip \in rows /\ base[ip] = None
                                    /\ m[ip] \in Profiles
                                 THEN m[ip] ELSE base[ip]]

-----------------------------------------------------------------------------

NoConfig == [map |-> [k \in Keys |-> None], groups |-> {}]
Nothing  == [ip \in {} |-> None]

Init ==
    /\ rows \in SUBSET IPs
    /\ base = [ip \in IPs |-> None]
    /\ over = [ip \in IPs |-> {}]
    /\ \E m \in [IPs -> IF Legacy THEN Choice ELSE {None}] :
          /\ config = [map |-> [k \in Keys |-> IF k \in IPs THEN m[k] ELSE None],
                       groups |-> {}]
          /\ assigned = [ip \in IPs |-> IF ip \in rows THEN m[ip] ELSE None]
    /\ phase = "seed"
    /\ pc = [t \in Ticks |-> "idle"]
    /\ eff = [t \in Ticks |-> Nothing]
    /\ copy = [t \in Ticks |-> NoConfig]
    /\ edits = 0 /\ faults = 0
    /\ hand = NoConfig
    /\ stale = [t \in Ticks |-> {}]
    /\ fresh = [t \in Ticks |-> FALSE]
    /\ settled = FALSE

\* Anything that changes what the map should say voids what passes have read.
Changed == /\ fresh' = [t \in Ticks |-> FALSE]
           /\ settled' = FALSE

\* What is left of the administrator's work when a copy is saved that was read
\* before they changed what is in `since`: such a save puts back the old.
Overtaken(since) ==
    [map    |-> [k \in Keys |-> IF k \in since THEN None ELSE hand.map[k]],
     groups |-> hand.groups \ since]

Fault(f) == /\ f \in Faults
            /\ faults < MaxFaults
            /\ faults' = faults + 1

-----------------------------------------------------------------------------
(* Start-up: seed the managed groups and the catch-all, promote map entries *)
(* to base profiles, then start the loop.  No request is served before.     *)

SeedRead ==
    /\ phase = "seed"
    /\ phase' = "seedPush"
    /\ copy' = [copy EXCEPT ![Background] = Seeded(config)]
    /\ UNCHANGED <<rows, base, over, config, pc, eff, edits, faults, history>>

SeedPush ==
    /\ phase = "seedPush"
    /\ phase' = "backfill"
    /\ config' = copy[Background]
    /\ copy' = [copy EXCEPT ![Background] = NoConfig]
    /\ hand' = Overtaken(stale[Background])
    /\ stale' = [stale EXCEPT ![Background] = {}]
    /\ Changed
    /\ UNCHANGED <<rows, base, over, pc, eff, edits, faults, assigned>>

\* Either call fails: logged, and the start-up continues.
SeedFails ==
    /\ phase \in {"seed", "seedPush"}
    /\ Fault("seed")
    /\ phase' = "backfill"
    /\ copy' = [copy EXCEPT ![Background] = NoConfig]
    /\ stale' = [stale EXCEPT ![Background] = {}]
    /\ UNCHANGED <<rows, base, over, config, pc, eff, edits, assigned, hand,
                   fresh, settled>>

Backfill ==
    /\ phase = "backfill"
    /\ phase' = "up"
    /\ base' = Backfilled(config.map)
    /\ Changed
    /\ UNCHANGED <<rows, over, config, pc, eff, copy, edits, faults,
                   assigned, hand, stale>>

\* The map cannot be read: nothing is promoted, and the loop starts anyway.  A
\* choice that only the map knew is given up, as the first pass will clear it.
BackfillFails ==
    /\ phase = "backfill"
    /\ Fault("backfill")
    /\ phase' = "up"
    /\ assigned' = [ip \in IPs |-> IF base[ip] = assigned[ip] THEN assigned[ip] ELSE None]
    /\ UNCHANGED <<rows, base, over, config, pc, eff, copy, edits, hand, stale,
                   fresh, settled>>

\* The process dies.  Passes and their copies are gone; the store and
\* Technitium keep what they had.  systemd starts it again.
Crash ==
    /\ Fault("crash")
    /\ phase' = "seed"
    /\ pc' = [t \in Ticks |-> "idle"]
    /\ eff' = [t \in Ticks |-> Nothing]
    /\ copy' = [t \in Ticks |-> NoConfig]
    /\ stale' = [t \in Ticks |-> {}]
    /\ Changed
    /\ UNCHANGED <<rows, base, over, config, edits, assigned, hand>>

-----------------------------------------------------------------------------
(* A pass of the reconciler.                                                *)

\* Purging is the first thing a pass does, before it awaits anything.
Begin(t) == pc' = [pc EXCEPT ![t] = "session"]

StartLoopPass ==
    /\ phase = "up" /\ pc[Background] = "idle"
    /\ Begin(Background)
    /\ over' = Purged(over)
    /\ IF over' = over THEN UNCHANGED <<fresh, settled>> ELSE Changed
    /\ UNCHANGED <<rows, base, config, phase, eff, copy, edits, faults,
                   assigned, hand, stale>>

\* The router session has answered: rows whose MAC moved to another lease are
\* migrated, then the store is read and resolved.  The overrides of both IPs
\* end at the new one.  A pass moves at most one device here; module LeaseFollow
\* has the passes that move several.
Migrate(old, new) ==
    /\ old \in rows /\ old # new
    /\ edits < MaxEdits
    /\ edits' = edits + 1
    /\ rows' = (rows \ {old}) \cup {new}
    /\ base' = [base EXCEPT ![new] = IF base[old] # None THEN base[old] ELSE @,
                            ![old] = None]
    /\ over' = [over EXCEPT ![new] = over[old] \cup over[new], ![old] = {}]
    /\ assigned' = [assigned EXCEPT
                        ![new] = IF base[old] # None THEN assigned[old] ELSE @,
                        ![old] = None]

\* Wrong: profiles are resolved before the rows have moved to their new leases.
ReadStoreBeforeMoving(t) ==
    /\ pc[t] = "session"
    /\ pc' = [pc EXCEPT ![t] = "apply"]
    /\ \/ /\ \E old, new \in IPs : Migrate(old, new)
          /\ fresh' = [u \in Ticks |-> u = t]
          /\ settled' = FALSE
       \/ /\ fresh' = [fresh EXCEPT ![t] = TRUE]
          /\ UNCHANGED <<rows, base, over, edits, assigned, settled>>
    /\ eff' = [eff EXCEPT ![t] = Effective(rows, base, over)]
    /\ UNCHANGED <<config, phase, copy, faults, hand, stale>>

ReadStore(t) ==
    /\ pc[t] = "session"
    /\ pc' = [pc EXCEPT ![t] = "apply"]
    /\ \/ /\ \E old, new \in IPs : Migrate(old, new)
          /\ fresh' = [u \in Ticks |-> u = t]
          /\ settled' = FALSE
       \/ /\ fresh' = [fresh EXCEPT ![t] = TRUE]
          /\ UNCHANGED <<rows, base, over, edits, assigned, settled>>
    /\ eff' = [eff EXCEPT ![t] = Effective(rows', base', over')]
    /\ UNCHANGED <<config, phase, copy, faults, hand, stale>>

\* The pass is over; a handler that awaited it answers its request.
Finish(t) ==
    /\ pc' = [pc EXCEPT ![t] = "idle"]
    /\ eff' = [eff EXCEPT ![t] = Nothing]
    /\ copy' = [copy EXCEPT ![t] = NoConfig]
    /\ stale' = [stale EXCEPT ![t] = {}]
    /\ fresh' = [fresh EXCEPT ![t] = FALSE]

\* getAppConfig answers.  Nothing is written back when nothing changed.
Fetch(t) ==
    LET m == Reconciled(config.map, eff[t]) IN
    /\ pc[t] = "apply"
    /\ IF m = config.map
       THEN Finish(t) /\ settled' = (settled \/ fresh[t])
       ELSE /\ pc' = [pc EXCEPT ![t] = "push"]
            /\ copy' = [copy EXCEPT ![t] = [config EXCEPT !.map = m]]
            /\ UNCHANGED <<eff, stale, fresh, settled>>
    /\ UNCHANGED <<rows, base, over, config, phase, edits, faults,
                   assigned, hand>>

\* Wrong: the error escapes the pass and with it the loop that runs it.
FetchFailsForGood(t) ==
    /\ pc[t] = "apply"
    /\ Fault("fetch")
    /\ pc' = [pc EXCEPT ![t] = "dead"]
    /\ UNCHANGED <<rows, base, over, config, phase, eff, copy, edits, history>>

FetchFails(t) ==
    /\ pc[t] = "apply"
    /\ Fault("fetch")
    /\ Finish(t)
    /\ UNCHANGED <<rows, base, over, config, phase, edits, assigned, hand,
                   settled>>

\* setAppConfig is carried out.  Where the pass wanted a profile it takes an
\* entry over from the administrator, and what they changed since the copy was
\* read is overwritten.  A save computed from a store that has changed since
\* unsettles the map.
Save(t) ==
    /\ config' = copy[t]
    /\ settled' = fresh[t]
    /\ hand' = Overtaken(stale[t] \cup {k \in Keys : Wanted(eff[t], k) # None})

Push(t) ==
    /\ pc[t] = "push"
    /\ Save(t)
    /\ Finish(t)
    /\ UNCHANGED <<rows, base, over, phase, edits, faults, assigned>>

\* The call fails before it is carried out, or its answer is lost after.
PushFails(t) ==
    /\ pc[t] = "push"
    /\ \/ Fault("push") /\ UNCHANGED <<config, hand, settled>>
       \/ Fault("lostAnswer") /\ Save(t)
    /\ Finish(t)
    /\ UNCHANGED <<rows, base, over, phase, edits, assigned>>

-----------------------------------------------------------------------------
(* Request handlers: change the store, then run a pass and answer.          *)

Edit == phase = "up" /\ edits < MaxEdits /\ edits' = edits + 1

\* The handler's own pass starts in the same step: it purges, then awaits.
Kick(o) ==
    /\ \E t \in Kicks : pc[t] = "idle" /\ Begin(t)
    /\ over' = Purged(o)
    /\ Changed

SetProfile(ip, p) ==
    /\ Edit
    /\ rows' = rows \cup {ip}
    /\ base' = [base EXCEPT ![ip] = p]
    /\ assigned' = [assigned EXCEPT ![ip] = p]
    /\ Kick(over)
    /\ UNCHANGED <<config, phase, eff, copy, faults, hand, stale>>

\* An override does not create a row: pausing an unknown IP has no effect yet.
Pause(ip, p) ==
    /\ Edit
    /\ Kick([over EXCEPT ![ip] = {[profile |-> p, live |-> TRUE]}])
    /\ UNCHANGED <<rows, base, config, phase, eff, copy, faults, assigned, hand,
                   stale>>

Resume(ip) ==
    /\ Edit
    /\ Kick([over EXCEPT ![ip] = {}])
    /\ UNCHANGED <<rows, base, config, phase, eff, copy, faults, assigned, hand,
                   stale>>

\* The overview page records every client Technitium has seen; no pass is run.
Touch(ip) ==
    /\ Edit
    /\ ip \notin rows
    /\ rows' = rows \cup {ip}
    /\ Changed
    /\ UNCHANGED <<base, over, config, phase, pc, eff, copy, faults,
                   assigned, hand, stale>>

-----------------------------------------------------------------------------
(* The clock and the administrator at Technitium's own console.             *)

Expire(ip) ==
    /\ edits < MaxEdits /\ edits' = edits + 1
    /\ \E o \in over[ip] :
          /\ o.live
          /\ over' = [over EXCEPT ![ip] = (@ \ {o}) \cup {[o EXCEPT !.live = FALSE]}]
    /\ Changed
    /\ UNCHANGED <<rows, base, config, phase, pc, eff, copy, faults,
                   assigned, hand, stale>>

\* A pass, or start-up, holds a copy of the configuration that it will save.
HoldsCopy(t) == pc[t] = "push" \/ (phase = "seedPush" /\ t = Background)

\* The administrator creates a group of their own and maps an address to it,
\* or takes the mapping away again, at any moment: a copy in flight does not
\* know.  Entries Guardium manages are not touched.
MapByHand(k, g) ==
    /\ edits < MaxEdits /\ edits' = edits + 1
    /\ config.map[k] \notin Profiles /\ config.map[k] # g
    /\ config' = [map    |-> [config.map EXCEPT ![k] = g],
                  groups |-> config.groups \cup ({g} \ {None})]
    /\ hand' = [map    |-> [hand.map EXCEPT ![k] = g],
                groups |-> hand.groups \cup ({g} \ {None})]
    /\ stale' = [t \in Ticks |-> IF HoldsCopy(t)
                                 THEN stale[t] \cup {k} \cup (hand'.groups \ hand.groups)
                                 ELSE stale[t]]
    /\ Changed
    /\ UNCHANGED <<rows, base, over, phase, pc, eff, copy, faults, assigned>>

-----------------------------------------------------------------------------

StartUp == SeedRead \/ SeedPush \/ SeedFails \/ Backfill \/ BackfillFails

Pass(t) == ReadStore(t) \/ Fetch(t) \/ FetchFails(t) \/ Push(t) \/ PushFails(t)

Requests == \E ip \in IPs :
    \/ \E p \in Choice : SetProfile(ip, p)
    \/ \E p \in Profiles : Pause(ip, p)
    \/ Resume(ip)
    \/ Touch(ip)

Environment ==
    \/ \E ip \in IPs : Expire(ip)
    \/ \E k \in ConsoleKeys, g \in UserGroups \cup {None} : MapByHand(k, g)
    \/ Crash

Next ==
    \/ StartUp
    \/ StartLoopPass
    \/ \E t \in Ticks : Pass(t)
    \/ Requests
    \/ Environment

\* What the service does by itself: it starts, then its loop runs a pass, and
\* the next.  One of these steps is possible at any time.
Loop == StartUp \/ StartLoopPass \/ Pass(Background)

\* The event loop keeps running whatever is ready: the service's own loop, and
\* passes of handlers whose awaited call has returned or timed out.  People,
\* the clock and faults are not obliged to act.
Fairness == WF_vars(Loop) /\ \A t \in Kicks : WF_vars(Pass(t))

Spec == Init /\ [][Next]_vars /\ Fairness

-----------------------------------------------------------------------------
(* Properties.                                                              *)

TypeOK ==
    /\ rows \in SUBSET IPs
    /\ base \in [IPs -> Choice]
    /\ over \in [IPs -> SUBSET Override]
    /\ config \in Config
    /\ phase \in {"seed", "seedPush", "backfill", "up"}
    /\ pc \in [Ticks -> {"idle", "session", "apply", "push"}]
    /\ eff \in [Ticks -> Resolved]
    /\ copy \in [Ticks -> Config]
    /\ edits \in Nat /\ faults \in Nat
    /\ assigned \in [IPs -> Choice]
    /\ hand \in Config
    /\ stale \in [Ticks -> SUBSET (Keys \cup UserGroups)]
    /\ fresh \in [Ticks -> BOOLEAN]
    /\ settled \in BOOLEAN

\* The map says what the store says, and nothing else that is Guardium's.
Applied ==
    LET want == Effective(rows, base, over) IN
    /\ \A ip \in rows : IF want[ip] # None THEN config.map[ip] = want[ip]
                                            ELSE config.map[ip] \notin Profiles
    /\ \A k \in Keys \ rows : config.map[k] \notin Profiles

(* Once a pass that read the current store has ended (whatever other passes
   it overlapped with), the map says what the store says, until something
   changes or a pass that read an older store saves after it.               *)
SettledMeansApplied == settled => Applied

(* Groups the administrator made, and addresses they mapped to them, are as
   they left them, whenever they edit, except where a device row asked for a
   profile: no pass, restart or failed call loses them, save one.  A save of a
   copy of the whole configuration that was read before the edit overwrites it
   (hand then gives up what was overwritten, and nothing else).              *)
AdminWorkKept ==
    /\ hand.groups \subseteq config.groups
    /\ \A k \in Keys : hand.map[k] \in UserGroups => config.map[k] = hand.map[k]

(* A profile the user chose for a row is that row's base profile whenever
   the service is up, across restarts, failed calls, lease changes and the
   upgrade from an installation that only had the map, unless the map cannot
   be read at the first start after the upgrade.                            *)
ChoiceKept ==
    phase = "up" => \A ip \in IPs : assigned[ip] # None => base[ip] = assigned[ip]

(* A row has the base profile its user chose and none otherwise: what an
   override put into the map for a while does not become a base profile.    *)
BaseIsUsersChoice == phase = "up" => \A ip \in IPs : base[ip] = assigned[ip]

(* Once start-up has seeded it, a pass leaves the catch-all mapped to some
   group, so a device nobody assigned a profile to still gets the default
   blocking.                                                                *)
CatchAllKept ==
    [][\A t \in Ticks : Pass(t) /\ config.map[CatchAll] = DefaultProfile =>
          config'.map[CatchAll] # None]_vars

(* The promise of ProfileSync, kept by the entries for Guardium's groups. *)
Said(e)    == [k \in Keys |-> Wanted(e, k)]
Managed(m) == [k \in Keys |-> IF m[k] \in Profiles THEN m[k] ELSE None]

wantedNow == Said(Effective(rows, base, over))
servedNow == Managed(config.map)
heldNow   == [t \in Ticks |-> IF pc[t] \in {"apply", "push"} THEN {Said(eff[t])} ELSE {}]

Sync == INSTANCE ProfileSync WITH wanted <- wantedNow, served <- servedNow, held <- heldNow

(* Whatever passes overlap, and whatever is lost, repeated or cut off, the
   entries that are Guardium's are those of one moment of the store: a pass that
   saves what it computed from an older map still publishes all that it has read
   and nothing else.                                                         *)
NetworkFollowsStore == Sync!Spec

(* When people, the clock and faults leave the system alone, the loop brings
   the map to what the store says, whatever was lost or overwritten before. *)
EventuallyApplied == <>[]Applied
=============================================================================
