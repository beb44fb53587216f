-------------------------- MODULE ReconcilerProofs --------------------------
(* What module Reconciler guarantees for every set of addresses, profiles,  *)
(* groups and handler passes, and for every bound.                          *)
EXTENDS Reconciler, TLAPS

(* What the operators return. *)

LEMMA EffectiveType ==
    ASSUME NEW rs \in SUBSET IPs,
           NEW b \in [IPs -> Choice], NEW o \in [IPs -> SUBSET Override]
    PROVE  Effective(rs, b, o) \in [rs -> Choice]
<1>1. ASSUME NEW ip \in rs, o[ip] # {} PROVE Strongest(o[ip]).profile \in Choice
  <2>1. Strongest(o[ip]) \in Override
    BY <1>1 DEF Strongest
  <2> QED
    BY <2>1 DEF Override, Choice
<1> QED
  BY <1>1 DEF Effective

LEMMA OvertakenType ==
    ASSUME hand \in Config, NEW since
    PROVE  Overtaken(since) \in Config
  BY DEF Overtaken, Config, Entry

LEMMA ResolvedMember ==
    ASSUME NEW rs \in SUBSET IPs, NEW e \in [rs -> Choice]
    PROVE  e \in Resolved
  BY DEF Resolved

LEMMA WantedType ==
    ASSUME NEW e \in Resolved, NEW k
    PROVE  Wanted(e, k) \in Choice
  BY DEF Resolved, Wanted, Choice

LEMMA ReconciledType ==
    ASSUME NEW m \in [Keys -> Entry], NEW e \in Resolved
    PROVE  Reconciled(m, e) \in [Keys -> Entry]
  BY WantedType DEF Reconciled, Entry, Choice

LEMMA PurgedType ==
    ASSUME NEW o \in [IPs -> SUBSET Override]
    PROVE  Purged(o) \in [IPs -> SUBSET Override]
  BY DEF Purged

LEMMA NothingType == Nothing \in Resolved /\ DOMAIN Nothing = {}
<1>1. Nothing \in [{} -> Choice] /\ {} \in SUBSET IPs
  BY DEF Nothing
<1> QED
  BY <1>1, ResolvedMember DEF Nothing

LEMMA ConsoleType == ConsoleKeys \subseteq Keys
  BY ConstantsAssumption DEF Keys

LEMMA NoConfigType == NoConfig \in Config
  BY DEF NoConfig, Config, Entry

-----------------------------------------------------------------------------
(* Types. *)

LEMMA TypeInit == Init => TypeOK
<1> SUFFICES ASSUME Init PROVE TypeOK
  OBVIOUS
<1> USE ConstantsAssumption
<1>1. PICK m \in [IPs -> IF Legacy THEN Choice ELSE {None}] :
         /\ config = [map |-> [k \in Keys |-> IF k \in IPs THEN m[k] ELSE None],
                      groups |-> {}]
         /\ assigned = [ip \in IPs |-> IF ip \in rows THEN m[ip] ELSE None]
  BY DEF Init
<1>2. \A ip \in IPs : m[ip] \in Choice /\ m[ip] \in Entry
  BY DEF Choice, Entry
<1>3. config \in Config
  BY <1>1, <1>2 DEF Config, Entry
<1>4. assigned \in [IPs -> Choice]
  BY <1>1, <1>2 DEF Choice
<1> QED
  BY <1>3, <1>4, NothingType, NoConfigType DEF Init, TypeOK, Choice

LEMMA TypeStep == TypeOK /\ [Next]_vars => TypeOK'
<1> SUFFICES ASSUME TypeOK, [Next]_vars PROVE TypeOK'
  OBVIOUS
<1> USE ConstantsAssumption
<1>1. CASE SeedRead
  <2>1. Seeded(config) \in Config
    BY DEF Seeded, TypeOK, Config, Entry, Keys
  <2> QED
    BY <1>1, <2>1 DEF SeedRead, TypeOK, history
<1>2. CASE SeedPush
  BY <1>2, NoConfigType, OvertakenType DEF SeedPush, Changed, TypeOK, Ticks
<1>3. CASE SeedFails
  <2>1. faults' \in Nat
    BY <1>3 DEF SeedFails, Fault, TypeOK
  <2>2. copy' \in [Ticks -> Config]
    BY <1>3, NoConfigType DEF SeedFails, TypeOK
  <2> QED
    BY <1>3, <2>1, <2>2 DEF SeedFails, TypeOK, history
<1>4. CASE Backfill
  <2>1. Backfilled(config.map) \in [IPs -> Choice]
    BY DEF Backfilled, TypeOK, Choice
  <2> QED
    BY <1>4, <2>1 DEF Backfill, Changed, TypeOK
<1>5. CASE BackfillFails
  <2>1. assigned' \in [IPs -> Choice]
    BY <1>5 DEF BackfillFails, TypeOK, Choice
  <2> QED
    BY <1>5, <2>1 DEF BackfillFails, Fault, TypeOK
<1>6. CASE StartLoopPass
  BY <1>6, PurgedType DEF StartLoopPass, Begin, Changed, TypeOK
<1>7. ASSUME NEW t \in Ticks, ReadStore(t) PROVE TypeOK'
  <2> DEFINE StoreOK == /\ rows \in SUBSET IPs /\ base \in [IPs -> Choice]
                        /\ over \in [IPs -> SUBSET Override]
                        /\ assigned \in [IPs -> Choice]
  <2>1. ASSUME NEW old \in IPs, NEW new \in IPs, Migrate(old, new)
        PROVE  StoreOK' /\ edits' \in Nat
    <3>1. edits' \in Nat
      BY <2>1 DEF Migrate, TypeOK
    <3>2. rows' \in SUBSET IPs
      BY <2>1 DEF Migrate, TypeOK
    <3>3. base' \in [IPs -> Choice] /\ assigned' \in [IPs -> Choice]
      BY <2>1 DEF Migrate, TypeOK, Choice
    <3>4. over' \in [IPs -> SUBSET Override]
      BY <2>1 DEF Migrate, TypeOK
    <3> QED
      BY <3>1, <3>2, <3>3, <3>4
  <2>2. StoreOK' /\ edits' \in Nat
    BY <1>7, <2>1 DEF ReadStore, TypeOK
  <2>3. settled' \in BOOLEAN /\ fresh' \in [Ticks -> BOOLEAN]
    BY <1>7 DEF ReadStore, TypeOK
  <2>4. Effective(rows', base', over') \in Resolved
    BY <2>2, EffectiveType, ResolvedMember
  <2> QED
    BY <1>7, <2>2, <2>3, <2>4 DEF ReadStore, TypeOK
<1>8. ASSUME NEW t \in Ticks, Finish(t)
      PROVE  /\ pc' \in [Ticks -> {"idle", "session", "apply", "push"}]
             /\ eff' \in [Ticks -> Resolved]
             /\ copy' \in [Ticks -> Config]
             /\ fresh' \in [Ticks -> BOOLEAN]
             /\ stale' \in [Ticks -> SUBSET (Keys \cup UserGroups)]
  BY <1>8, NothingType, NoConfigType DEF Finish, TypeOK
<1>9. ASSUME NEW t \in Ticks, Fetch(t) PROVE TypeOK'
  <2>1. Reconciled(config.map, eff[t]) \in [Keys -> Entry]
    BY ReconciledType DEF TypeOK, Config
  <2>2. [config EXCEPT !.map = Reconciled(config.map, eff[t])] \in Config
    BY <2>1 DEF TypeOK, Config
  <2>3. CASE Reconciled(config.map, eff[t]) = config.map
    BY <1>8, <1>9, <2>3 DEF Fetch, TypeOK
  <2>4. CASE Reconciled(config.map, eff[t]) # config.map
    BY <1>9, <2>2, <2>4 DEF Fetch, TypeOK
  <2> QED
    BY <2>3, <2>4
<1>10. ASSUME NEW t \in Ticks, FetchFails(t) PROVE TypeOK'
  BY <1>8, <1>10 DEF FetchFails, Fault, TypeOK
<1>11. ASSUME NEW t \in Ticks, Save(t)
       PROVE  config' \in Config /\ hand' \in Config /\ settled' \in BOOLEAN
  BY <1>11, OvertakenType DEF Save, TypeOK
<1>12. ASSUME NEW t \in Ticks, Push(t) PROVE TypeOK'
  BY <1>8, <1>11, <1>12 DEF Push, TypeOK
<1>13. ASSUME NEW t \in Ticks, PushFails(t) PROVE TypeOK'
  <2>1. config' \in Config /\ hand' \in Config /\ settled' \in BOOLEAN
        /\ faults' \in Nat
    BY <1>11, <1>13 DEF PushFails, Fault, TypeOK
  <2> QED
    BY <1>8, <1>13, <2>1 DEF PushFails, TypeOK
<1>edit. ASSUME Edit PROVE edits' \in Nat
  BY <1>edit DEF Edit, TypeOK
<1>14. ASSUME NEW o \in [IPs -> SUBSET Override], Kick(o)
       PROVE  /\ pc' \in [Ticks -> {"idle", "session", "apply", "push"}]
              /\ over' \in [IPs -> SUBSET Override]
              /\ fresh' \in [Ticks -> BOOLEAN] /\ settled' \in BOOLEAN
  BY <1>14, PurgedType DEF Kick, Begin, Changed, TypeOK
<1>15. ASSUME NEW ip \in IPs, NEW p \in Choice, SetProfile(ip, p) PROVE TypeOK'
  BY <1>14, <1>15, <1>edit DEF SetProfile, TypeOK
<1>16. ASSUME NEW ip \in IPs, NEW p \in Profiles, Pause(ip, p) PROVE TypeOK'
  <2>1. [over EXCEPT ![ip] = {[profile |-> p, live |-> TRUE]}]
           \in [IPs -> SUBSET Override]
    BY DEF TypeOK, Override
  <2> QED
    BY <1>14, <1>16, <1>edit, <2>1 DEF Pause, TypeOK
<1>17. ASSUME NEW ip \in IPs, Resume(ip) PROVE TypeOK'
  <2>1. [over EXCEPT ![ip] = {}] \in [IPs -> SUBSET Override]
    BY DEF TypeOK
  <2> QED
    BY <1>14, <1>17, <1>edit, <2>1 DEF Resume, TypeOK
<1>18. ASSUME NEW ip \in IPs, Touch(ip) PROVE TypeOK'
  BY <1>18, <1>edit DEF Touch, Changed, TypeOK
<1>19. ASSUME NEW ip \in IPs, Expire(ip) PROVE TypeOK'
  <2>1. over' \in [IPs -> SUBSET Override]
    <3>1. PICK o \in over[ip] :
            over' = [over EXCEPT ![ip] = (@ \ {o}) \cup {[o EXCEPT !.live = FALSE]}]
      BY <1>19 DEF Expire
    <3>2. over[ip] \subseteq Override
      BY DEF TypeOK
    <3>3. [o EXCEPT !.live = FALSE] \in Override
      BY <3>2 DEF Override
    <3> QED
      BY <3>1, <3>2, <3>3 DEF TypeOK
  <2>2. edits' \in Nat
    BY <1>19 DEF Expire, TypeOK
  <2> QED
    BY <1>19, <2>1, <2>2 DEF Expire, Changed, TypeOK
<1>20. ASSUME NEW k \in Keys, NEW g \in UserGroups \cup {None}, MapByHand(k, g)
       PROVE  TypeOK'
  <2>1. edits' \in Nat
    BY <1>20 DEF MapByHand, TypeOK
  <2>2. config' \in Config /\ hand' \in Config
    BY <1>20 DEF MapByHand, TypeOK, Config, Entry
  <2>3. stale' \in [Ticks -> SUBSET (Keys \cup UserGroups)]
    <3>1. hand'.groups \subseteq UserGroups
      BY <2>2 DEF Config
    <3> QED
      BY <1>20, <3>1 DEF MapByHand, TypeOK
  <2> QED
    BY <1>20, <2>1, <2>2, <2>3 DEF MapByHand, Changed, TypeOK
<1>21. CASE Crash
  <2>1. faults' \in Nat
    BY <1>21 DEF Crash, Fault, TypeOK
  <2> QED
    BY <1>21, <2>1, NothingType, NoConfigType DEF Crash, Changed, TypeOK
<1>22. CASE UNCHANGED vars
  BY <1>22 DEF vars, history, TypeOK
<1> QED
  BY ConsoleType, <1>1, <1>2, <1>3, <1>4, <1>5, <1>6, <1>7, <1>9, <1>10, <1>12, <1>13,
     <1>15, <1>16, <1>17, <1>18, <1>19, <1>20, <1>21, <1>22
  DEF Next, StartUp, Pass, Requests, Environment

(* Every variable keeps its type, whatever faults, requests and console
   edits interleave.                                                        *)
THEOREM TypeCorrect == Spec => []TypeOK
  BY TypeInit, TypeStep, PTL DEF Spec

-----------------------------------------------------------------------------
(* The inductive invariant: what the copies in flight and the results held  *)
(* by a pass have to do with the store and with the administrator's work.   *)

\* Nothing runs before start-up is over, so start-up's own copy is not a pass's.
QuietStart == phase # "up" => \A t \in Ticks : pc[t] = "idle"

\* Saving configuration c where a pass resolved e loses none of hand's entries,
\* but those the pass takes over and those changed since c was read.
Keeps(c, e, since) ==
    /\ hand.groups \ since \subseteq c.groups
    /\ \A k \in Keys \ since : hand.map[k] \in UserGroups =>
                        c.map[k] = hand.map[k] \/ Wanted(e, k) # None

CopiesKeepAdminWork ==
    /\ phase = "seedPush" => Keeps(copy[Background], Nothing, stale[Background])
    /\ \A t \in Ticks : pc[t] = "push" => Keeps(copy[t], eff[t], stale[t])

\* A pass whose reading is current has resolved what the store says now, and
\* what it is about to save is some map reconciled with that.
FreshIsCurrent ==
    \A t \in Ticks : fresh[t] =>
        /\ pc[t] \in {"apply", "push"}
        /\ eff[t] = Effective(rows, base, over)

PushIsReconciled ==
    \A t \in Ticks : pc[t] = "push" =>
        \E m \in [Keys -> Entry] : copy[t].map = Reconciled(m, eff[t])

\* Before the first backfill, a legacy choice lives in the map alone, in
\* Technitium and in start-up's copy of it.
ChoiceHeld(ip) ==
    \/ base[ip] = assigned[ip]
    \/ /\ phase # "up" /\ ip \in rows /\ base[ip] = None
       /\ config.map[ip] = assigned[ip]
       /\ phase = "seedPush" => copy[Background].map[ip] = assigned[ip]

ChoicesHeld == \A ip \in IPs : assigned[ip] # None => ChoiceHeld(ip)

-----------------------------------------------------------------------------

LEMMA QuietStep == TypeOK /\ QuietStart /\ [Next]_vars => QuietStart'
<1> SUFFICES ASSUME TypeOK, QuietStart, [Next]_vars PROVE QuietStart'
  OBVIOUS
<1> USE DEF QuietStart
<1>1. CASE StartUp
  BY <1>1 DEF StartUp, SeedRead, SeedPush, SeedFails, Backfill, BackfillFails
<1>2. CASE StartLoopPass
  BY <1>2 DEF StartLoopPass
<1>3. ASSUME NEW t \in Ticks, Pass(t) PROVE QuietStart'
  <2>1. pc[t] # "idle" /\ phase' = phase
    BY <1>3 DEF Pass, ReadStore, Fetch, FetchFails, Push, PushFails
  <2> QED
    BY <1>3, <2>1
<1>4. CASE Requests
  BY <1>4 DEF Requests, SetProfile, Pause, Resume, Touch, Edit
<1>5. CASE Environment
  BY <1>5 DEF Environment, Expire, MapByHand, Crash
<1>6. CASE UNCHANGED vars
  BY <1>6 DEF vars
<1> QED
  BY <1>1, <1>2, <1>3, <1>4, <1>5, <1>6 DEF Next

\* What a pass fetched, it keeps: it drops managed entries only.
LEMMA FetchKeeps ==
    ASSUME TypeOK, AdminWorkKept, NEW e \in Resolved, NEW since
    PROVE  Keeps([config EXCEPT !.map = Reconciled(config.map, e)], e, since)
  BY ConstantsAssumption
  DEF Keeps, AdminWorkKept, TypeOK, Config, Reconciled

\* What is overtaken takes entries and groups from the administrator's work and
\* adds none.
LEMMA OvertakenShrinks ==
    ASSUME TypeOK, NEW since
    PROVE  /\ Overtaken(since).groups = hand.groups \ since
           /\ \A k \in Keys : Overtaken(since).map[k] \in UserGroups =>
                 k \notin since /\ Overtaken(since).map[k] = hand.map[k]
  BY ConstantsAssumption DEF Overtaken, TypeOK, Config

\* A copy that keeps some work keeps what is left of it.
LEMMA KeepsLess ==
    ASSUME TypeOK, NEW c, NEW e, NEW since, Keeps(c, e, since),
           NEW more, hand' = Overtaken(more)
    PROVE  /\ hand'.groups \ since \subseteq c.groups
           /\ \A k \in Keys \ since : hand'.map[k] \in UserGroups =>
                 c.map[k] = hand'.map[k] \/ Wanted(e, k) # None
  BY OvertakenShrinks DEF Keeps

\* A save takes over what the pass claims and overwrites what is newer than its
\* copy; all else that was the administrator's is in it.
LEMMA SaveKeeps ==
    ASSUME TypeOK, NEW c, NEW e, NEW since, Keeps(c, e, since),
           config' = c,
           hand' = Overtaken(since \cup {k \in Keys : Wanted(e, k) # None})
    PROVE  AdminWorkKept'
<1> DEFINE gone == since \cup {k \in Keys : Wanted(e, k) # None}
<1>1. hand'.groups = hand.groups \ gone
  BY OvertakenShrinks
<1>2. \A k \in Keys : hand'.map[k] \in UserGroups =>
         k \notin gone /\ hand'.map[k] = hand.map[k]
  BY OvertakenShrinks
<1> QED
  BY <1>1, <1>2 DEF Keeps, AdminWorkKept

LEMMA AdminWorkStep ==
    TypeOK /\ QuietStart /\ CopiesKeepAdminWork /\ AdminWorkKept /\ [Next]_vars
        => (CopiesKeepAdminWork /\ AdminWorkKept)'
<1> SUFFICES ASSUME TypeOK, QuietStart, CopiesKeepAdminWork, AdminWorkKept,
                    [Next]_vars
             PROVE  (CopiesKeepAdminWork /\ AdminWorkKept)'
  OBVIOUS
<1> USE ConstantsAssumption
<1>1. CASE SeedRead
  <2>1. Keeps(Seeded(config), Nothing, stale[Background])
    BY DEF Keeps, AdminWorkKept, Seeded, TypeOK, Config, Keys
  <2>2. copy'[Background] = Seeded(config) /\ \A t \in Ticks : pc[t] = "idle"
    BY <1>1 DEF SeedRead, QuietStart, TypeOK, Ticks
  <2> QED
    BY <1>1, <2>1, <2>2
    DEF SeedRead, CopiesKeepAdminWork, AdminWorkKept, Keeps, history
<1>2. CASE SeedPush
  <2>1. {k \in Keys : Wanted(Nothing, k) # None} = {}
    BY NothingType DEF Wanted
  <2>2. \A t \in Ticks : pc[t] = "idle"
    BY <1>2 DEF SeedPush, QuietStart
  <2>3. /\ config' = copy[Background] /\ hand' = Overtaken(stale[Background])
        /\ Keeps(copy[Background], Nothing, stale[Background])
    BY <1>2 DEF SeedPush, CopiesKeepAdminWork
  <2>4. AdminWorkKept'
    BY <2>1, <2>3, SaveKeeps
  <2> QED
    BY <1>2, <2>2, <2>4 DEF SeedPush, CopiesKeepAdminWork
<1>3. CASE SeedFails \/ Backfill \/ BackfillFails
  <2>1. \A t \in Ticks : pc[t] = "idle"
    BY <1>3 DEF SeedFails, Backfill, BackfillFails, QuietStart
  <2> QED
    BY <1>3, <2>1
    DEF SeedFails, Backfill, BackfillFails, CopiesKeepAdminWork, AdminWorkKept,
        history
<1>4. CASE StartLoopPass
  BY <1>4
  DEF StartLoopPass, Begin, CopiesKeepAdminWork, AdminWorkKept, Keeps, TypeOK
<1>5. ASSUME NEW t \in Ticks, ReadStore(t)
      PROVE  (CopiesKeepAdminWork /\ AdminWorkKept)'
  BY <1>5 DEF ReadStore, CopiesKeepAdminWork, AdminWorkKept, Keeps, TypeOK
<1>6. ASSUME NEW t \in Ticks, Finish(t), phase = "up"
      PROVE  \A u \in Ticks : pc'[u] = "push" =>
               /\ u # t /\ pc[u] = "push" /\ copy'[u] = copy[u] /\ eff'[u] = eff[u]
               /\ stale'[u] = stale[u]
  BY <1>6 DEF Finish, TypeOK
<1>7. ASSUME NEW t \in Ticks, Fetch(t)
      PROVE  (CopiesKeepAdminWork /\ AdminWorkKept)'
  <2> DEFINE new == [config EXCEPT !.map = Reconciled(config.map, eff[t])]
  <2>1. phase = "up"
    BY <1>7 DEF Fetch, QuietStart
  <2>2. Keeps(new, eff[t], stale[t])
    BY FetchKeeps DEF TypeOK
  <2>3. CASE Finish(t)
    BY <1>6, <1>7, <2>1, <2>3
    DEF Fetch, CopiesKeepAdminWork, AdminWorkKept, Keeps
  <2>4. CASE /\ pc' = [pc EXCEPT ![t] = "push"]
             /\ copy' = [copy EXCEPT ![t] = new]
             /\ UNCHANGED <<eff, stale>>
    BY <1>7, <2>1, <2>2, <2>4
    DEF Fetch, CopiesKeepAdminWork, AdminWorkKept, Keeps, TypeOK
  <2> QED
    BY <1>7, <2>3, <2>4 DEF Fetch
<1>8. ASSUME NEW t \in Ticks, FetchFails(t)
      PROVE  (CopiesKeepAdminWork /\ AdminWorkKept)'
  <2>1. phase = "up"
    BY <1>8 DEF FetchFails, QuietStart
  <2> QED
    BY <1>6, <1>8, <2>1
    DEF FetchFails, CopiesKeepAdminWork, AdminWorkKept, Keeps
<1>9. ASSUME NEW t \in Ticks, Push(t) \/ PushFails(t)
      PROVE  (CopiesKeepAdminWork /\ AdminWorkKept)'
  <2>1. /\ phase = "up" /\ phase' = phase /\ Finish(t)
        /\ Keeps(copy[t], eff[t], stale[t])
    BY <1>9 DEF Push, PushFails, QuietStart, CopiesKeepAdminWork
  <2>2. ASSUME NEW u \in Ticks, pc'[u] = "push"
        PROVE  /\ Keeps(copy[u], eff[u], stale[u]) /\ copy'[u] = copy[u]
               /\ eff'[u] = eff[u] /\ stale'[u] = stale[u]
    BY <1>6, <2>1, <2>2 DEF CopiesKeepAdminWork
  <2>3. CASE Save(t)
    <3> DEFINE gone == stale[t] \cup {k \in Keys : Wanted(eff[t], k) # None}
    <3>1. hand' = Overtaken(gone) /\ config' = copy[t]
      BY <2>3 DEF Save
    <3>2. AdminWorkKept'
      BY <2>1, <3>1, SaveKeeps
    <3>3. ASSUME NEW u \in Ticks, pc'[u] = "push"
          PROVE  Keeps(copy[u], eff[u], stale[u])'
      <4>1. /\ Keeps(copy[u], eff[u], stale[u]) /\ copy'[u] = copy[u]
            /\ eff'[u] = eff[u] /\ stale'[u] = stale[u]
        BY <2>2, <3>3
      <4>2. /\ hand'.groups \ stale[u] \subseteq copy[u].groups
            /\ \A k \in Keys \ stale[u] : hand'.map[k] \in UserGroups =>
                 copy[u].map[k] = hand'.map[k] \/ Wanted(eff[u], k) # None
        BY <3>1, <4>1, KeepsLess
      <4> QED
        BY <4>1, <4>2 DEF Keeps
    <3> QED
      BY <2>1, <3>2, <3>3 DEF CopiesKeepAdminWork
  <2>4. CASE UNCHANGED <<config, hand>>
    BY <2>1, <2>2, <2>4 DEF CopiesKeepAdminWork, AdminWorkKept, Keeps
  <2> QED
    BY <1>9, <2>3, <2>4 DEF Push, PushFails
<1>10. CASE Requests
  <2>1. /\ phase = "up" /\ UNCHANGED <<config, phase, eff, copy, hand, stale>>
        /\ \A t \in Ticks : pc'[t] = "push" => pc[t] = "push"
    BY <1>10 DEF Requests, SetProfile, Pause, Resume, Touch, Edit, Kick, Begin,
                 TypeOK
  <2> QED
    BY <2>1 DEF CopiesKeepAdminWork, AdminWorkKept, Keeps
<1>11. ASSUME NEW ip \in IPs, Expire(ip)
       PROVE  (CopiesKeepAdminWork /\ AdminWorkKept)'
  BY <1>11 DEF Expire, CopiesKeepAdminWork, AdminWorkKept, Keeps
\* What the administrator changes is new to every copy in flight.
<1>12. ASSUME NEW k \in Keys, NEW g \in UserGroups \cup {None}, MapByHand(k, g)
       PROVE  (CopiesKeepAdminWork /\ AdminWorkKept)'
  <2>1. /\ config' = [map    |-> [config.map EXCEPT ![k] = g],
                      groups |-> config.groups \cup ({g} \ {None})]
        /\ hand' = [map    |-> [hand.map EXCEPT ![k] = g],
                    groups |-> hand.groups \cup ({g} \ {None})]
        /\ UNCHANGED <<phase, pc, eff, copy>>
    BY <1>12 DEF MapByHand
  <2>2. AdminWorkKept'
    BY <2>1 DEF AdminWorkKept, TypeOK, Config
  <2>3. ASSUME NEW t \in Ticks, HoldsCopy(t), NEW e,
               Keeps(copy[t], e, stale[t])
        PROVE  /\ hand'.groups \ stale'[t] \subseteq copy[t].groups
               /\ \A l \in Keys \ stale'[t] : hand'.map[l] \in UserGroups =>
                     copy[t].map[l] = hand'.map[l] \/ Wanted(e, l) # None
    <3>1. stale'[t] = stale[t] \cup {k} \cup (hand'.groups \ hand.groups)
      BY <1>12, <2>3 DEF MapByHand
    <3>2. \A l \in Keys : l # k => hand'.map[l] = hand.map[l]
      BY <2>1 DEF TypeOK, Config
    <3> QED
      BY <2>3, <3>1, <3>2 DEF Keeps
  <2>4. ASSUME NEW t \in Ticks, pc'[t] = "push"
        PROVE  Keeps(copy[t], eff[t], stale[t])'
    <3>1. /\ HoldsCopy(t) /\ Keeps(copy[t], eff[t], stale[t])
          /\ copy'[t] = copy[t] /\ eff'[t] = eff[t]
      BY <2>1, <2>4 DEF HoldsCopy, CopiesKeepAdminWork
    <3> QED
      BY <2>3, <3>1 DEF Keeps
  <2>5. ASSUME phase' = "seedPush"
        PROVE  Keeps(copy[Background], Nothing, stale[Background])'
    <3>1. /\ HoldsCopy(Background) /\ Background \in Ticks
          /\ Keeps(copy[Background], Nothing, stale[Background])
          /\ copy'[Background] = copy[Background]
      BY <2>1, <2>5 DEF HoldsCopy, CopiesKeepAdminWork, Ticks
    <3> QED
      BY <2>3, <3>1 DEF Keeps, Nothing
  <2> QED
    BY <2>2, <2>4, <2>5 DEF CopiesKeepAdminWork
<1>13. CASE Crash
  BY <1>13 DEF Crash, CopiesKeepAdminWork, AdminWorkKept
<1>14. CASE UNCHANGED vars
  BY <1>14 DEF vars, CopiesKeepAdminWork, AdminWorkKept, Keeps
<1> QED
  BY <1>1, <1>2, <1>3, <1>4, <1>5, <1>7, <1>8, <1>9, <1>10, <1>11, <1>12,
     <1>13, <1>14, ConsoleType
  DEF Next, StartUp, Pass, Environment

(* Whenever the administrator edits, no pass, restart or failed call loses a
   group they made or an address they mapped, except to a device that asked for
   a profile, and except by the save of a copy read before the edit.         *)
THEOREM AdminWorkIsKept == Spec => []AdminWorkKept
<1> DEFINE IInv == TypeOK /\ QuietStart /\ CopiesKeepAdminWork /\ AdminWorkKept
<1>1. Init => IInv
  <2>1. Init => TypeOK
    BY TypeInit
  <2>2. Init => QuietStart
    BY DEF Init, QuietStart
  <2>3. Init => CopiesKeepAdminWork
    BY DEF Init, CopiesKeepAdminWork
  <2>4. Init => AdminWorkKept
    BY ConstantsAssumption DEF Init, AdminWorkKept, NoConfig
  <2> QED
    BY <2>1, <2>2, <2>3, <2>4
<1>2. IInv /\ [Next]_vars => IInv'
  BY TypeStep, QuietStep, AdminWorkStep
<1> QED
  BY <1>1, <1>2, PTL DEF Spec

-----------------------------------------------------------------------------

\* Whatever map it started from, a map reconciled with what a store says has
\* the wanted groups where the store wants one, and no managed group elsewhere.
LEMMA ReconciledIsApplied ==
    ASSUME NEW rs \in SUBSET IPs,
           NEW b \in [IPs -> Choice], NEW o \in [IPs -> SUBSET Override],
           NEW m \in [Keys -> Entry]
    PROVE  LET want == Effective(rs, b, o)
               map  == Reconciled(m, want)
           IN  /\ \A ip \in rs : IF want[ip] # None
                                  THEN map[ip] = want[ip]
                                  ELSE map[ip] \notin Profiles
               /\ \A k \in Keys \ rs : map[k] \notin Profiles
<1> DEFINE want == Effective(rs, b, o)
           map  == Reconciled(m, want)
<1>1. want \in [rs -> Choice]
  BY EffectiveType
<1>2. ASSUME NEW k \in Keys
      PROVE  map[k] = IF Wanted(want, k) # None THEN Wanted(want, k)
                      ELSE IF m[k] \in Profiles THEN None ELSE m[k]
  BY <1>2 DEF Reconciled
<1>3. ASSUME NEW k \in Keys
      PROVE  Wanted(want, k) = IF k \in rs THEN want[k] ELSE None
  BY <1>1 DEF Wanted
<1> HIDE DEF want, map
<1>4. \A ip \in rs : ip \in Keys
  BY DEF Keys
<1>5. \A ip \in rs : IF want[ip] # None THEN map[ip] = want[ip]
                                       ELSE map[ip] \notin Profiles
  BY <1>2, <1>3, <1>4, ConstantsAssumption
<1>6. \A k \in Keys \ rs : map[k] \notin Profiles
  BY <1>2, <1>3, ConstantsAssumption
<1> QED
  BY <1>5, <1>6 DEF want, map

LEMMA SettledStep ==
    /\ TypeOK /\ QuietStart /\ FreshIsCurrent /\ PushIsReconciled
    /\ SettledMeansApplied /\ [Next]_vars
    => (FreshIsCurrent /\ PushIsReconciled /\ SettledMeansApplied)'
<1> SUFFICES ASSUME TypeOK, QuietStart, FreshIsCurrent, PushIsReconciled,
                    SettledMeansApplied, [Next]_vars
             PROVE  (FreshIsCurrent /\ PushIsReconciled /\ SettledMeansApplied)'
  OBVIOUS
<1> DEFINE Goal == FreshIsCurrent /\ PushIsReconciled /\ SettledMeansApplied
           Store == <<rows, base, over>>
<1>1. TypeOK'
  BY TypeStep
\* A step that voids every reading has only the copies in flight to account for.
<1>2. ASSUME Changed, \A t \in Ticks : pc'[t] = "push" =>
                 pc[t] = "push" /\ copy'[t] = copy[t] /\ eff'[t] = eff[t]
      PROVE  Goal'
  BY <1>2 DEF Changed, FreshIsCurrent, PushIsReconciled, SettledMeansApplied
\* So has a step that leaves the store and the map as they were.
<1>3. ASSUME UNCHANGED <<rows, base, over, config, settled>>,
             \A t \in Ticks : pc'[t] = "push" =>
                 pc[t] = "push" /\ copy'[t] = copy[t] /\ eff'[t] = eff[t],
             \A t \in Ticks : fresh'[t] =>
                 fresh[t] /\ pc'[t] = pc[t] /\ eff'[t] = eff[t]
      PROVE  Goal'
  <2>1. SettledMeansApplied'
    BY <1>3 DEF SettledMeansApplied, Applied
  <2>2. FreshIsCurrent'
    BY <1>3 DEF FreshIsCurrent
  <2>3. PushIsReconciled'
    BY <1>3 DEF PushIsReconciled
  <2> QED
    BY <2>1, <2>2, <2>3
<1>4. CASE SeedRead \/ SeedPush
  <2>1. \A t \in Ticks : pc[t] = "idle"
    BY <1>4 DEF SeedRead, SeedPush, QuietStart
  <2>2. CASE SeedRead
    BY <1>3, <2>1, <2>2 DEF SeedRead, history
  <2>3. CASE SeedPush
    BY <1>2, <2>1, <2>3 DEF SeedPush
  <2> QED
    BY <1>4, <2>2, <2>3
<1>5. CASE SeedFails \/ BackfillFails
  <2>1. \A t \in Ticks : pc[t] = "idle"
    BY <1>5 DEF SeedFails, BackfillFails, QuietStart
  <2> QED
    BY <1>3, <1>5, <2>1 DEF SeedFails, BackfillFails, history
<1>6. CASE Backfill
  BY <1>2, <1>6 DEF Backfill
<1>7. CASE StartLoopPass
  <2>1. /\ \A t \in Ticks : pc'[t] = "push" => pc[t] = "push"
        /\ \A t \in Ticks : pc[t] # "idle" => pc'[t] = pc[t]
        /\ UNCHANGED <<rows, base, config, eff, copy>>
    BY <1>7 DEF StartLoopPass, Begin, TypeOK
  <2>2. CASE over' = over
    <3>1. UNCHANGED <<fresh, settled>>
      BY <1>7, <2>2 DEF StartLoopPass
    <3>2. \A t \in Ticks : fresh[t] => pc[t] # "idle"
      BY DEF FreshIsCurrent
    <3> QED
      BY <1>3, <2>1, <2>2, <3>1, <3>2
  <2>3. CASE over' # over
    BY <1>2, <1>7, <2>1, <2>3 DEF StartLoopPass
  <2> QED
    BY <2>2, <2>3
<1>8. ASSUME NEW t \in Ticks, ReadStore(t) PROVE Goal'
  <2>1. /\ pc[t] = "session" /\ pc' = [pc EXCEPT ![t] = "apply"]
        /\ eff' = [eff EXCEPT ![t] = Effective(rows', base', over')]
        /\ UNCHANGED <<config, copy>>
    BY <1>8 DEF ReadStore
  <2>2. PushIsReconciled'
    BY <2>1 DEF PushIsReconciled, TypeOK
  <2>3. CASE /\ fresh' = [u \in Ticks |-> u = t]
             /\ settled' = FALSE
    BY <2>1, <2>2, <2>3 DEF FreshIsCurrent, SettledMeansApplied, TypeOK
  <2>4. CASE /\ fresh' = [fresh EXCEPT ![t] = TRUE]
             /\ UNCHANGED <<rows, base, over, settled>>
    <3>1. FreshIsCurrent'
      BY <2>1, <2>4 DEF FreshIsCurrent, TypeOK
    <3>2. SettledMeansApplied'
      BY <2>1, <2>4 DEF SettledMeansApplied, Applied
    <3> QED
      BY <2>2, <3>1, <3>2
  <2> QED
    BY <1>8, <2>3, <2>4 DEF ReadStore
<1>9. ASSUME NEW t \in Ticks, Finish(t)
      PROVE  /\ \A u \in Ticks : pc'[u] = "push" =>
                   pc[u] = "push" /\ copy'[u] = copy[u] /\ eff'[u] = eff[u]
             /\ \A u \in Ticks : fresh'[u] =>
                   u # t /\ fresh[u] /\ pc'[u] = pc[u] /\ eff'[u] = eff[u]
  BY <1>9 DEF Finish, TypeOK
<1>10. ASSUME NEW t \in Ticks, fresh[t], NEW m \in [Keys -> Entry],
              config'.map = Reconciled(m, eff[t]), UNCHANGED Store
       PROVE  Applied'
  <2>1. config'.map = Reconciled(m, Effective(rows', base', over'))
    BY <1>10 DEF FreshIsCurrent
  <2>2. /\ rows' \in SUBSET IPs /\ base' \in [IPs -> Choice]
        /\ over' \in [IPs -> SUBSET Override]
    BY <1>1 DEF TypeOK
  <2> QED
    BY <2>1, <2>2, ReconciledIsApplied DEF Applied
<1>11. ASSUME NEW t \in Ticks, Fetch(t) PROVE Goal'
  <2> DEFINE m == Reconciled(config.map, eff[t])
  <2>1. config.map \in [Keys -> Entry]
    BY DEF TypeOK, Config
  <2>2. CASE m = config.map
    <3>1. Finish(t) /\ settled' = (settled \/ fresh[t])
          /\ UNCHANGED <<rows, base, over, config>>
      BY <1>11, <2>2 DEF Fetch
    <3>2. fresh[t] => Applied'
      BY <1>10, <2>1, <2>2, <3>1
    <3>3. settled => Applied'
      BY <3>1 DEF SettledMeansApplied, Applied
    <3>4. FreshIsCurrent'
      BY <1>9, <3>1 DEF FreshIsCurrent
    <3>5. PushIsReconciled'
      BY <1>9, <3>1 DEF PushIsReconciled
    <3> QED
      BY <3>1, <3>2, <3>3, <3>4, <3>5 DEF SettledMeansApplied
  <2>3. CASE m # config.map
    <3>1. /\ pc[t] = "apply" /\ pc' = [pc EXCEPT ![t] = "push"]
          /\ copy' = [copy EXCEPT ![t] = [config EXCEPT !.map = m]]
          /\ UNCHANGED <<rows, base, over, config, eff, fresh, settled>>
      BY <1>11, <2>3 DEF Fetch
    <3>2. SettledMeansApplied'
      BY <3>1 DEF SettledMeansApplied, Applied
    <3>3. FreshIsCurrent'
      BY <3>1 DEF FreshIsCurrent, TypeOK
    <3>4. copy'[t].map = m
      BY <3>1 DEF TypeOK, Config
    <3>5. PushIsReconciled'
      BY <2>1, <3>1, <3>4 DEF PushIsReconciled, TypeOK
    <3> QED
      BY <3>2, <3>3, <3>5
  <2> QED
    BY <2>2, <2>3
<1>12. ASSUME NEW t \in Ticks, FetchFails(t) PROVE Goal'
  BY <1>3, <1>9, <1>12 DEF FetchFails
<1>13. ASSUME NEW t \in Ticks, Push(t) \/ PushFails(t) PROVE Goal'
  <2>1. pc[t] = "push" /\ Finish(t) /\ UNCHANGED <<rows, base, over>>
    BY <1>13 DEF Push, PushFails
  <2>2. CASE Save(t)
    <3>1. PICK m \in [Keys -> Entry] : copy[t].map = Reconciled(m, eff[t])
      BY <2>1 DEF PushIsReconciled
    <3>2. config'.map = Reconciled(m, eff[t]) /\ settled' = fresh[t]
      BY <2>2, <3>1 DEF Save
    <3>3. SettledMeansApplied'
      BY <1>10, <2>1, <3>2 DEF SettledMeansApplied
    <3>4. FreshIsCurrent'
      BY <1>9, <2>1 DEF FreshIsCurrent
    <3>5. PushIsReconciled'
      BY <1>9, <2>1 DEF PushIsReconciled
    <3> QED
      BY <3>3, <3>4, <3>5
  <2>3. CASE UNCHANGED <<config, settled>>
    BY <1>3, <1>9, <2>1, <2>3
  <2> QED
    BY <1>13, <2>2, <2>3 DEF Push, PushFails
<1>14. CASE Requests
  <2>1. /\ Changed /\ UNCHANGED <<eff, copy>>
        /\ \A t \in Ticks : pc'[t] = "push" => pc[t] = "push"
    BY <1>14 DEF Requests, SetProfile, Pause, Resume, Touch, Kick, Begin, TypeOK
  <2> QED
    BY <1>2, <2>1
<1>15. CASE Environment
  <2>1. /\ Changed
        /\ \/ UNCHANGED <<pc, copy, eff>>
           \/ pc' = [t \in Ticks |-> "idle"]
    BY <1>15 DEF Environment, Expire, MapByHand, Crash
  <2> QED
    BY <1>2, <2>1
<1>16. CASE UNCHANGED vars
  <2>1. UNCHANGED <<rows, base, over, config, pc, eff, copy, fresh, settled>>
    BY <1>16 DEF vars
  <2> QED
    BY <1>3, <2>1
<1> QED
  BY <1>4, <1>5, <1>6, <1>7, <1>8, <1>11, <1>12, <1>13, <1>14, <1>15, <1>16
  DEF Next, StartUp, Pass

SettledInv ==
    /\ TypeOK /\ QuietStart /\ FreshIsCurrent /\ PushIsReconciled
    /\ SettledMeansApplied

LEMMA SettledInvHolds == Spec => []SettledInv
<1>1. Init => SettledInv
  <2>1. Init => TypeOK
    BY TypeInit
  <2>2. Init => QuietStart /\ FreshIsCurrent /\ PushIsReconciled
                /\ SettledMeansApplied
    BY DEF Init, QuietStart, FreshIsCurrent, PushIsReconciled,
           SettledMeansApplied
  <2> QED
    BY <2>1, <2>2 DEF SettledInv
<1>2. SettledInv /\ [Next]_vars => SettledInv'
  BY TypeStep, QuietStep, SettledStep DEF SettledInv
<1> QED
  BY <1>1, <1>2, PTL DEF Spec

(* A pass that read the current store leaves the map saying exactly what the
   store says, whatever passes, requests and faults it overlapped with.     *)
THEOREM SettledIsApplied == Spec => []SettledMeansApplied
<1>1. SettledInv => SettledMeansApplied
  BY DEF SettledInv
<1> QED
  BY <1>1, SettledInvHolds, PTL

-----------------------------------------------------------------------------

LEMMA ChoiceStep == TypeOK /\ QuietStart /\ ChoicesHeld /\ [Next]_vars => ChoicesHeld'
<1> SUFFICES ASSUME TypeOK, QuietStart, ChoicesHeld, [Next]_vars
             PROVE  ChoicesHeld'
  OBVIOUS
<1> USE ConstantsAssumption
<1>1. CASE SeedRead
  <2>1. \A ip \in IPs : copy'[Background].map[ip] = config.map[ip]
    BY <1>1 DEF SeedRead, Seeded, TypeOK, Ticks, Config, Keys
  <2> QED
    BY <1>1, <2>1 DEF SeedRead, ChoicesHeld, ChoiceHeld, history
<1>2. CASE SeedPush
  BY <1>2 DEF SeedPush, ChoicesHeld, ChoiceHeld
<1>3. CASE SeedFails
  BY <1>3 DEF SeedFails, ChoicesHeld, ChoiceHeld, history
<1>4. CASE Backfill
  <2>1. ASSUME NEW ip \in IPs, assigned[ip] # None
        PROVE  base'[ip] = assigned[ip]
    <3>1. ChoiceHeld(ip) /\ assigned[ip] \in Profiles
      BY <2>1 DEF ChoicesHeld, TypeOK, Choice
    <3>2. base'[ip] = IF ip \in rows /\ base[ip] = None
                         /\ config.map[ip] \in Profiles
                      THEN config.map[ip] ELSE base[ip]
      BY <1>4 DEF Backfill, Backfilled
    <3> QED
      BY <2>1, <3>1, <3>2 DEF ChoiceHeld
  <2> QED
    BY <1>4, <2>1 DEF Backfill, ChoicesHeld, ChoiceHeld
<1>5. CASE BackfillFails
  <2>1. \A ip \in IPs : assigned'[ip] # None => base'[ip] = assigned'[ip]
    BY <1>5 DEF BackfillFails, TypeOK
  <2> QED
    BY <2>1 DEF ChoicesHeld, ChoiceHeld
<1>6. ASSUME UNCHANGED <<rows, base, assigned>>,
             phase = "up"
      PROVE  ChoicesHeld'
  BY <1>6 DEF ChoicesHeld, ChoiceHeld
<1>7. CASE StartLoopPass
  BY <1>6, <1>7 DEF StartLoopPass
<1>8. ASSUME NEW t \in Ticks, Pass(t) PROVE phase = "up"
  BY <1>8 DEF Pass, ReadStore, Fetch, FetchFails, Push, PushFails, QuietStart
<1>9. ASSUME NEW old \in IPs, NEW new \in IPs, Migrate(old, new), phase = "up"
      PROVE  ChoicesHeld'
  BY <1>9 DEF Migrate, ChoicesHeld, ChoiceHeld, TypeOK
<1>10. ASSUME NEW t \in Ticks, Pass(t) PROVE ChoicesHeld'
  <2>1. CASE UNCHANGED <<rows, base, assigned>>
    BY <1>6, <1>8, <1>10, <2>1
  <2>2. CASE \E old, new \in IPs : Migrate(old, new)
    BY <1>8, <1>9, <1>10, <2>2
  <2> QED
    BY <1>10, <2>1, <2>2
    DEF Pass, ReadStore, Fetch, FetchFails, Push, PushFails
<1>11. ASSUME NEW ip \in IPs, NEW p \in Choice, SetProfile(ip, p)
       PROVE  ChoicesHeld'
  BY <1>11 DEF SetProfile, Edit, ChoicesHeld, ChoiceHeld, TypeOK
<1>12. ASSUME NEW ip \in IPs,
              \/ \E p \in Profiles : Pause(ip, p)
              \/ Resume(ip) \/ Touch(ip)
       PROVE  ChoicesHeld'
  BY <1>12 DEF Pause, Resume, Touch, Edit, ChoicesHeld, ChoiceHeld
<1>13. ASSUME NEW ip \in IPs, Expire(ip) PROVE ChoicesHeld'
  BY <1>13 DEF Expire, ChoicesHeld, ChoiceHeld
<1>14. ASSUME NEW k \in Keys, NEW g \in UserGroups \cup {None}, MapByHand(k, g)
       PROVE  ChoicesHeld'
  <2>1. ASSUME NEW ip \in IPs, config.map[ip] = assigned[ip], assigned[ip] # None
        PROVE  config'.map[ip] = assigned[ip]
    <3>1. config.map[ip] \in Profiles
      BY <2>1 DEF TypeOK, Choice
    <3> QED
      BY <1>14, <2>1, <3>1 DEF MapByHand, TypeOK, Config
  <2> QED
    BY <1>14, <2>1 DEF MapByHand, ChoicesHeld, ChoiceHeld
<1>15. CASE Crash
  BY <1>15 DEF Crash, ChoicesHeld, ChoiceHeld
<1>16. CASE UNCHANGED vars
  BY <1>16 DEF vars, ChoicesHeld, ChoiceHeld
<1> QED
  BY ConsoleType, <1>1, <1>2, <1>3, <1>4, <1>5, <1>7, <1>10, <1>11, <1>12, <1>13, <1>14,
     <1>15, <1>16
  DEF Next, StartUp, Requests, Environment

(* Every profile a user chose, before or after the upgrade, is the row's base
   profile whenever the service is up, unless start-up's first backfill could
   not read the map that alone knew it.                                     *)
THEOREM ChoiceIsKept == Spec => []ChoiceKept
<1> DEFINE IInv == TypeOK /\ QuietStart /\ ChoicesHeld
<1>1. Init => IInv
  <2>1. Init => TypeOK
    BY TypeInit
  <2>2. Init => QuietStart
    BY DEF Init, QuietStart
  <2>3. Init => ChoicesHeld
    BY ConstantsAssumption DEF Init, ChoicesHeld, ChoiceHeld, Keys
  <2> QED
    BY <2>1, <2>2, <2>3
<1>2. IInv /\ [Next]_vars => IInv'
  BY TypeStep, QuietStep, ChoiceStep
<1>3. IInv => ChoiceKept
  BY DEF ChoicesHeld, ChoiceHeld, ChoiceKept
<1> QED
  BY <1>1, <1>2, <1>3, PTL DEF Spec

-----------------------------------------------------------------------------
(* Passes implement ProfileSync. *)

LEMMA SaidType ==
    ASSUME NEW e \in Resolved
    PROVE  Said(e) \in [Keys -> Profiles \cup {None}]
  BY WantedType DEF Said, Choice

LEMMA ManagedType ==
    ASSUME NEW m
    PROVE  Managed(m) \in [Keys -> Profiles \cup {None}]
  BY DEF Managed

\* Whatever map a pass started from, what is Guardium's in the map that it
\* computes is what it has read, all of it and nothing else.
LEMMA ManagedReconciled ==
    ASSUME NEW m \in [Keys -> Entry], NEW e \in Resolved
    PROVE  Managed(Reconciled(m, e)) = Said(e)
<1> DEFINE r == Reconciled(m, e)
<1>1. ASSUME NEW k \in Keys PROVE Managed(r)[k] = Said(e)[k]
  <2>1. r[k] = IF Wanted(e, k) # None THEN Wanted(e, k)
               ELSE IF m[k] \in Profiles THEN None ELSE m[k]
    BY DEF Reconciled
  <2>2. Wanted(e, k) \in Profiles \cup {None} /\ None \notin Profiles
    BY WantedType, ConstantsAssumption DEF Choice
  <2>3. Managed(r)[k] = (IF r[k] \in Profiles THEN r[k] ELSE None) /\ Said(e)[k] = Wanted(e, k)
    BY DEF Managed, Said
  <2> HIDE DEF r
  <2> QED
    BY <2>1, <2>2, <2>3
<1> HIDE DEF r
<1>2. Managed(r) \in [Keys -> Profiles \cup {None}] /\ Said(e) \in [Keys -> Profiles \cup {None}]
  BY ManagedType, SaidType
<1> QED
  BY <1>1, <1>2 DEF r

\* What start-up is about to save differs from the map by the seeded catch-all.
SeedInv ==
    phase = "seedPush" =>
        \/ Managed(copy[Background].map) = Managed(config.map)
        \/ /\ Managed(config.map)[CatchAll] = None
           /\ Managed(copy[Background].map)
                = [Managed(config.map) EXCEPT ![CatchAll] = DefaultProfile]

\* The administrator's own entries are none of Guardium's.
LEMMA ByHandIsNotManaged ==
    ASSUME TypeOK, NEW k \in Keys, NEW g \in UserGroups \cup {None}, MapByHand(k, g)
    PROVE  Managed(config'.map) = Managed(config.map)
<1>1. config'.map = [config.map EXCEPT ![k] = g] /\ config.map[k] \notin Profiles
  BY DEF MapByHand
<1>2. g \notin Profiles /\ config.map \in [Keys -> Entry]
  BY ConstantsAssumption DEF TypeOK, Config
<1>3. \A l \in Keys : config'.map[l] \in Profiles \/ config.map[l] \in Profiles
                      => config'.map[l] = config.map[l]
  BY <1>1, <1>2
<1> QED
  BY <1>3 DEF Managed

LEMMA SeedStep == TypeOK /\ QuietStart /\ SeedInv /\ [Next]_vars => SeedInv'
<1> SUFFICES ASSUME TypeOK, QuietStart, SeedInv, [Next]_vars, phase' = "seedPush"
             PROVE  SeedInv'
  BY DEF SeedInv
<1>1. CASE SeedRead
  <2>1. copy'[Background] = Seeded(config) /\ config' = config /\ config \in Config
    BY <1>1 DEF SeedRead, TypeOK, Ticks
  <2>2. Seeded(config).map = [config.map EXCEPT ![CatchAll] =
                                  IF @ = None THEN DefaultProfile ELSE @]
    BY <2>1 DEF Seeded, Config
  <2>3. CatchAll \in Keys /\ config.map \in [Keys -> Entry]
        /\ DefaultProfile \in Profiles /\ None \notin Profiles
    BY <2>1, ConstantsAssumption DEF Keys, Config
  <2>4. CASE config.map[CatchAll] = None
    <3>1. Seeded(config).map = [config.map EXCEPT ![CatchAll] = DefaultProfile]
      BY <2>2, <2>4
    <3>2. Managed(Seeded(config).map) = [Managed(config.map) EXCEPT ![CatchAll] = DefaultProfile]
      BY <2>3, <3>1 DEF Managed
    <3>3. Managed(config.map)[CatchAll] = None
      BY <2>3, <2>4 DEF Managed
    <3> QED
      BY <2>1, <3>2, <3>3 DEF SeedInv
  <2>5. CASE config.map[CatchAll] # None
    <3>1. Seeded(config).map = config.map
      BY <2>2, <2>3, <2>5
    <3> QED
      BY <2>1, <3>1 DEF SeedInv
  <2> QED
    BY <2>4, <2>5
<1>2. CASE phase = "seedPush" /\ UNCHANGED <<copy, config>>
  BY <1>2 DEF SeedInv
<1>3. CASE UNCHANGED vars
  BY <1>2, <1>3 DEF vars
<1>4. CASE StartUp
  BY <1>1, <1>4 DEF StartUp, SeedPush, SeedFails, Backfill, BackfillFails
<1>5. CASE StartLoopPass
  BY <1>5 DEF StartLoopPass
<1>6. ASSUME NEW t \in Ticks, Pass(t) PROVE FALSE
  <2>1. pc[t] # "idle" /\ phase' = phase
    BY <1>6 DEF Pass, ReadStore, Fetch, FetchFails, Push, PushFails
  <2> QED
    BY <2>1 DEF QuietStart
<1>7. CASE Requests
  BY <1>7 DEF Requests, SetProfile, Pause, Resume, Touch, Edit
<1>8. CASE Environment
  <2>1. CASE Crash
    BY <2>1 DEF Crash
  <2>2. ASSUME NEW ip \in IPs, Expire(ip) PROVE SeedInv'
    BY <1>2, <2>2 DEF Expire
  <2>3. ASSUME NEW k \in Keys, NEW g \in UserGroups \cup {None}, MapByHand(k, g)
        PROVE  SeedInv'
    <3>1. Managed(config'.map) = Managed(config.map)
      BY <2>3, ByHandIsNotManaged
    <3>2. UNCHANGED <<phase, copy>>
      BY <2>3 DEF MapByHand
    <3> QED
      BY <3>1, <3>2 DEF SeedInv
  <2> QED
    BY <1>8, <2>1, <2>2, <2>3, ConsoleType DEF Environment
<1> QED
  BY <1>3, <1>4, <1>5, <1>6, <1>7, <1>8 DEF Next

\* A pass has read the store, and has not published it yet.
Holds(t) == pc[t] \in {"apply", "push"}

LEMMA SyncStep ==
    ASSUME SettledInv, TypeOK', SeedInv, [Next]_vars
    PROVE  [Sync!Next]_(Sync!vars)
<1> USE DEF Sync!Next, Sync!vars
<1>1. TypeOK /\ QuietStart /\ PushIsReconciled
  BY DEF SettledInv
<1>2. wantedNow' \in Sync!Sayings
  <2>1. Effective(rows', base', over') \in Resolved
    BY EffectiveType, ResolvedMember DEF TypeOK
  <2>2. wantedNow' = Said(Effective(rows', base', over'))
    BY DEF wantedNow
  <2> QED
    BY <2>1, <2>2, SaidType DEF Sync!Sayings
<1>3. ASSUME Managed(config'.map) = Managed(config.map) PROVE servedNow' = servedNow
  BY <1>3 DEF servedNow
<1>4. ASSUME \A t \in Ticks : Holds(t)' = Holds(t) /\ (Holds(t) => eff'[t] = eff[t])
      PROVE  heldNow' = heldNow
  BY <1>4 DEF heldNow, Holds
\* The store may change, and nothing else does.
<1>5. ASSUME servedNow' = servedNow, heldNow' = heldNow PROVE [Sync!Next]_(Sync!vars)
  BY <1>2, <1>5 DEF Sync!Decide
<1>6. ASSUME NEW t \in Ticks,
             \A u \in Ticks \ {t} : Holds(u)' = Holds(u) /\ (Holds(u) => eff'[u] = eff[u])
      PROVE  heldNow' = [heldNow EXCEPT ![t] = IF Holds(t)' THEN {Said(eff'[t])} ELSE {}]
  BY <1>6 DEF heldNow, Holds
<1>7. CASE StartUp
  <2>1. UNCHANGED <<pc, eff>>
    BY <1>7 DEF StartUp, SeedRead, SeedPush, SeedFails, Backfill, BackfillFails
  <2>2. heldNow' = heldNow
    BY <1>4, <2>1 DEF Holds
  <2>3. CASE UNCHANGED config
    BY <1>3, <1>5, <2>2, <2>3
  <2>4. CASE SeedPush
    <3>1. config' = copy[Background] /\ phase = "seedPush"
          /\ UNCHANGED <<rows, base, over>>
      BY <2>4 DEF SeedPush
    <3>2. CASE Managed(config'.map) = Managed(config.map)
      BY <1>3, <1>5, <2>2, <3>2
    <3>3. CASE /\ Managed(config.map)[CatchAll] = None
               /\ Managed(config'.map) = [Managed(config.map) EXCEPT ![CatchAll] = DefaultProfile]
      <4>1. wantedNow' = wantedNow
        BY <3>1 DEF wantedNow
      <4>2. /\ servedNow[CatchAll] = None
            /\ servedNow' = [servedNow EXCEPT ![CatchAll] = DefaultProfile]
        BY <3>3 DEF servedNow
      <4> QED
        BY <2>2, <4>1, <4>2 DEF Sync!Seed
    <3> QED
      BY <3>1, <3>2, <3>3 DEF SeedInv
  <2> QED
    BY <1>7, <2>3, <2>4 DEF StartUp, SeedRead, SeedFails, Backfill, BackfillFails
<1>8. CASE StartLoopPass
  <2>1. pc[Background] = "idle" /\ pc' = [pc EXCEPT ![Background] = "session"]
        /\ UNCHANGED <<eff, config>>
    BY <1>8 DEF StartLoopPass, Begin
  <2>2. \A t \in Ticks : Holds(t)' = Holds(t)
    BY <1>1, <2>1 DEF Holds, TypeOK
  <2> QED
    BY <1>3, <1>4, <1>5, <2>1, <2>2
<1>9. ASSUME NEW t \in Ticks, Finish(t)
      PROVE  heldNow' = [heldNow EXCEPT ![t] = {}]
  <2>1. /\ pc' = [pc EXCEPT ![t] = "idle"]
        /\ eff' = [eff EXCEPT ![t] = Nothing]
    BY <1>9 DEF Finish
  <2>2. \A u \in Ticks \ {t} : Holds(u)' = Holds(u) /\ eff'[u] = eff[u]
    BY <1>1, <2>1 DEF Holds, TypeOK
  <2>3. ~Holds(t)'
    BY <1>1, <2>1 DEF Holds, TypeOK
  <2> QED
    BY <1>6, <2>2, <2>3
\* A pass that ends has published what it read, all at once, or given it up.
<1>10. ASSUME NEW t \in Ticks, Finish(t), Holds(t), UNCHANGED <<rows, base, over>>,
              Managed(config'.map) \in {Managed(config.map), Said(eff[t])}
       PROVE  [Sync!Next]_(Sync!vars)
  <2>1. wantedNow' = wantedNow
    BY <1>10 DEF wantedNow
  <2>2. heldNow' = [heldNow EXCEPT ![t] = {}]
    BY <1>9, <1>10
  <2>3. heldNow[t] = {Said(eff[t])}
    BY <1>10 DEF heldNow, Holds
  <2>4. CASE Managed(config'.map) = Said(eff[t])
    <3>1. servedNow' = Said(eff[t])
      BY <2>4 DEF servedNow
    <3>2. Sync!Publish(t)
      BY <2>1, <2>2, <2>3, <3>1 DEF Sync!Publish
    <3> QED
      BY <3>2
  <2>5. CASE Managed(config'.map) = Managed(config.map)
    <3>1. Sync!GiveUp(t)
      BY <1>3, <2>1, <2>2, <2>5 DEF Sync!GiveUp
    <3> QED
      BY <3>1
  <2> QED
    BY <1>10, <2>4, <2>5
<1>11. ASSUME NEW t \in Ticks, ReadStore(t) PROVE [Sync!Next]_(Sync!vars)
  <2>1. /\ pc[t] = "session" /\ pc' = [pc EXCEPT ![t] = "apply"]
        /\ eff' = [eff EXCEPT ![t] = Effective(rows', base', over')]
        /\ UNCHANGED config
    BY <1>11 DEF ReadStore
  <2>2. /\ \A u \in Ticks \ {t} : Holds(u)' = Holds(u) /\ eff'[u] = eff[u]
        /\ Holds(t)' /\ ~Holds(t) /\ eff'[t] = Effective(rows', base', over')
    BY <1>1, <2>1 DEF Holds, TypeOK
  <2>3. heldNow' = [heldNow EXCEPT ![t] = {wantedNow'}]
    <3>1. wantedNow' = Said(Effective(rows', base', over'))
      BY DEF wantedNow
    <3> QED
      BY <1>6, <2>2, <3>1
  <2>4. heldNow[t] = {}
    BY <2>2 DEF heldNow, Holds
  <2>5. Sync!Read(t)
    BY <1>2, <1>3, <2>1, <2>3, <2>4 DEF Sync!Read
  <2> QED
    BY <2>5
<1>12. ASSUME NEW t \in Ticks, Fetch(t) PROVE [Sync!Next]_(Sync!vars)
  <2> DEFINE m == Reconciled(config.map, eff[t])
  <2>1. pc[t] = "apply" /\ UNCHANGED <<rows, base, over, config>>
    BY <1>12 DEF Fetch
  <2>2. CASE m = config.map
    <3>1. Finish(t)
      BY <1>12, <2>2 DEF Fetch
    <3> QED
      BY <1>10, <2>1, <3>1 DEF Holds
  <2>3. CASE m # config.map
    <3>1. pc' = [pc EXCEPT ![t] = "push"] /\ UNCHANGED eff
      BY <1>12, <2>3 DEF Fetch
    <3>2. \A u \in Ticks : Holds(u)' = Holds(u)
      BY <1>1, <2>1, <3>1 DEF Holds, TypeOK
    <3> QED
      BY <1>3, <1>4, <1>5, <2>1, <3>1, <3>2
  <2> QED
    BY <2>2, <2>3
<1>13. ASSUME NEW t \in Ticks, FetchFails(t) PROVE [Sync!Next]_(Sync!vars)
  BY <1>10, <1>13 DEF FetchFails, Holds
<1>14. ASSUME NEW t \in Ticks, Push(t) \/ PushFails(t) PROVE [Sync!Next]_(Sync!vars)
  <2>1. pc[t] = "push" /\ Finish(t) /\ UNCHANGED <<rows, base, over>>
        /\ (Save(t) \/ UNCHANGED config)
    BY <1>14 DEF Push, PushFails
  <2>2. CASE Save(t)
    <3>1. PICK m \in [Keys -> Entry] : copy[t].map = Reconciled(m, eff[t])
      BY <1>1, <2>1 DEF PushIsReconciled
    <3>2. eff[t] \in Resolved
      BY <1>1 DEF TypeOK
    <3>3. Managed(config'.map) = Said(eff[t])
      BY <2>2, <3>1, <3>2, ManagedReconciled DEF Save
    <3> QED
      BY <1>10, <2>1, <3>3 DEF Holds
  <2>3. CASE UNCHANGED config
    BY <1>10, <2>1, <2>3 DEF Holds
  <2> QED
    BY <2>1, <2>2, <2>3
<1>15. CASE Requests
  <2>1. UNCHANGED <<eff, config>>
    BY <1>15 DEF Requests, SetProfile, Pause, Resume, Touch
  <2>2. \/ UNCHANGED pc
        \/ \E t \in Ticks : pc[t] = "idle" /\ pc' = [pc EXCEPT ![t] = "session"]
    BY <1>15 DEF Requests, SetProfile, Pause, Resume, Touch, Kick, Begin, Ticks
  <2>3. \A t \in Ticks : Holds(t)' = Holds(t)
    BY <1>1, <2>2 DEF Holds, TypeOK
  <2> QED
    BY <1>3, <1>4, <1>5, <2>1, <2>3
<1>16. CASE Environment
  <2>1. CASE Crash
    <3>1. UNCHANGED <<rows, base, over, config>> /\ pc' = [t \in Ticks |-> "idle"]
      BY <2>1 DEF Crash
    <3>2. wantedNow' = wantedNow /\ servedNow' = servedNow
      BY <3>1 DEF wantedNow, servedNow
    <3>3. heldNow' = [t \in Ticks |-> {}]
      BY <3>1 DEF heldNow
    <3>4. Sync!Restart
      BY <3>2, <3>3 DEF Sync!Restart
    <3> QED
      BY <3>4
  <2>2. ASSUME NEW ip \in IPs, Expire(ip) PROVE [Sync!Next]_(Sync!vars)
    <3>1. UNCHANGED <<pc, eff, config>>
      BY <2>2 DEF Expire
    <3> QED
      BY <1>3, <1>4, <1>5, <3>1 DEF Holds
  <2>3. ASSUME NEW k \in Keys, NEW g \in UserGroups \cup {None}, MapByHand(k, g)
        PROVE  [Sync!Next]_(Sync!vars)
    <3>1. UNCHANGED <<pc, eff>>
      BY <2>3 DEF MapByHand
    <3> QED
      BY <1>1, <1>3, <1>4, <1>5, <2>3, <3>1, ByHandIsNotManaged DEF Holds
  <2> QED
    BY <1>16, <2>1, <2>2, <2>3, ConsoleType DEF Environment
<1>17. CASE UNCHANGED vars
  <2>1. UNCHANGED <<pc, eff, config>>
    BY <1>17 DEF vars
  <2> QED
    BY <1>3, <1>4, <1>5, <2>1 DEF Holds
<1> QED
  BY <1>7, <1>8, <1>11, <1>12, <1>13, <1>14, <1>15, <1>16, <1>17 DEF Next, Pass

(* Whatever passes overlap and whatever fails or restarts, the entries that are
   Guardium's are at all times those of one moment of the store: the passes of
   the reconciler implement ProfileSync.                                     *)
THEOREM PassesFollowTheStore == Spec => NetworkFollowsStore
<1>1. Init => Sync!Init
  <2> SUFFICES ASSUME Init PROVE Sync!Init
    OBVIOUS
  <2>1. Effective(rows, base, over) \in Resolved
    BY TypeInit, EffectiveType, ResolvedMember DEF TypeOK
  <2>2. heldNow = [t \in Ticks |-> {}]
    BY DEF Init, heldNow
  <2> QED
    BY <2>1, <2>2, SaidType, ManagedType DEF Sync!Init, Sync!Sayings, wantedNow, servedNow
<1>2. Init => SeedInv
  BY DEF Init, SeedInv
<1>3. SettledInv /\ SeedInv /\ [Next]_vars => SeedInv'
  BY SeedStep DEF SettledInv
<1>4. SettledInv /\ SettledInv' /\ SeedInv /\ [Next]_vars => [Sync!Next]_(Sync!vars)
  BY SyncStep DEF SettledInv
<1> QED
  BY <1>1, <1>2, <1>3, <1>4, SettledInvHolds, PTL DEF Spec, NetworkFollowsStore, Sync!Spec
=============================================================================
