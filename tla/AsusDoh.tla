------------------------------- MODULE AsusDoh -------------------------------
(***************************************************************************)
(* Stage 3 of the ASUS adapter (AsusAdapter.apply_doh_block, AsusSshClient): *)
(* packets from filtered devices to known DoH servers are dropped by rules  *)
(* in a chain of the dashboard's own, put on the router over SSH.           *)
(*                                                                          *)
(* The chain lives in the router's memory: a reboot forgets it, so every    *)
(* pass builds it anew, command by command, with an await at each.  Passes  *)
(* share the chain, and the scratch rule with which they find out what the  *)
(* kernel can do, without a lock.  The answers of some commands are looked  *)
(* at and those of others are not.                                          *)
(*                                                                          *)
(* The three rules of a device stand and fall together here, duplicates of  *)
(* a rule are not told apart (a flush takes them all), and the addresses of *)
(* the servers are all in the set or none is.                               *)
(***************************************************************************)
EXTENDS Naturals, FiniteSets, Sequences

CONSTANTS
    Loop, Kicks,    \* the background pass, and those of request handlers
    MACs,           \* devices with a row
    Faults,         \* what may go wrong
    MaxEdits, MaxFaults     \* bounds

Passes == {Loop} \cup Kicks

ASSUME DohAssumption ==
    /\ Loop \notin Kicks /\ IsFiniteSet(Kicks)
    /\ Faults \subseteq {"cut", "refused", "reboot", "crash"}
    /\ MaxEdits \in Nat /\ MaxFaults \in Nat

VARIABLES
    protect,    \* devices whose profile in force is a filtering one
    enabled,    \* is there an adapter?  settings router.vendor, router.asus.enabled
    doh,        \* settings ssh_enabled and doh_block_enabled, both on
    managed,    \* setting managed_doh_macs
    fw,         \* what the router holds of ours
    job,        \* what each pass holds
    owed,       \* request passes that have not begun
    unsure,     \* "chain", "probe": may hold something nobody will take away
    edits, faults

people == <<protect, enabled, doh, owed, edits>>
vars   == <<people, managed, fw, job, unsure, faults>>

\* The address set and whether it is filled, our chain, the devices it drops,
\* the jumps to it from FORWARD, and the probe's own set and rules in INPUT.
Firewall == [set : BOOLEAN, filled : BOOLEAN, chain : BOOLEAN, drops : SUBSET MACs,
             jumps : Nat, probe : BOOLEAN, inputs : Nat]

Untouched == [set |-> FALSE, filled |-> FALSE, chain |-> FALSE, drops |-> {},
              jumps |-> 0, probe |-> FALSE, inputs |-> 0]

\* has_iptables_match_set: the trial, and the cleaning up after it.
Probing  == {"create", "insert", "delete", "destroy", "sweepRule", "sweepSet"}
Building == {"ipset", "empty", "fill", "chain", "check", "jump", "flush", "add"}

Leaving  == {"unjump", "reflush", "deleteChain", "deleteSet", "record"}

\* Steps at which the chain may be half way.
Touching  == Building \cup Leaving
Connected == Probing \cup Touching

NoJob == [step |-> "idle", want |-> {}, todo |-> {}, ok |-> TRUE]
Job   == [step : {"idle", "load"} \cup Connected, want : SUBSET MACs,
          todo : SUBSET MACs, ok : BOOLEAN]

Init ==
    /\ protect = {}
    /\ enabled = TRUE /\ doh = FALSE
    /\ managed = {}
    /\ fw = Untouched
    /\ job = [p \in Passes |-> NoJob]
    /\ owed = 0
    /\ unsure = {}
    /\ edits = 0 /\ faults = 0

-----------------------------------------------------------------------------
(* A pass, up to the connection. *)

At(p, step)  == job[p].step = step
Goto(p, new) == job' = [job EXCEPT ![p] = new]

\* The wanted devices are those of the beginning of the pass.
Begin(p) ==
    /\ At(p, "idle")
    /\ enabled
    /\ IF p = Loop THEN owed' = owed ELSE owed > 0 /\ owed' = owed - 1
    /\ Goto(p, [NoJob EXCEPT !.step = "load", !.want = protect])
    /\ UNCHANGED <<protect, enabled, doh, edits, managed, fw, unsure, faults>>

\* Wrong: what is on record is on the router.
LoadUnlessSame(p) ==
    /\ At(p, "load")
    /\ LET want == IF doh THEN job[p].want ELSE {}
       IN  IF want = managed THEN Goto(p, NoJob)
           ELSE Goto(p, [NoJob EXCEPT !.step = "create", !.want = want])
    /\ UNCHANGED <<people, managed, fw, unsure, faults>>

\* A stage that is off takes down what is on record.  One that is on builds
\* everything again: the adapter is new in every pass and remembers no push.
Load(p) ==
    /\ At(p, "load")
    /\ Goto(p, IF ~doh /\ managed = {} THEN NoJob
               ELSE [NoJob EXCEPT !.step = "create",
                                  !.want = IF doh THEN job[p].want ELSE {}])
    /\ UNCHANGED <<people, managed, fw, unsure, faults>>

-----------------------------------------------------------------------------
(* Commands. *)

\* The router does not carry the command out, though it could have: another
\* program holds the lock of its tables.
Refused ==
    /\ "refused" \in Faults /\ faults < MaxFaults
    /\ faults' = faults + 1

\* A command makes the router `new` if it can be carried out now.
Command(p, step, works, new, then, otherwise) ==
    /\ At(p, step)
    /\ \/ works /\ fw' = new /\ Goto(p, then) /\ UNCHANGED faults
       \/ ~works /\ Goto(p, otherwise) /\ UNCHANGED <<fw, faults>>
       \/ Refused /\ Goto(p, otherwise) /\ UNCHANGED fw
    /\ UNCHANGED <<people, managed>>

To(p, step) == [job[p] EXCEPT !.step = step]

\* The probe has failed: clean up, then give up.
NoMatchSet(p) == [job[p] EXCEPT !.step = "sweepRule", !.ok = FALSE]

ProbeCreate(p) ==
    /\ Command(p, "create", TRUE, [fw EXCEPT !.probe = TRUE], To(p, "insert"), NoMatchSet(p))
    /\ UNCHANGED unsure

ProbeInsert(p) ==
    /\ Command(p, "insert", fw.probe, [fw EXCEPT !.inputs = @ + 1],
               To(p, "delete"), NoMatchSet(p))
    /\ UNCHANGED unsure

ProbeDelete(p) ==
    /\ Command(p, "delete", fw.inputs > 0, [fw EXCEPT !.inputs = @ - 1],
               To(p, "destroy"), NoMatchSet(p))
    /\ UNCHANGED unsure

Destroyable == fw.probe /\ fw.inputs = 0

ProbeDestroy(p) ==
    /\ Command(p, "destroy", Destroyable, [fw EXCEPT !.probe = FALSE],
               To(p, "sweepRule"), NoMatchSet(p))
    /\ UNCHANGED unsure

\* Wrong: only the set is cleaned up.
SweepNoRule(p) ==
    /\ Command(p, "sweepRule", FALSE, fw, To(p, "sweepSet"), To(p, "sweepSet"))
    /\ UNCHANGED unsure

\* A refused cleaning command leaves a rule or a set behind.
SweepRule(p) ==
    /\ Command(p, "sweepRule", fw.inputs > 0, [fw EXCEPT !.inputs = @ - 1],
               To(p, "sweepSet"), To(p, "sweepSet"))
    /\ unsure' = IF faults' = faults THEN unsure ELSE unsure \cup {"probe"}

\* From here on the pass changes the chain; another may be doing the same.
Overlapped(p) == \E q \in Passes \ {p} : job[q].step \in Touching

SweepSet(p) ==
    LET j     == job[p]
        start == IF ~j.ok THEN NoJob
                 ELSE IF j.want = {} THEN To(p, "flush") ELSE To(p, "ipset")
    IN  /\ Command(p, "sweepSet", Destroyable, [fw EXCEPT !.probe = FALSE], start, start)
        /\ unsure' = unsure \cup (IF faults' = faults THEN {} ELSE {"probe"})
                            \cup (IF j.ok /\ Overlapped(p) THEN {"chain"} ELSE {})

\* Wrong: a chain that is still jumped to cannot be deleted.
AfterChainFirst == [flush |-> "reflush", reflush |-> "deleteChain",
                    deleteChain |-> "unjump", unjump |-> "deleteSet"]

\* The order of a teardown.
After == [flush |-> "unjump", unjump |-> "reflush", reflush |-> "deleteChain",
          deleteChain |-> "deleteSet"]

\* An error ends the pass; if this was to be the first push, what has been
\* built so far is on no record.
Error == NoJob
GivesUp(p) == unsure' = IF managed = {} /\ job'[p].step = "idle"
                        THEN unsure \cup {"chain"} ELSE unsure

\* A refusal goes unnoticed.
Unnoticed == unsure' = IF faults' = faults THEN unsure ELSE unsure \cup {"chain"}

EnsureSet(p) ==
    /\ Command(p, "ipset", TRUE, [fw EXCEPT !.set = TRUE], To(p, "empty"), Error)
    /\ UNCHANGED unsure

EmptySet(p) ==
    /\ Command(p, "empty", fw.set, [fw EXCEPT !.filled = FALSE], To(p, "fill"), Error)
    /\ GivesUp(p)

\* All at once or, failing that, address by address; nobody looks how that went.
FillSet(p) ==
    /\ Command(p, "fill", fw.set, [fw EXCEPT !.filled = TRUE],
               To(p, "chain"), To(p, "chain"))
    /\ UNCHANGED unsure

NewChain(p) ==
    /\ Command(p, "chain", ~fw.chain, [fw EXCEPT !.chain = TRUE],
               To(p, "check"), To(p, "check"))
    /\ UNCHANGED unsure

\* A refusal looks like the answer that there is no jump yet.
CheckJump(p) ==
    /\ Command(p, "check", fw.jumps > 0, fw, To(p, "flush"), To(p, "jump"))
    /\ Unnoticed

AddJump(p) ==
    /\ Command(p, "jump", fw.chain, [fw EXCEPT !.jumps = @ + 1], To(p, "flush"), Error)
    /\ GivesUp(p)

Flush(p) ==
    LET then == IF job[p].want = {} THEN To(p, After.flush)
                ELSE [To(p, "add") EXCEPT !.todo = job[p].want]
    IN  /\ Command(p, "flush", fw.chain, [fw EXCEPT !.drops = {}], then, then)
        /\ UNCHANGED unsure

\* A rule that cannot be added is logged, and recorded like the others.
AddRule(p) ==
    \E m \in job[p].todo :
        LET left == job[p].todo \ {m}
            then == [job[p] EXCEPT !.todo = left,
                                   !.step = IF left = {} THEN "record" ELSE "add"]
        IN  /\ Command(p, "add", fw.chain /\ fw.set, [fw EXCEPT !.drops = @ \cup {m}],
                       then, then)
            /\ UNCHANGED unsure

\* Removes one jump, however many there are.
Unjump(p) ==
    /\ Command(p, "unjump", fw.jumps > 0, [fw EXCEPT !.jumps = @ - 1],
               To(p, After.unjump), To(p, After.unjump))
    /\ Unnoticed

Reflush(p) ==
    /\ Command(p, "reflush", fw.chain, [fw EXCEPT !.drops = {}],
               To(p, After.reflush), To(p, After.reflush))
    /\ Unnoticed

\* A chain that has rules or is jumped to cannot be deleted,
DeleteChain(p) ==
    /\ Command(p, "deleteChain", fw.chain /\ fw.drops = {} /\ fw.jumps = 0,
               [fw EXCEPT !.chain = FALSE], To(p, After.deleteChain), To(p, After.deleteChain))
    /\ Unnoticed

\* nor a set that a rule refers to.
DeleteSet(p) ==
    /\ Command(p, "deleteSet", fw.set /\ fw.drops = {},
               [fw EXCEPT !.set = FALSE, !.filled = FALSE], To(p, "record"), To(p, "record"))
    /\ Unnoticed

\* Wrong: the rules are recorded, three to a device, and not the devices.
RecordRules(p) ==
    /\ At(p, "record")
    /\ managed' = job[p].want \X {"tcp/443", "udp/443", "tcp/853"}
    /\ Goto(p, NoJob)
    /\ UNCHANGED <<people, fw, unsure, faults>>

Record(p) ==
    /\ At(p, "record")
    /\ managed' = job[p].want
    /\ Goto(p, NoJob)
    /\ UNCHANGED <<people, fw, unsure, faults>>

-----------------------------------------------------------------------------
(* Failures. *)

Fault(f) ==
    /\ f \in Faults /\ faults < MaxFaults
    /\ faults' = faults + 1

\* What these passes leave behind when they end here.
Dropped(ps) ==
    unsure \cup {"probe" : p \in {q \in ps : job[q].step \in Probing}}
           \cup {"chain" : p \in {q \in ps : job[q].step \in Touching /\ managed = {}}}

\* The connection is lost, before or after a command was carried out.
Cut(p) ==
    /\ job[p].step \in Connected
    /\ Fault("cut")
    /\ Goto(p, NoJob)
    /\ unsure' = Dropped({p})
    /\ UNCHANGED <<people, managed, fw>>

\* The router restarts with what is in its NVRAM, and that is nothing of this.
Reboot ==
    /\ Fault("reboot")
    /\ fw' = Untouched
    /\ job' = [p \in Passes |-> IF job[p].step \in Connected THEN NoJob ELSE job[p]]
    /\ unsure' = {}
    /\ UNCHANGED <<people, managed>>

\* The dashboard dies, with the requests it was working on.
Crash ==
    /\ Fault("crash")
    /\ job' = [p \in Passes |-> NoJob]
    /\ owed' = 0
    /\ unsure' = Dropped(Passes)
    /\ UNCHANGED <<protect, enabled, doh, edits, managed, fw>>

-----------------------------------------------------------------------------
(* Users. *)

Edit ==
    /\ edits < MaxEdits
    /\ edits' = edits + 1
    /\ UNCHANGED <<managed, fw, job, unsure, faults>>

SetProfile(m) ==
    /\ Edit
    /\ protect' = IF m \in protect THEN protect \ {m} ELSE protect \cup {m}
    /\ owed' = owed + 1
    /\ UNCHANGED <<enabled, doh>>

ToggleDoh ==
    /\ Edit
    /\ doh' = ~doh
    /\ owed' = owed + 1
    /\ UNCHANGED <<protect, enabled>>

\* Another vendor, none, or not enabled.  A request that is refused for its DNS
\* Director address has saved this already, and starts no pass.
ToggleEnabled ==
    /\ Edit
    /\ enabled' = ~enabled
    /\ owed' \in {owed, owed + 1}
    /\ UNCHANGED <<protect, doh>>

Users == ToggleDoh \/ ToggleEnabled \/ \E m \in MACs : SetProfile(m)

Probe(p) ==
    \/ ProbeCreate(p) \/ ProbeInsert(p) \/ ProbeDelete(p) \/ ProbeDestroy(p)
    \/ SweepRule(p) \/ SweepSet(p)

Build(p) ==
    \/ EnsureSet(p) \/ EmptySet(p) \/ FillSet(p) \/ NewChain(p) \/ CheckJump(p)
    \/ AddJump(p) \/ Flush(p) \/ AddRule(p)

TearDown(p) == Unjump(p) \/ Reflush(p) \/ DeleteChain(p) \/ DeleteSet(p)

Advance(p) == Load(p) \/ Probe(p) \/ Build(p) \/ TearDown(p) \/ Record(p)

Next ==
    \/ Users \/ Reboot \/ Crash
    \/ \E p \in Passes : Begin(p) \/ Advance(p) \/ Cut(p)

\* The loop begins a pass every minute, and a command is answered or the
\* connection found dead.
Fairness == WF_vars(Begin(Loop)) /\ \A p \in Passes : WF_vars(Advance(p))

Spec == Init /\ [][Next]_vars /\ Fairness

-----------------------------------------------------------------------------
(* Properties. *)

TypeOK ==
    /\ protect \subseteq MACs
    /\ enabled \in BOOLEAN /\ doh \in BOOLEAN
    /\ managed \subseteq MACs
    /\ fw \in Firewall
    /\ job \in [Passes -> Job]
    /\ owed \in Nat
    /\ unsure \subseteq {"chain", "probe"}
    /\ edits \in 0..MaxEdits /\ faults \in 0..MaxFaults

Busy(steps) == \E p \in Passes : job[p].step \in steps

OursGone == ~fw.set /\ ~fw.chain /\ fw.drops = {} /\ fw.jumps = 0

(* "The firewall is back to exactly the user's pre-dashboard state": whenever
   the record says that nothing is pushed, and no pass is at work, there is
   neither chain nor jump nor set on the router, whatever the order of pushes
   and teardowns, reboots and crashes before.  Only a first push that ended half
   way, a command that was refused unnoticed or two passes at work on the chain
   at once can break this, and only until the router is restarted.           *)
NothingForgotten ==
    "chain" \notin unsure /\ ~Busy(Touching) /\ managed = {} => OursGone

(* The probe's rule and set are gone from the router when no probe is under
   way, however probes interleave: each takes away what the others have put
   there as readily as its own, and none is left over.                       *)
ProbesCleanUp ==
    "probe" \notin unsure /\ ~Busy(Probing) => ~fw.probe /\ fw.inputs = 0

Covered ==
    /\ fw.drops = protect
    /\ protect # {} => fw.set /\ fw.filled /\ fw.jumps > 0
    /\ ~fw.probe /\ fw.inputs = 0

(* Once people stop changing things, between passes the router drops the DoH
   packets of exactly the filtered devices, and holds nothing when the stage is
   off: a reboot, a refused rule, a cut connection or a probe spoilt by another
   pass is made good by a later pass.  What a first push that ended half way, a
   refusal that went unnoticed or two passes at work on the chain at once may
   have left is not taken away when the stage is off, until a restart of the
   router.                                                                   *)
EventuallyCovered ==
    <>[](enabled /\ ~Busy(Connected) =>
            IF doh THEN Covered ELSE OursGone \/ "chain" \in unsure)
=============================================================================
