--------------------------- MODULE AsusDohProofs ---------------------------
(* The DoH chain, for any number of devices, passes, edits and faults. *)
EXTENDS AsusDoh, FiniteSetTheorems, TLAPS

\* A step moves p and no other pass.
Moves(p) == job' = [job EXCEPT ![p] = job'[p]]

LEMMA MoveTypes ==
    ASSUME TypeOK, NEW p \in Passes, Moves(p), job'[p] \in Job
    PROVE  job' \in [Passes -> Job] /\ \A q \in Passes \ {p} : job'[q] = job[q]
  BY DEF Moves, TypeOK

LEMMA NoJobIsJob == NoJob \in Job /\ NoJob.step = "idle" /\ NoJob.want = {}
  BY DEF NoJob, Job

LEMMA ToIsJob ==
    ASSUME TypeOK, NEW p \in Passes, NEW s \in {"idle", "load"} \cup Connected
    PROVE  /\ To(p, s) \in Job /\ To(p, s).step = s
           /\ To(p, s).want = job[p].want /\ To(p, s).ok = job[p].ok
  BY DEF To, TypeOK, Job

LEMMA NoMatchSetIsJob ==
    ASSUME TypeOK, NEW p \in Passes
    PROVE  NoMatchSet(p) \in Job /\ NoMatchSet(p).step = "sweepRule"
  BY DEF NoMatchSet, TypeOK, Job, Connected, Probing

LEMMA StepNames ==
    /\ Probing \subseteq Connected /\ Touching \subseteq Connected
    /\ Building \subseteq Touching /\ Leaving \subseteq Touching
    /\ Probing \cap Touching = {}
    /\ "idle" \notin Connected /\ "load" \notin Connected
  BY DEF Probing, Connected, Touching, Building, Leaving

\* A command that makes the router `new` and the pass one of two jobs.
LEMMA CommandTypes ==
    ASSUME TypeOK, NEW p \in Passes, NEW s, NEW STATE works, works \in BOOLEAN,
           NEW STATE new, works => new \in Firewall,
           NEW STATE then, then \in Job, NEW STATE otherwise, otherwise \in Job,
           Command(p, s, works, new, then, otherwise)
    PROVE  /\ UNCHANGED <<people, managed>>
           /\ job[p].step = s
           /\ fw' \in Firewall /\ job' \in [Passes -> Job] /\ faults' \in 0..MaxFaults
           /\ Moves(p)
           /\ \/ works /\ fw' = new /\ job'[p] = then /\ faults' = faults
              \/ ~works /\ fw' = fw /\ job'[p] = otherwise /\ faults' = faults
              \/ faults' # faults /\ fw' = fw /\ job'[p] = otherwise
<1>0. DohAssumption
  BY DohAssumption
<1> QED
  BY <1>0 DEF Command, TypeOK, Moves, At, Goto, Refused, DohAssumption


\* What every step of a pass leaves alone, and the types of the rest.
Steps(p) ==
    /\ UNCHANGED people
    /\ fw' \in Firewall /\ job' \in [Passes -> Job] /\ faults' \in 0..MaxFaults
    /\ unsure \subseteq unsure' /\ unsure' \subseteq {"chain", "probe"}
    /\ Moves(p)
    /\ job[p] \in Job /\ job'[p] \in Job

SameChain == /\ fw'.set = fw.set /\ fw'.chain = fw.chain
             /\ fw'.drops = fw.drops /\ fw'.jumps = fw.jumps
SameProbe == fw'.probe = fw.probe /\ fw'.inputs = fw.inputs

-----------------------------------------------------------------------------
(* The steps of a probe. *)

LEMMA CreateSteps ==
    ASSUME TypeOK, NEW p \in Passes, ProbeCreate(p)
    PROVE  /\ Steps(p) /\ SameChain /\ UNCHANGED <<managed, unsure>>
           /\ job[p].step = "create" /\ job'[p].step \in {"insert", "sweepRule"}
           /\ fw'.inputs = fw.inputs
<1> DEFINE new == [fw EXCEPT !.probe = TRUE]
           then == To(p, "insert")
           else == NoMatchSet(p)
<1>1. new \in Firewall /\ new = [fw EXCEPT !.probe = TRUE]
  BY DEF TypeOK, Firewall
<1>2. then \in Job /\ then.step = "insert" /\ else \in Job /\ else.step = "sweepRule"
  BY ToIsJob, NoMatchSetIsJob DEF Connected, Probing
<1>3. Command(p, "create", TRUE, new, then, else) /\ UNCHANGED unsure
  BY DEF ProbeCreate
<1> HIDE DEF new, then, else
<1>4. /\ UNCHANGED <<people, managed>>
      /\ fw' \in Firewall /\ job' \in [Passes -> Job] /\ faults' \in 0..MaxFaults
      /\ Moves(p)
      /\ \/ TRUE /\ fw' = new /\ job'[p] = then /\ faults' = faults
         \/ ~(TRUE) /\ fw' = fw /\ job'[p] = else /\ faults' = faults
         \/ faults' # faults /\ fw' = fw /\ job'[p] = else
  BY <1>1, <1>2, <1>3, CommandTypes
<1>5. Steps(p)
  BY <1>3, <1>4 DEF Steps, TypeOK
<1>6. job[p].step = "create"
  BY <1>3 DEF Command, At
<1> QED
  BY <1>1, <1>2, <1>3, <1>4, <1>5, <1>6 DEF SameChain, TypeOK, Firewall

LEMMA InsertSteps ==
    ASSUME TypeOK, NEW p \in Passes, ProbeInsert(p)
    PROVE  /\ Steps(p) /\ SameChain /\ UNCHANGED <<managed, unsure>>
           /\ job[p].step = "insert" /\ fw'.probe = fw.probe
           /\ \/ job'[p].step = "delete" /\ fw'.inputs = fw.inputs + 1
              \/ job'[p].step = "sweepRule" /\ fw'.inputs = fw.inputs
<1> DEFINE new == [fw EXCEPT !.inputs = @ + 1]
           then == To(p, "delete")
           else == NoMatchSet(p)
<1>1. new \in Firewall /\ new = [fw EXCEPT !.inputs = @ + 1] /\ fw.probe \in BOOLEAN
  BY DEF TypeOK, Firewall
<1>2. then \in Job /\ then.step = "delete" /\ else \in Job /\ else.step = "sweepRule"
  BY ToIsJob, NoMatchSetIsJob DEF Connected, Probing
<1>3. Command(p, "insert", fw.probe, new, then, else) /\ UNCHANGED unsure
  BY DEF ProbeInsert
<1> HIDE DEF new, then, else
<1>4. /\ UNCHANGED <<people, managed>>
      /\ fw' \in Firewall /\ job' \in [Passes -> Job] /\ faults' \in 0..MaxFaults
      /\ Moves(p)
      /\ \/ fw.probe /\ fw' = new /\ job'[p] = then /\ faults' = faults
         \/ ~(fw.probe) /\ fw' = fw /\ job'[p] = else /\ faults' = faults
         \/ faults' # faults /\ fw' = fw /\ job'[p] = else
  BY <1>1, <1>2, <1>3, CommandTypes
<1>5. Steps(p)
  BY <1>3, <1>4 DEF Steps, TypeOK
<1>6. job[p].step = "insert"
  BY <1>3 DEF Command, At
<1> QED
  BY <1>1, <1>2, <1>3, <1>4, <1>5, <1>6 DEF SameChain, TypeOK, Firewall

LEMMA DeleteSteps ==
    ASSUME TypeOK, NEW p \in Passes, ProbeDelete(p)
    PROVE  /\ Steps(p) /\ SameChain /\ UNCHANGED <<managed, unsure>>
           /\ job[p].step = "delete" /\ fw'.probe = fw.probe
           /\ \/ job'[p].step = "destroy" /\ fw'.inputs = fw.inputs - 1
              \/ job'[p].step = "sweepRule" /\ fw'.inputs = fw.inputs
<1> DEFINE works == fw.inputs > 0
           new == [fw EXCEPT !.inputs = @ - 1]
           then == To(p, "destroy")
           else == NoMatchSet(p)
<1>1. /\ works \in BOOLEAN /\ (works <=> fw.inputs > 0)
      /\ works => new \in Firewall
      /\ new = [fw EXCEPT !.inputs = @ - 1]
  BY DEF TypeOK, Firewall
<1>2. then \in Job /\ then.step = "destroy" /\ else \in Job /\ else.step = "sweepRule"
  BY ToIsJob, NoMatchSetIsJob DEF Connected, Probing
<1>3. Command(p, "delete", works, new, then, else) /\ UNCHANGED unsure
  BY DEF ProbeDelete
<1> HIDE DEF works, new, then, else
<1>4. /\ UNCHANGED <<people, managed>>
      /\ fw' \in Firewall /\ job' \in [Passes -> Job] /\ faults' \in 0..MaxFaults
      /\ Moves(p)
      /\ \/ works /\ fw' = new /\ job'[p] = then /\ faults' = faults
         \/ ~works /\ fw' = fw /\ job'[p] = else /\ faults' = faults
         \/ faults' # faults /\ fw' = fw /\ job'[p] = else
  BY <1>1, <1>2, <1>3, DohAssumption
  DEF Command, TypeOK, Moves, At, Goto, Refused, DohAssumption
<1>5. Steps(p)
  BY <1>3, <1>4 DEF Steps, TypeOK
<1>6. job[p].step = "delete"
  BY <1>3 DEF Command, At
<1> QED
  BY <1>1, <1>2, <1>3, <1>4, <1>5, <1>6 DEF SameChain, TypeOK, Firewall

LEMMA DestroySteps ==
    ASSUME TypeOK, NEW p \in Passes, ProbeDestroy(p)
    PROVE  /\ Steps(p) /\ SameChain /\ UNCHANGED <<managed, unsure>>
           /\ job[p].step = "destroy" /\ job'[p].step = "sweepRule"
           /\ fw'.inputs = fw.inputs
<1> DEFINE works == Destroyable
           new == [fw EXCEPT !.probe = FALSE]
           then == To(p, "sweepRule")
           else == NoMatchSet(p)
<1>1. new \in Firewall /\ new = [fw EXCEPT !.probe = FALSE] /\ works \in BOOLEAN
  BY DEF TypeOK, Firewall, Destroyable
<1>2. then \in Job /\ then.step = "sweepRule" /\ else \in Job /\ else.step = "sweepRule"
  BY ToIsJob, NoMatchSetIsJob DEF Connected, Probing
<1>3. Command(p, "destroy", works, new, then, else) /\ UNCHANGED unsure
  BY DEF ProbeDestroy
<1> HIDE DEF works, new, then, else
<1>4. /\ UNCHANGED <<people, managed>> /\ fw' \in {new, fw}
      /\ \/ job' = [job EXCEPT ![p] = then]
         \/ job' = [job EXCEPT ![p] = else]
      /\ faults' = faults \/ Refused
  BY <1>3 DEF Command, Goto
<1>5. Steps(p) /\ job'[p] \in {then, else}
  <2>1. job \in [Passes -> Job]
    BY DEF TypeOK
  <2>2. job' \in [Passes -> Job] /\ job'[p] \in {then, else} /\ Moves(p)
    BY <2>1, <1>2, <1>4 DEF Moves
  <2>3. faults' \in 0..MaxFaults
    BY <1>4, DohAssumption DEF Refused, TypeOK, DohAssumption
  <2> QED
    BY <1>1, <1>2, <1>3, <1>4, <2>1, <2>2, <2>3 DEF Steps, TypeOK
<1>6. job[p].step = "destroy"
  BY <1>3 DEF Command, At
<1> QED
  BY <1>1, <1>2, <1>3, <1>4, <1>5, <1>6 DEF SameChain, TypeOK, Firewall, Destroyable

LEMMA SweepRuleSteps ==
    ASSUME TypeOK, NEW p \in Passes, SweepRule(p)
    PROVE  /\ Steps(p) /\ SameChain /\ UNCHANGED managed
           /\ job[p].step = "sweepRule" /\ job'[p].step = "sweepSet"
           /\ fw'.probe = fw.probe
           /\ \/ fw.inputs = 0 /\ fw'.inputs = 0
              \/ fw'.inputs = fw.inputs - 1
              \/ "probe" \in unsure'
           /\ "chain" \in unsure' => "chain" \in unsure
<1> DEFINE works == fw.inputs > 0
           new == [fw EXCEPT !.inputs = @ - 1]
           then == To(p, "sweepSet")
<1>1. /\ works \in BOOLEAN /\ (works <=> fw.inputs > 0)
      /\ works => new \in Firewall
      /\ new = [fw EXCEPT !.inputs = @ - 1]
  BY DEF TypeOK, Firewall
<1>2. then \in Job /\ then.step = "sweepSet"
  BY ToIsJob DEF Connected, Probing
<1>3. /\ Command(p, "sweepRule", works, new, then, then)
      /\ unsure' = IF faults' = faults THEN unsure ELSE unsure \cup {"probe"}
  BY DEF SweepRule
<1> HIDE DEF works, new, then
<1>4. /\ UNCHANGED <<people, managed>>
      /\ fw' \in Firewall /\ job' \in [Passes -> Job] /\ faults' \in 0..MaxFaults
      /\ Moves(p)
      /\ \/ works /\ fw' = new /\ job'[p] = then /\ faults' = faults
         \/ ~works /\ fw' = fw /\ job'[p] = then /\ faults' = faults
         \/ faults' # faults /\ fw' = fw /\ job'[p] = then
  BY <1>1, <1>2, <1>3, DohAssumption
  DEF Command, TypeOK, Moves, At, Goto, Refused, DohAssumption
<1>5. Steps(p)
  BY <1>3, <1>4 DEF Steps, TypeOK
<1>6. job[p].step = "sweepRule"
  BY <1>3 DEF Command, At
<1> QED
  BY <1>1, <1>2, <1>3, <1>4, <1>5, <1>6 DEF SameChain, TypeOK, Firewall

\* The step into the chain.
LEMMA SweepSetSteps ==
    ASSUME TypeOK, NEW p \in Passes, SweepSet(p)
    PROVE  /\ Steps(p) /\ SameChain /\ UNCHANGED managed
           /\ job[p].step = "sweepSet" /\ fw'.inputs = fw.inputs
           /\ \/ ~fw'.probe \/ fw'.inputs # 0 \/ "probe" \in unsure'
           /\ \/ job'[p].step = "idle"
              \/ job'[p].step = "flush" /\ job'[p].want = {}
              \/ job'[p].step = "ipset" /\ job'[p].want # {}
           /\ Overlapped(p) /\ job'[p].step # "idle" => "chain" \in unsure'
<1> DEFINE new == [fw EXCEPT !.probe = FALSE]
           start == IF ~job[p].ok THEN NoJob
                    ELSE IF job[p].want = {} THEN To(p, "flush") ELSE To(p, "ipset")
<1>1. new \in Firewall /\ new = [fw EXCEPT !.probe = FALSE] /\ Destroyable \in BOOLEAN
  BY DEF TypeOK, Firewall, Destroyable
<1>2. /\ start \in Job
      /\ \/ start.step = "idle"
         \/ start.step = "flush" /\ start.want = {} /\ job[p].ok
         \/ start.step = "ipset" /\ start.want # {} /\ job[p].ok
  BY ToIsJob, NoJobIsJob DEF Connected, Probing, Touching, Building
<1>3. /\ Command(p, "sweepSet", Destroyable, new, start, start)
      /\ unsure' = unsure \cup (IF faults' = faults THEN {} ELSE {"probe"})
                          \cup (IF job[p].ok /\ Overlapped(p) THEN {"chain"} ELSE {})
  BY DEF SweepSet
<1> HIDE DEF new, start
<1>4. /\ UNCHANGED <<people, managed>>
      /\ fw' \in Firewall /\ job' \in [Passes -> Job] /\ faults' \in 0..MaxFaults
      /\ Moves(p)
      /\ \/ Destroyable /\ fw' = new /\ job'[p] = start /\ faults' = faults
         \/ ~(Destroyable) /\ fw' = fw /\ job'[p] = start /\ faults' = faults
         \/ faults' # faults /\ fw' = fw /\ job'[p] = start
  BY <1>1, <1>2, <1>3, CommandTypes
<1>5. Steps(p)
  BY <1>3, <1>4 DEF Steps, TypeOK
<1>6. job[p].step = "sweepSet"
  BY <1>3 DEF Command, At
<1> QED
  BY <1>1, <1>2, <1>3, <1>4, <1>5, <1>6 DEF SameChain, TypeOK, Firewall, Destroyable
-----------------------------------------------------------------------------
(* The steps of a pass that is at work on the chain. *)

LEMMA CommandSteps ==
    ASSUME TypeOK, NEW p \in Passes, NEW STATE then, then \in Job, NEW STATE else, else \in Job,
           UNCHANGED <<people, managed>>, fw' \in Firewall,
           \/ job' = [job EXCEPT ![p] = then] /\ faults' = faults
           \/ job' = [job EXCEPT ![p] = else] /\ (faults' = faults \/ Refused),
           unsure \subseteq unsure', unsure' \subseteq {"chain", "probe"}
    PROVE  Steps(p)
<1>1. job \in [Passes -> Job]
  BY DEF TypeOK
<1>2. job' \in [Passes -> Job] /\ job'[p] \in {then, else} /\ Moves(p)
  BY <1>1 DEF Moves
<1>3. faults' \in 0..MaxFaults
  BY DohAssumption DEF Refused, TypeOK, DohAssumption
<1> QED
  BY <1>1, <1>2, <1>3 DEF Steps

LEMMA EnsureSetSteps ==
    ASSUME TypeOK, NEW p \in Passes, EnsureSet(p)
    PROVE  /\ Steps(p) /\ SameProbe
           /\ job[p].step = "ipset"
           /\ UNCHANGED managed
           /\ fw'.chain = fw.chain /\ fw'.drops = fw.drops /\ fw'.jumps = fw.jumps
           /\ \/ job'[p].step = "empty" /\ job'[p].want = job[p].want
              \/ job'[p].step = "idle" /\ fw' = fw
<1> DEFINE works == TRUE
           new   == [fw EXCEPT !.set = TRUE]
           then  == To(p, "empty")
           else  == NoJob
<1>1. works => new \in Firewall
  BY DEF TypeOK, Firewall
<1>2. /\ then \in Job /\ then.step = "empty" /\ then.want = job[p].want
      /\ else \in Job /\ else.step = "idle" /\ else.want = {}
  BY ToIsJob, NoJobIsJob DEF Connected, Touching, Building, Leaving, After
<1>3. Command(p, "ipset", works, new, then, else)
  BY DEF EnsureSet, Error
<1> HIDE DEF then, else
<1>4. /\ UNCHANGED <<people, managed>> /\ job[p].step = "ipset"
      /\ \/ works /\ fw' = new /\ job' = [job EXCEPT ![p] = then] /\ faults' = faults
         \/ ~works /\ fw' = fw /\ job' = [job EXCEPT ![p] = else] /\ faults' = faults
         \/ Refused /\ fw' = fw /\ job' = [job EXCEPT ![p] = else]
  BY <1>3 DEF Command, Goto, At
<1>5. unsure \subseteq unsure' /\ unsure' \subseteq {"chain", "probe"}
  BY DEF EnsureSet, TypeOK
<1>6. Steps(p)
  <2>1. fw' \in Firewall
    BY <1>1, <1>4 DEF TypeOK
  <2>2. \/ job' = [job EXCEPT ![p] = then] /\ faults' = faults
        \/ job' = [job EXCEPT ![p] = else] /\ (faults' = faults \/ Refused)
    BY <1>4
  <2> HIDE DEF works, new
  <2> QED
    BY <1>2, <1>4, <1>5, <2>1, <2>2, CommandSteps
<1>7. \/ works /\ fw' = new /\ job'[p] = then
      \/ ~works /\ fw' = fw /\ job'[p] = else
      \/ faults' # faults /\ fw' = fw /\ job'[p] = else
  BY <1>4, DohAssumption DEF TypeOK, Refused, DohAssumption
<1> QED
  BY <1>2, <1>4, <1>6, <1>7 DEF EnsureSet, SameChain, SameProbe, TypeOK, Firewall

LEMMA EmptySetSteps ==
    ASSUME TypeOK, NEW p \in Passes, EmptySet(p)
    PROVE  /\ Steps(p) /\ SameProbe
           /\ job[p].step = "empty"
           /\ UNCHANGED managed /\ SameChain
           /\ \/ job'[p].step = "fill" /\ job'[p].want = job[p].want
              \/ job'[p].step = "idle" /\ (managed = {} => "chain" \in unsure')
<1> DEFINE works == fw.set
           new   == [fw EXCEPT !.filled = FALSE]
           then  == To(p, "fill")
           else  == NoJob
<1>1. works => new \in Firewall
  BY DEF TypeOK, Firewall
<1>2. /\ then \in Job /\ then.step = "fill" /\ then.want = job[p].want
      /\ else \in Job /\ else.step = "idle" /\ else.want = {}
  BY ToIsJob, NoJobIsJob DEF Connected, Touching, Building, Leaving, After
<1>3. Command(p, "empty", works, new, then, else)
  BY DEF EmptySet, Error
<1> HIDE DEF then, else
<1>4. /\ UNCHANGED <<people, managed>> /\ job[p].step = "empty"
      /\ \/ works /\ fw' = new /\ job' = [job EXCEPT ![p] = then] /\ faults' = faults
         \/ ~works /\ fw' = fw /\ job' = [job EXCEPT ![p] = else] /\ faults' = faults
         \/ Refused /\ fw' = fw /\ job' = [job EXCEPT ![p] = else]
  BY <1>3 DEF Command, Goto, At
<1>5. unsure \subseteq unsure' /\ unsure' \subseteq {"chain", "probe"}
  BY DEF EmptySet, TypeOK, GivesUp
<1>6. Steps(p)
  <2>1. fw' \in Firewall
    BY <1>1, <1>4 DEF TypeOK
  <2>2. \/ job' = [job EXCEPT ![p] = then] /\ faults' = faults
        \/ job' = [job EXCEPT ![p] = else] /\ (faults' = faults \/ Refused)
    BY <1>4
  <2> HIDE DEF works, new
  <2> QED
    BY <1>2, <1>4, <1>5, <2>1, <2>2, CommandSteps
<1>7. \/ works /\ fw' = new /\ job'[p] = then
      \/ ~works /\ fw' = fw /\ job'[p] = else
      \/ faults' # faults /\ fw' = fw /\ job'[p] = else
  BY <1>4, DohAssumption DEF TypeOK, Refused, DohAssumption
<1> QED
  BY <1>2, <1>4, <1>6, <1>7 DEF EmptySet, GivesUp, SameChain, SameProbe, TypeOK, Firewall

LEMMA FillSetSteps ==
    ASSUME TypeOK, NEW p \in Passes, FillSet(p)
    PROVE  /\ Steps(p) /\ SameProbe
           /\ job[p].step = "fill"
           /\ UNCHANGED managed /\ SameChain
           /\ job'[p].step = "chain" /\ job'[p].want = job[p].want
<1> DEFINE works == fw.set
           new   == [fw EXCEPT !.filled = TRUE]
           then  == To(p, "chain")
<1>1. works => new \in Firewall
  BY DEF TypeOK, Firewall
<1>2. /\ then \in Job /\ then.step = "chain" /\ then.want = job[p].want
  BY ToIsJob, NoJobIsJob DEF Connected, Touching, Building, Leaving, After
<1>3. Command(p, "fill", works, new, then, then)
  BY DEF FillSet
<1> HIDE DEF then
<1>4. /\ UNCHANGED <<people, managed>> /\ job[p].step = "fill"
      /\ \/ works /\ fw' = new /\ job' = [job EXCEPT ![p] = then] /\ faults' = faults
         \/ ~works /\ fw' = fw /\ job' = [job EXCEPT ![p] = then] /\ faults' = faults
         \/ Refused /\ fw' = fw /\ job' = [job EXCEPT ![p] = then]
  BY <1>3 DEF Command, Goto, At
<1>5. unsure \subseteq unsure' /\ unsure' \subseteq {"chain", "probe"}
  BY DEF FillSet, TypeOK
<1>6. Steps(p)
  <2>1. fw' \in Firewall
    BY <1>1, <1>4 DEF TypeOK
  <2>2. \/ job' = [job EXCEPT ![p] = then] /\ faults' = faults
        \/ job' = [job EXCEPT ![p] = then] /\ (faults' = faults \/ Refused)
    BY <1>4
  <2> HIDE DEF works, new
  <2> QED
    BY <1>2, <1>4, <1>5, <2>1, <2>2, CommandSteps
<1>7. \/ works /\ fw' = new /\ job'[p] = then
      \/ ~works /\ fw' = fw /\ job'[p] = then
      \/ faults' # faults /\ fw' = fw /\ job'[p] = then
  BY <1>4, DohAssumption DEF TypeOK, Refused, DohAssumption
<1> QED
  BY <1>2, <1>4, <1>6, <1>7 DEF FillSet, SameChain, SameProbe, TypeOK, Firewall

LEMMA NewChainSteps ==
    ASSUME TypeOK, NEW p \in Passes, NewChain(p)
    PROVE  /\ Steps(p) /\ SameProbe
           /\ job[p].step = "chain"
           /\ UNCHANGED managed
           /\ fw'.set = fw.set /\ fw'.drops = fw.drops /\ fw'.jumps = fw.jumps
           /\ fw.chain => fw'.chain
           /\ job'[p].step = "check" /\ job'[p].want = job[p].want
<1> DEFINE works == ~fw.chain
           new   == [fw EXCEPT !.chain = TRUE]
           then  == To(p, "check")
<1>1. works => new \in Firewall
  BY DEF TypeOK, Firewall
<1>2. /\ then \in Job /\ then.step = "check" /\ then.want = job[p].want
  BY ToIsJob, NoJobIsJob DEF Connected, Touching, Building, Leaving, After
<1>3. Command(p, "chain", works, new, then, then)
  BY DEF NewChain
<1> HIDE DEF then
<1>4. /\ UNCHANGED <<people, managed>> /\ job[p].step = "chain"
      /\ \/ works /\ fw' = new /\ job' = [job EXCEPT ![p] = then] /\ faults' = faults
         \/ ~works /\ fw' = fw /\ job' = [job EXCEPT ![p] = then] /\ faults' = faults
         \/ Refused /\ fw' = fw /\ job' = [job EXCEPT ![p] = then]
  BY <1>3 DEF Command, Goto, At
<1>5. unsure \subseteq unsure' /\ unsure' \subseteq {"chain", "probe"}
  BY DEF NewChain, TypeOK
<1>6. Steps(p)
  <2>1. fw' \in Firewall
    BY <1>1, <1>4 DEF TypeOK
  <2>2. \/ job' = [job EXCEPT ![p] = then] /\ faults' = faults
        \/ job' = [job EXCEPT ![p] = then] /\ (faults' = faults \/ Refused)
    BY <1>4
  <2> HIDE DEF works, new
  <2> QED
    BY <1>2, <1>4, <1>5, <2>1, <2>2, CommandSteps
<1>7. \/ works /\ fw' = new /\ job'[p] = then
      \/ ~works /\ fw' = fw /\ job'[p] = then
      \/ faults' # faults /\ fw' = fw /\ job'[p] = then
  BY <1>4, DohAssumption DEF TypeOK, Refused, DohAssumption
<1> QED
  BY <1>2, <1>4, <1>6, <1>7 DEF NewChain, SameChain, SameProbe, TypeOK, Firewall

LEMMA CheckJumpSteps ==
    ASSUME TypeOK, NEW p \in Passes, CheckJump(p)
    PROVE  /\ Steps(p) /\ SameProbe
           /\ job[p].step = "check"
           /\ UNCHANGED managed /\ SameChain
           /\ job'[p].want = job[p].want
           /\ \/ job'[p].step = "flush"
              \/ job'[p].step = "jump" /\ (fw.jumps = 0 \/ "chain" \in unsure')
<1> DEFINE works == fw.jumps > 0
           new   == fw
           then  == To(p, "flush")
           else  == To(p, "jump")
<1>1. works => new \in Firewall
  BY DEF TypeOK, Firewall
<1>2. /\ then \in Job /\ then.step = "flush" /\ then.want = job[p].want
      /\ else \in Job /\ else.step = "jump" /\ else.want = job[p].want
  BY ToIsJob, NoJobIsJob DEF Connected, Touching, Building, Leaving, After
<1>3. Command(p, "check", works, new, then, else)
  BY DEF CheckJump
<1> HIDE DEF then, else
<1>4. /\ UNCHANGED <<people, managed>> /\ job[p].step = "check"
      /\ \/ works /\ fw' = new /\ job' = [job EXCEPT ![p] = then] /\ faults' = faults
         \/ ~works /\ fw' = fw /\ job' = [job EXCEPT ![p] = else] /\ faults' = faults
         \/ Refused /\ fw' = fw /\ job' = [job EXCEPT ![p] = else]
  BY <1>3 DEF Command, Goto, At
<1>5. unsure \subseteq unsure' /\ unsure' \subseteq {"chain", "probe"}
  BY DEF CheckJump, TypeOK, Unnoticed
<1>6. Steps(p)
  <2>1. fw' \in Firewall
    BY <1>1, <1>4 DEF TypeOK
  <2>2. \/ job' = [job EXCEPT ![p] = then] /\ faults' = faults
        \/ job' = [job EXCEPT ![p] = else] /\ (faults' = faults \/ Refused)
    BY <1>4
  <2> HIDE DEF works, new
  <2> QED
    BY <1>2, <1>4, <1>5, <2>1, <2>2, CommandSteps
<1>7. \/ works /\ fw' = new /\ job'[p] = then
      \/ ~works /\ fw' = fw /\ job'[p] = else
      \/ faults' # faults /\ fw' = fw /\ job'[p] = else
  BY <1>4, DohAssumption DEF TypeOK, Refused, DohAssumption
<1> QED
  BY <1>2, <1>4, <1>6, <1>7 DEF CheckJump, Unnoticed, SameChain, SameProbe, TypeOK, Firewall

LEMMA AddJumpSteps ==
    ASSUME TypeOK, NEW p \in Passes, AddJump(p)
    PROVE  /\ Steps(p) /\ SameProbe
           /\ job[p].step = "jump"
           /\ UNCHANGED managed
           /\ fw'.set = fw.set /\ fw'.chain = fw.chain /\ fw'.drops = fw.drops
           /\ \/ job'[p].step = "flush" /\ job'[p].want = job[p].want /\ fw'.jumps = fw.jumps + 1
              \/ /\ job'[p].step = "idle" /\ fw'.jumps = fw.jumps
                 /\ managed = {} => "chain" \in unsure'
<1> DEFINE works == fw.chain
           new   == [fw EXCEPT !.jumps = @ + 1]
           then  == To(p, "flush")
           else  == NoJob
<1>1. works => new \in Firewall
  BY DEF TypeOK, Firewall
<1>2. /\ then \in Job /\ then.step = "flush" /\ then.want = job[p].want
      /\ else \in Job /\ else.step = "idle" /\ else.want = {}
  BY ToIsJob, NoJobIsJob DEF Connected, Touching, Building, Leaving, After
<1>3. Command(p, "jump", works, new, then, else)
  BY DEF AddJump, Error
<1> HIDE DEF then, else
<1>4. /\ UNCHANGED <<people, managed>> /\ job[p].step = "jump"
      /\ \/ works /\ fw' = new /\ job' = [job EXCEPT ![p] = then] /\ faults' = faults
         \/ ~works /\ fw' = fw /\ job' = [job EXCEPT ![p] = else] /\ faults' = faults
         \/ Refused /\ fw' = fw /\ job' = [job EXCEPT ![p] = else]
  BY <1>3 DEF Command, Goto, At
<1>5. unsure \subseteq unsure' /\ unsure' \subseteq {"chain", "probe"}
  BY DEF AddJump, TypeOK, GivesUp
<1>6. Steps(p)
  <2>1. fw' \in Firewall
    BY <1>1, <1>4 DEF TypeOK
  <2>2. \/ job' = [job EXCEPT ![p] = then] /\ faults' = faults
        \/ job' = [job EXCEPT ![p] = else] /\ (faults' = faults \/ Refused)
    BY <1>4
  <2> HIDE DEF works, new
  <2> QED
    BY <1>2, <1>4, <1>5, <2>1, <2>2, CommandSteps
<1>7. \/ works /\ fw' = new /\ job'[p] = then
      \/ ~works /\ fw' = fw /\ job'[p] = else
      \/ faults' # faults /\ fw' = fw /\ job'[p] = else
  BY <1>4, DohAssumption DEF TypeOK, Refused, DohAssumption
<1> QED
  BY <1>2, <1>4, <1>6, <1>7 DEF AddJump, GivesUp, SameChain, SameProbe, TypeOK, Firewall

LEMMA UnjumpSteps ==
    ASSUME TypeOK, NEW p \in Passes, Unjump(p)
    PROVE  /\ Steps(p) /\ SameProbe
           /\ job[p].step = "unjump"
           /\ UNCHANGED managed
           /\ fw'.set = fw.set /\ fw'.chain = fw.chain /\ fw'.drops = fw.drops
           /\ job'[p].step = "reflush" /\ job'[p].want = job[p].want
           /\ \/ fw.jumps = 0 /\ fw'.jumps = 0
              \/ fw'.jumps = fw.jumps - 1
              \/ "chain" \in unsure'
<1> DEFINE works == fw.jumps > 0
           new   == [fw EXCEPT !.jumps = @ - 1]
           then  == To(p, After.unjump)
<1>1. works => new \in Firewall
  BY DEF TypeOK, Firewall
<1>2. /\ then \in Job /\ then.step = "reflush" /\ then.want = job[p].want
  BY ToIsJob, NoJobIsJob DEF Connected, Touching, Building, Leaving, After
<1>3. Command(p, "unjump", works, new, then, then)
  BY DEF Unjump
<1> HIDE DEF then
<1>4. /\ UNCHANGED <<people, managed>> /\ job[p].step = "unjump"
      /\ \/ works /\ fw' = new /\ job' = [job EXCEPT ![p] = then] /\ faults' = faults
         \/ ~works /\ fw' = fw /\ job' = [job EXCEPT ![p] = then] /\ faults' = faults
         \/ Refused /\ fw' = fw /\ job' = [job EXCEPT ![p] = then]
  BY <1>3 DEF Command, Goto, At
<1>5. unsure \subseteq unsure' /\ unsure' \subseteq {"chain", "probe"}
  BY DEF Unjump, TypeOK, Unnoticed
<1>6. Steps(p)
  <2>1. fw' \in Firewall
    BY <1>1, <1>4 DEF TypeOK
  <2>2. \/ job' = [job EXCEPT ![p] = then] /\ faults' = faults
        \/ job' = [job EXCEPT ![p] = then] /\ (faults' = faults \/ Refused)
    BY <1>4
  <2> HIDE DEF works, new
  <2> QED
    BY <1>2, <1>4, <1>5, <2>1, <2>2, CommandSteps
<1>7. \/ works /\ fw' = new /\ job'[p] = then
      \/ ~works /\ fw' = fw /\ job'[p] = then
      \/ faults' # faults /\ fw' = fw /\ job'[p] = then
  BY <1>4, DohAssumption DEF TypeOK, Refused, DohAssumption
<1> QED
  BY <1>2, <1>4, <1>6, <1>7 DEF Unjump, Unnoticed, SameChain, SameProbe, TypeOK, Firewall

LEMMA ReflushSteps ==
    ASSUME TypeOK, NEW p \in Passes, Reflush(p)
    PROVE  /\ Steps(p) /\ SameProbe
           /\ job[p].step = "reflush"
           /\ UNCHANGED managed
           /\ fw'.set = fw.set /\ fw'.chain = fw.chain /\ fw'.jumps = fw.jumps
           /\ fw'.drops \in {fw.drops, {}}
           /\ job'[p].step = "deleteChain" /\ job'[p].want = job[p].want
           /\ fw'.drops = {} \/ ~fw.chain \/ "chain" \in unsure'
<1> DEFINE works == fw.chain
           new   == [fw EXCEPT !.drops = {}]
           then  == To(p, After.reflush)
<1>1. works => new \in Firewall
  BY DEF TypeOK, Firewall
<1>2. /\ then \in Job /\ then.step = "deleteChain" /\ then.want = job[p].want
  BY ToIsJob, NoJobIsJob DEF Connected, Touching, Building, Leaving, After
<1>3. Command(p, "reflush", works, new, then, then)
  BY DEF Reflush
<1> HIDE DEF then
<1>4. /\ UNCHANGED <<people, managed>> /\ job[p].step = "reflush"
      /\ \/ works /\ fw' = new /\ job' = [job EXCEPT ![p] = then] /\ faults' = faults
         \/ ~works /\ fw' = fw /\ job' = [job EXCEPT ![p] = then] /\ faults' = faults
         \/ Refused /\ fw' = fw /\ job' = [job EXCEPT ![p] = then]
  BY <1>3 DEF Command, Goto, At
<1>5. unsure \subseteq unsure' /\ unsure' \subseteq {"chain", "probe"}
  BY DEF Reflush, TypeOK, Unnoticed
<1>6. Steps(p)
  <2>1. fw' \in Firewall
    BY <1>1, <1>4 DEF TypeOK
  <2>2. \/ job' = [job EXCEPT ![p] = then] /\ faults' = faults
        \/ job' = [job EXCEPT ![p] = then] /\ (faults' = faults \/ Refused)
    BY <1>4
  <2> HIDE DEF works, new
  <2> QED
    BY <1>2, <1>4, <1>5, <2>1, <2>2, CommandSteps
<1>7. \/ works /\ fw' = new /\ job'[p] = then
      \/ ~works /\ fw' = fw /\ job'[p] = then
      \/ faults' # faults /\ fw' = fw /\ job'[p] = then
  BY <1>4, DohAssumption DEF TypeOK, Refused, DohAssumption
<1> QED
  BY <1>2, <1>4, <1>6, <1>7 DEF Reflush, Unnoticed, SameChain, SameProbe, TypeOK, Firewall

LEMMA DeleteChainSteps ==
    ASSUME TypeOK, NEW p \in Passes, DeleteChain(p)
    PROVE  /\ Steps(p) /\ SameProbe
           /\ job[p].step = "deleteChain"
           /\ UNCHANGED managed
           /\ fw'.set = fw.set /\ fw'.drops = fw.drops /\ fw'.jumps = fw.jumps
           /\ fw.drops # {} => fw'.chain = fw.chain
           /\ job'[p].step = "deleteSet" /\ job'[p].want = job[p].want
           /\ ~fw'.chain \/ fw.drops # {} \/ fw.jumps # 0 \/ "chain" \in unsure'
<1> DEFINE works == fw.chain /\ fw.drops = {} /\ fw.jumps = 0
           new   == [fw EXCEPT !.chain = FALSE]
           then  == To(p, After.deleteChain)
<1>1. works => new \in Firewall
  BY DEF TypeOK, Firewall
<1>2. /\ then \in Job /\ then.step = "deleteSet" /\ then.want = job[p].want
  BY ToIsJob, NoJobIsJob DEF Connected, Touching, Building, Leaving, After
<1>3. Command(p, "deleteChain", works, new, then, then)
  BY DEF DeleteChain
<1> HIDE DEF then
<1>4. /\ UNCHANGED <<people, managed>> /\ job[p].step = "deleteChain"
      /\ \/ works /\ fw' = new /\ job' = [job EXCEPT ![p] = then] /\ faults' = faults
         \/ ~works /\ fw' = fw /\ job' = [job EXCEPT ![p] = then] /\ faults' = faults
         \/ Refused /\ fw' = fw /\ job' = [job EXCEPT ![p] = then]
  BY <1>3 DEF Command, Goto, At
<1>5. unsure \subseteq unsure' /\ unsure' \subseteq {"chain", "probe"}
  BY DEF DeleteChain, TypeOK, Unnoticed
<1>6. Steps(p)
  <2>1. fw' \in Firewall
    BY <1>1, <1>4 DEF TypeOK
  <2>2. \/ job' = [job EXCEPT ![p] = then] /\ faults' = faults
        \/ job' = [job EXCEPT ![p] = then] /\ (faults' = faults \/ Refused)
    BY <1>4
  <2> HIDE DEF works, new
  <2> QED
    BY <1>2, <1>4, <1>5, <2>1, <2>2, CommandSteps
<1>7. \/ works /\ fw' = new /\ job'[p] = then
      \/ ~works /\ fw' = fw /\ job'[p] = then
      \/ faults' # faults /\ fw' = fw /\ job'[p] = then
  BY <1>4, DohAssumption DEF TypeOK, Refused, DohAssumption
<1> QED
  BY <1>2, <1>4, <1>6, <1>7 DEF DeleteChain, Unnoticed, SameChain, SameProbe, TypeOK, Firewall

LEMMA DeleteSetSteps ==
    ASSUME TypeOK, NEW p \in Passes, DeleteSet(p)
    PROVE  /\ Steps(p) /\ SameProbe
           /\ job[p].step = "deleteSet"
           /\ UNCHANGED managed
           /\ fw'.chain = fw.chain /\ fw'.drops = fw.drops /\ fw'.jumps = fw.jumps
           /\ job'[p].step = "record" /\ job'[p].want = job[p].want
           /\ ~fw'.set \/ fw.drops # {} \/ "chain" \in unsure'
<1> DEFINE works == fw.set /\ fw.drops = {}
           new   == [fw EXCEPT !.set = FALSE, !.filled = FALSE]
           then  == To(p, "record")
<1>1. works => new \in Firewall
  BY DEF TypeOK, Firewall
<1>2. /\ then \in Job /\ then.step = "record" /\ then.want = job[p].want
  BY ToIsJob, NoJobIsJob DEF Connected, Touching, Building, Leaving, After
<1>3. Command(p, "deleteSet", works, new, then, then)
  BY DEF DeleteSet
<1> HIDE DEF then
<1>4. /\ UNCHANGED <<people, managed>> /\ job[p].step = "deleteSet"
      /\ \/ works /\ fw' = new /\ job' = [job EXCEPT ![p] = then] /\ faults' = faults
         \/ ~works /\ fw' = fw /\ job' = [job EXCEPT ![p] = then] /\ faults' = faults
         \/ Refused /\ fw' = fw /\ job' = [job EXCEPT ![p] = then]
  BY <1>3 DEF Command, Goto, At
<1>5. unsure \subseteq unsure' /\ unsure' \subseteq {"chain", "probe"}
  BY DEF DeleteSet, TypeOK, Unnoticed
<1>6. Steps(p)
  <2>1. fw' \in Firewall
    BY <1>1, <1>4 DEF TypeOK
  <2>2. \/ job' = [job EXCEPT ![p] = then] /\ faults' = faults
        \/ job' = [job EXCEPT ![p] = then] /\ (faults' = faults \/ Refused)
    BY <1>4
  <2> HIDE DEF works, new
  <2> QED
    BY <1>2, <1>4, <1>5, <2>1, <2>2, CommandSteps
<1>7. \/ works /\ fw' = new /\ job'[p] = then
      \/ ~works /\ fw' = fw /\ job'[p] = then
      \/ faults' # faults /\ fw' = fw /\ job'[p] = then
  BY <1>4, DohAssumption DEF TypeOK, Refused, DohAssumption
<1> QED
  BY <1>2, <1>4, <1>6, <1>7 DEF DeleteSet, Unnoticed, SameChain, SameProbe, TypeOK, Firewall

LEMMA FlushSteps ==
    ASSUME TypeOK, NEW p \in Passes, Flush(p)
    PROVE  /\ Steps(p) /\ SameProbe
           /\ job[p].step = "flush" /\ UNCHANGED managed
           /\ fw'.set = fw.set /\ fw'.chain = fw.chain /\ fw'.jumps = fw.jumps
           /\ fw'.drops \in {fw.drops, {}}
           /\ job'[p].want = job[p].want
           /\ \/ job'[p].step = "unjump" /\ job[p].want = {}
              \/ job'[p].step = "add" /\ job[p].want # {}
<1> DEFINE works == fw.chain
           new   == [fw EXCEPT !.drops = {}]
           then  == IF job[p].want = {} THEN To(p, After.flush)
                    ELSE [To(p, "add") EXCEPT !.todo = job[p].want]
<1>1. works => new \in Firewall
  BY DEF TypeOK, Firewall
<1>2. /\ then \in Job /\ then.want = job[p].want
      /\ \/ then.step = "unjump" /\ job[p].want = {}
         \/ then.step = "add" /\ job[p].want # {}
  <2>1. After.flush = "unjump"
    BY DEF After
  <2>2. job[p].want \in SUBSET MACs
    BY DEF TypeOK, Job
  <2>3. CASE job[p].want = {}
    BY <2>1, <2>3, ToIsJob DEF Connected, Touching, Leaving
  <2>4. CASE job[p].want # {}
    <3>1. To(p, "add") \in Job /\ To(p, "add").step = "add" /\ To(p, "add").want = job[p].want
      BY ToIsJob DEF Connected, Touching, Building
    <3> QED
      BY <2>2, <2>4, <3>1 DEF Job
  <2> QED
    BY <2>3, <2>4
<1>3. Command(p, "flush", works, new, then, then)
  BY DEF Flush
<1> HIDE DEF then
<1>4. /\ UNCHANGED <<people, managed>> /\ job[p].step = "flush"
      /\ \/ works /\ fw' = new /\ job' = [job EXCEPT ![p] = then] /\ faults' = faults
         \/ ~works /\ fw' = fw /\ job' = [job EXCEPT ![p] = then] /\ UNCHANGED faults
         \/ Refused /\ fw' = fw /\ job' = [job EXCEPT ![p] = then]
  BY <1>3 DEF Command, Goto, At
<1>5. unsure' = unsure /\ unsure \subseteq {"chain", "probe"}
  BY DEF Flush, TypeOK
<1>6. Steps(p)
  <2>1. fw' \in Firewall
    BY <1>1, <1>4 DEF TypeOK
  <2>2. job' = [job EXCEPT ![p] = then] /\ (faults' = faults \/ Refused)
    BY <1>4
  <2> HIDE DEF works, new
  <2> QED
    BY <1>2, <1>4, <1>5, <2>1, <2>2, CommandSteps
<1>7. job'[p] = then
  BY <1>4 DEF TypeOK
<1> QED
  BY <1>2, <1>4, <1>6, <1>7 DEF SameProbe, TypeOK, Firewall

LEMMA AddRuleSteps ==
    ASSUME TypeOK, NEW p \in Passes, AddRule(p)
    PROVE  /\ Steps(p) /\ SameProbe
           /\ job[p].step = "add" /\ UNCHANGED managed
           /\ fw'.set = fw.set /\ fw'.chain = fw.chain /\ fw'.jumps = fw.jumps
           /\ fw'.drops = fw.drops \/ fw.chain
           /\ job'[p].want = job[p].want /\ job'[p].step \in {"add", "record"}
<1>0. job[p] \in Job
  BY DEF TypeOK
<1> PICK m \in job[p].todo :
      LET left == job[p].todo \ {m}
          then == [job[p] EXCEPT !.todo = left,
                                 !.step = IF left = {} THEN "record" ELSE "add"]
      IN  /\ Command(p, "add", fw.chain /\ fw.set, [fw EXCEPT !.drops = @ \cup {m}],
                     then, then)
          /\ UNCHANGED unsure
  BY DEF AddRule
<1> DEFINE works == fw.chain /\ fw.set
           new   == [fw EXCEPT !.drops = @ \cup {m}]
           left  == job[p].todo \ {m}
           then  == [job[p] EXCEPT !.todo = left,
                                   !.step = IF left = {} THEN "record" ELSE "add"]
<1>1. new \in Firewall
  BY <1>0 DEF TypeOK, Firewall, Job
<1>2. then \in Job /\ then.want = job[p].want /\ then.step \in {"add", "record"}
  BY <1>0 DEF Job, Connected, Touching, Building, Leaving
<1>3. Command(p, "add", works, new, then, then) /\ UNCHANGED unsure
  OBVIOUS
<1> HIDE DEF then
<1>4. /\ UNCHANGED <<people, managed>> /\ job[p].step = "add"
      /\ \/ works /\ fw' = new /\ job' = [job EXCEPT ![p] = then] /\ faults' = faults
         \/ ~works /\ fw' = fw /\ job' = [job EXCEPT ![p] = then] /\ UNCHANGED faults
         \/ Refused /\ fw' = fw /\ job' = [job EXCEPT ![p] = then]
  BY <1>3 DEF Command, Goto, At
<1>5. unsure \subseteq {"chain", "probe"}
  BY DEF TypeOK
<1>6. Steps(p)
  <2>1. fw' \in Firewall
    BY <1>1, <1>4 DEF TypeOK
  <2>2. job' = [job EXCEPT ![p] = then] /\ (faults' = faults \/ Refused)
    BY <1>4
  <2> HIDE DEF works, new
  <2> QED
    BY <1>2, <1>3, <1>4, <1>5, <2>1, <2>2, CommandSteps
<1>7. job'[p] = then
  BY <1>4 DEF TypeOK
<1> QED
  BY <1>2, <1>4, <1>6, <1>7 DEF SameProbe, TypeOK, Firewall

LEMMA RecordSteps ==
    ASSUME TypeOK, NEW p \in Passes, Record(p)
    PROVE  /\ Steps(p) /\ fw' = fw /\ UNCHANGED unsure
           /\ job[p].step = "record" /\ job'[p].step = "idle" /\ job'[p].want = {}
           /\ managed' = job[p].want
  BY NoJobIsJob DEF Record, At, Goto, Steps, Moves, TypeOK

LEMMA LoadSteps ==
    ASSUME TypeOK, NEW p \in Passes, Load(p)
    PROVE  /\ Steps(p) /\ fw' = fw /\ UNCHANGED <<managed, unsure>>
           /\ job[p].step = "load" /\ job'[p].step \in {"idle", "create"}
<1> DEFINE next == IF ~doh /\ managed = {} THEN NoJob
                   ELSE [NoJob EXCEPT !.step = "create",
                                      !.want = IF doh THEN job[p].want ELSE {}]
<1>1. job[p] \in Job
  BY DEF TypeOK
<1>2. next \in Job /\ next.step \in {"idle", "create"}
  BY <1>1 DEF NoJob, Job, Connected, Probing
<1>3. /\ job[p].step = "load" /\ job' = [job EXCEPT ![p] = next]
      /\ UNCHANGED <<people, managed, fw, unsure, faults>>
  BY DEF Load, At, Goto
<1> HIDE DEF next
<1> QED
  BY <1>2, <1>3 DEF Steps, Moves, TypeOK

LEMMA BeginSteps ==
    ASSUME TypeOK, NEW p \in Passes, Begin(p)
    PROVE  /\ fw' = fw /\ UNCHANGED <<managed, unsure, faults, protect, enabled, doh, edits>>
           /\ owed' \in Nat
           /\ job' \in [Passes -> Job] /\ Moves(p)
           /\ job[p].step = "idle" /\ job'[p].step = "load"
<1> DEFINE next == [NoJob EXCEPT !.step = "load", !.want = protect]
<1>1. next \in Job /\ next.step = "load"
  BY DEF NoJob, Job, TypeOK
<1>2. /\ job[p].step = "idle" /\ job' = [job EXCEPT ![p] = next]
      /\ UNCHANGED <<protect, enabled, doh, edits, managed, fw, unsure, faults>>
  BY DEF Begin, At, Goto
<1>3. owed' \in Nat
  BY DEF Begin, TypeOK
<1> HIDE DEF next
<1> QED
  BY <1>1, <1>2, <1>3 DEF Moves, TypeOK

LEMMA DroppedTypes ==
    ASSUME TypeOK, NEW ps \in SUBSET Passes
    PROVE  /\ unsure \subseteq Dropped(ps) /\ Dropped(ps) \subseteq {"chain", "probe"}
           /\ \A p \in ps : job[p].step \in Probing => "probe" \in Dropped(ps)
           /\ \A p \in ps : job[p].step \in Touching /\ managed = {} => "chain" \in Dropped(ps)
  BY DEF Dropped, TypeOK

LEMMA CutSteps ==
    ASSUME TypeOK, NEW p \in Passes, Cut(p)
    PROVE  /\ Steps(p) /\ fw' = fw /\ UNCHANGED managed
           /\ job'[p].step = "idle" /\ job'[p].want = {}
           /\ job[p].step \in Probing => "probe" \in unsure'
           /\ job[p].step \in Touching /\ managed = {} => "chain" \in unsure'
<1>1. /\ job' = [job EXCEPT ![p] = NoJob] /\ UNCHANGED <<people, managed, fw>>
      /\ unsure' = Dropped({p})
  BY DEF Cut, Goto
<1>2. faults' \in 0..MaxFaults
  BY DohAssumption DEF Cut, Fault, TypeOK, DohAssumption
<1>3. {p} \in SUBSET Passes /\ p \in {p}
  OBVIOUS
<1> QED
  BY <1>1, <1>2, <1>3, DroppedTypes, NoJobIsJob DEF Steps, Moves, TypeOK

-----------------------------------------------------------------------------
(* Types. *)

LEMMA PassKeepsTypes ==
    ASSUME TypeOK, NEW p \in Passes, Advance(p) \/ Cut(p)
    PROVE  Steps(p) /\ managed' \subseteq MACs
<1>0. job[p].want \subseteq MACs /\ managed \subseteq MACs
  BY DEF TypeOK, Job
<1>1. CASE Load(p)
  BY <1>0, <1>1, LoadSteps
<1>2. CASE Probe(p)
  BY <1>0, <1>2, CreateSteps, InsertSteps, DeleteSteps, DestroySteps, SweepRuleSteps,
     SweepSetSteps DEF Probe
<1>3. CASE Build(p)
  BY <1>0, <1>3, EnsureSetSteps, EmptySetSteps, FillSetSteps, NewChainSteps, CheckJumpSteps,
     AddJumpSteps, FlushSteps, AddRuleSteps DEF Build
<1>4. CASE TearDown(p)
  BY <1>0, <1>4, UnjumpSteps, ReflushSteps, DeleteChainSteps, DeleteSetSteps DEF TearDown
<1>5. CASE Record(p)
  BY <1>0, <1>5, RecordSteps
<1>6. CASE Cut(p)
  BY <1>0, <1>6, CutSteps
<1> QED
  BY <1>1, <1>2, <1>3, <1>4, <1>5, <1>6 DEF Advance

LEMMA RebootSteps ==
    ASSUME TypeOK, Reboot
    PROVE  /\ fw' = Untouched /\ UNCHANGED <<people, managed>> /\ unsure' = {}
           /\ job' \in [Passes -> Job] /\ faults' \in 0..MaxFaults
           /\ \A p \in Passes : /\ job'[p].step \notin Connected
                                /\ job'[p] = job[p] \/ job'[p] = NoJob
<1>1. \A p \in Passes : job[p] \in Job
  BY DEF TypeOK
<1>2. job' = [p \in Passes |-> IF job[p].step \in Connected THEN NoJob ELSE job[p]]
  BY DEF Reboot
<1>3. faults' \in 0..MaxFaults
  BY DohAssumption DEF Reboot, Fault, TypeOK, DohAssumption
<1> QED
  BY <1>1, <1>2, <1>3, NoJobIsJob, StepNames DEF Reboot

LEMMA CrashSteps ==
    ASSUME TypeOK, Crash
    PROVE  /\ job' = [p \in Passes |-> NoJob] /\ job' \in [Passes -> Job]
           /\ UNCHANGED <<protect, enabled, doh, edits, managed, fw>> /\ owed' = 0
           /\ faults' \in 0..MaxFaults
           /\ unsure' = Dropped(Passes)
  BY NoJobIsJob, DohAssumption DEF Crash, Fault, TypeOK, DohAssumption

LEMMA UserSteps ==
    ASSUME TypeOK, Users
    PROVE  /\ UNCHANGED <<managed, fw, job, unsure, faults>>
           /\ protect' \subseteq MACs /\ enabled' \in BOOLEAN /\ doh' \in BOOLEAN
           /\ owed' \in Nat /\ edits' \in 0..MaxEdits
<1>1. Edit /\ owed' \in {owed, owed + 1}
  BY DEF Users, ToggleDoh, ToggleEnabled, SetProfile
<1>2. UNCHANGED <<managed, fw, job, unsure, faults>> /\ edits' \in 0..MaxEdits /\ owed' \in Nat
  BY <1>1, DohAssumption DEF Edit, TypeOK, DohAssumption
<1>3. protect' \subseteq MACs /\ enabled' \in BOOLEAN /\ doh' \in BOOLEAN
  BY DEF Users, ToggleDoh, ToggleEnabled, SetProfile, TypeOK
<1> QED
  BY <1>2, <1>3

LEMMA UntouchedType == Untouched \in Firewall
  BY DEF Untouched, Firewall

LEMMA InitTypes == Init => TypeOK
<1> SUFFICES ASSUME Init PROVE TypeOK
  OBVIOUS
<1>1. fw \in Firewall
  BY UntouchedType DEF Init
<1>2. job \in [Passes -> Job]
  BY NoJobIsJob DEF Init
<1>3. edits \in 0..MaxEdits /\ faults \in 0..MaxFaults /\ owed \in Nat
  BY DohAssumption DEF Init, DohAssumption
<1>4. /\ protect \subseteq MACs /\ managed \subseteq MACs /\ unsure \subseteq {"chain", "probe"}
      /\ enabled \in BOOLEAN /\ doh \in BOOLEAN
  BY DEF Init
<1> QED
  BY <1>1, <1>2, <1>3, <1>4 DEF TypeOK

LEMMA StepKeepsTypes == TypeOK /\ [Next]_vars => TypeOK'
<1> SUFFICES ASSUME TypeOK, [Next]_vars PROVE TypeOK'
  OBVIOUS
<1>1. ASSUME NEW p \in Passes, Begin(p) PROVE TypeOK'
  BY <1>1, BeginSteps DEF TypeOK
<1>2. ASSUME NEW p \in Passes, Advance(p) \/ Cut(p) PROVE TypeOK'
  BY <1>2, PassKeepsTypes DEF Steps, TypeOK, people
<1>3. CASE Users
  BY <1>3, UserSteps DEF TypeOK
<1>4. CASE Reboot
  BY <1>4, RebootSteps, UntouchedType DEF TypeOK, people
<1>5. CASE Crash
  <2>1. Passes \in SUBSET Passes
    OBVIOUS
  <2> QED
    BY <1>5, <2>1, CrashSteps, DroppedTypes DEF TypeOK
<1>6. CASE UNCHANGED vars
  BY <1>6 DEF vars, people, TypeOK
<1> QED
  BY <1>1, <1>2, <1>3, <1>4, <1>5, <1>6 DEF Next

(* Every variable keeps its type: no count of jumps, probe rules or requests
   ever goes below zero.                                                     *)
THEOREM DohTypeCorrect == Spec => []TypeOK
  BY InitTypes, StepKeepsTypes, PTL DEF Spec

-----------------------------------------------------------------------------
(* Nothing is forgotten. *)

\* A pass that builds wants some device dropped, one that tears down none.
Wanting(p) ==
    /\ job[p].step \in {"ipset", "empty", "fill", "chain", "check", "jump", "add"}
          => job[p].want # {}
    /\ job[p].step \in {"unjump", "reflush", "deleteChain", "deleteSet"} => job[p].want = {}

\* What a pass that is alone at the chain may rely on at each step.
Ready(p) ==
    /\ job[p].step = "ipset" /\ managed = {} => OursGone
    /\ job[p].step = "jump" => fw.jumps = 0
    /\ job[p].step \in {"reflush", "deleteChain", "deleteSet"} => fw.jumps = 0
    /\ job[p].step \in {"deleteChain", "deleteSet"} => fw.drops = {}
    /\ job[p].step = "deleteSet" => ~fw.chain
    /\ job[p].step = "record" /\ job[p].want = {} => OursGone

Alone == \A p, q \in Passes : job[p].step \in Touching /\ job[q].step \in Touching => p = q

ChainInv ==
    /\ fw.drops # {} => fw.chain
    /\ \A p \in Passes : Wanting(p)
    /\ "chain" \notin unsure =>
          Alone /\ fw.jumps <= 1 /\ NothingForgotten /\ \A p \in Passes : Ready(p)

\* A step of a pass at the chain: the others are not there.
LEMMA WorkKeeps ==
    ASSUME TypeOK, ChainInv, NEW p \in Passes, Steps(p), job[p].step \in Touching,
           job'[p].step \in Touching \cup {"idle"}, Wanting(p)',
           fw'.drops # {} => fw'.chain,
           "chain" \notin unsure' =>
              /\ fw'.jumps <= 1 /\ Ready(p)'
              /\ job'[p].step = "idle" /\ managed' = {} => OursGone'
    PROVE  ChainInv'
<1>1. \A q \in Passes \ {p} : job'[q] = job[q]
  BY MoveTypes DEF Steps
<1>2. \A q \in Passes : Wanting(q)'
  <2> SUFFICES ASSUME NEW q \in Passes PROVE Wanting(q)'
    OBVIOUS
  <2>1. CASE q = p
    BY <2>1
  <2>2. CASE q # p
    BY <1>1, <2>2 DEF ChainInv, Wanting
  <2> QED
    BY <2>1, <2>2
<1>3. ASSUME "chain" \notin unsure'
      PROVE  Alone' /\ NothingForgotten' /\ \A q \in Passes : Ready(q)'
  <2>1. "chain" \notin unsure
    BY <1>3 DEF Steps
  <2>2. \A q \in Passes \ {p} : job[q].step \notin Touching /\ job'[q].step \notin Touching
    BY <1>1, <2>1 DEF ChainInv, Alone
  <2>3. Alone'
    BY <2>2 DEF Alone
  <2>4. \A q \in Passes : Ready(q)'
    <3> SUFFICES ASSUME NEW q \in Passes PROVE Ready(q)'
      OBVIOUS
    <3>1. CASE q = p
      BY <1>3, <3>1
    <3>2. CASE q # p
      <4>1. job'[q].step \notin Touching
        BY <2>2, <3>2
      <4> QED
        BY <4>1 DEF Ready, Touching, Building, Leaving
    <3> QED
      BY <3>1, <3>2
  <2>5. NothingForgotten'
    BY <1>3 DEF NothingForgotten, Busy
  <2> QED
    BY <2>3, <2>4, <2>5
<1> QED
  BY <1>2, <1>3 DEF ChainInv

\* A step of a pass that is not at the chain, before and after.
LEMMA AsideKeeps ==
    ASSUME TypeOK, ChainInv, NEW p \in Passes, Moves(p), job'[p] \in Job,
           SameChain, managed' = managed, unsure \subseteq unsure',
           job[p].step \notin Touching, job'[p].step \notin Touching
    PROVE  ChainInv'
<1>1. \A q \in Passes \ {p} : job'[q] = job[q]
  BY MoveTypes
<1>2. OursGone' <=> OursGone
  BY DEF OursGone, SameChain
<1>3. \A q \in Passes : job[q].step \in Touching <=> job'[q].step \in Touching
  BY <1>1
<1>4. \A q \in Passes : Wanting(q)'
  <2> SUFFICES ASSUME NEW q \in Passes PROVE Wanting(q)'
    OBVIOUS
  <2>1. CASE q = p
    BY <2>1 DEF Wanting, Touching, Building, Leaving
  <2>2. CASE q # p
    BY <1>1, <2>2 DEF ChainInv, Wanting
  <2> QED
    BY <2>1, <2>2
<1>5. ASSUME "chain" \notin unsure'
      PROVE  Alone' /\ fw'.jumps <= 1 /\ NothingForgotten' /\ \A q \in Passes : Ready(q)'
  <2>1. "chain" \notin unsure
    BY <1>5
  <2>2. Alone' /\ fw'.jumps <= 1
    BY <1>3, <2>1 DEF Alone, ChainInv, SameChain
  <2>3. NothingForgotten'
    BY <1>2, <1>3, <2>1 DEF ChainInv, NothingForgotten, Busy
  <2>4. \A q \in Passes : Ready(q)'
    <3> SUFFICES ASSUME NEW q \in Passes PROVE Ready(q)'
      OBVIOUS
    <3>1. CASE q = p
      BY <3>1 DEF Ready, Touching, Building, Leaving
    <3>2. CASE q # p
      BY <1>1, <1>2, <2>1, <3>2 DEF ChainInv, Ready, SameChain
    <3> QED
      BY <3>1, <3>2
  <2> QED
    BY <2>2, <2>3, <2>4
<1> QED
  BY <1>4, <1>5 DEF ChainInv, SameChain

LEMMA ProbeKeepsChain ==
    ASSUME TypeOK, ChainInv, NEW p \in Passes, Probe(p)
    PROVE  ChainInv'
<1>1. CASE ProbeCreate(p)
  BY <1>1, CreateSteps, AsideKeeps DEF Steps, Touching, Building, Leaving
<1>2. CASE ProbeInsert(p)
  BY <1>2, InsertSteps, AsideKeeps DEF Steps, Touching, Building, Leaving
<1>3. CASE ProbeDelete(p)
  BY <1>3, DeleteSteps, AsideKeeps DEF Steps, Touching, Building, Leaving
<1>4. CASE ProbeDestroy(p)
  BY <1>4, DestroySteps, AsideKeeps DEF Steps, Touching, Building, Leaving
<1>5. CASE SweepRule(p)
  BY <1>5, SweepRuleSteps, AsideKeeps DEF Steps, Touching, Building, Leaving
<1>6. CASE SweepSet(p)
  <2>0. /\ Steps(p) /\ SameChain /\ managed' = managed
        /\ job[p].step = "sweepSet" /\ job[p].step \notin Touching
        /\ \A q \in Passes \ {p} : job'[q] = job[q]
    BY <1>6, SweepSetSteps, MoveTypes DEF Steps, Touching, Building, Leaving
  <2>1. CASE job'[p].step = "idle"
    BY <2>0, <2>1, AsideKeeps DEF Steps, Touching, Building, Leaving
  <2>2. CASE job'[p].step # "idle"
    <3>0. /\ \/ job'[p].step = "flush" /\ job'[p].want = {}
             \/ job'[p].step = "ipset" /\ job'[p].want # {}
          /\ Overlapped(p) => "chain" \in unsure'
      BY <1>6, <2>2, SweepSetSteps
    <3>1. \A q \in Passes : Wanting(q)'
      <4> SUFFICES ASSUME NEW q \in Passes PROVE Wanting(q)'
        OBVIOUS
      <4>1. CASE q = p
        BY <3>0, <4>1 DEF Wanting
      <4>2. CASE q # p
        BY <2>0, <4>2 DEF ChainInv, Wanting
      <4> QED
        BY <4>1, <4>2
    <3>2. ASSUME "chain" \notin unsure'
          PROVE  Alone' /\ fw'.jumps <= 1 /\ NothingForgotten' /\ \A q \in Passes : Ready(q)'
      <4>1. "chain" \notin unsure
        BY <2>0, <3>2 DEF Steps
      <4>2. \A q \in Passes \ {p} : job[q].step \notin Touching /\ job'[q].step \notin Touching
        BY <2>0, <3>0, <3>2 DEF Overlapped
      <4>3. Alone' /\ fw'.jumps <= 1
        BY <2>0, <4>1, <4>2 DEF Alone, ChainInv, SameChain
      <4>4. OursGone' <=> OursGone
        BY <2>0 DEF OursGone, SameChain
      <4>5. managed = {} => OursGone
        BY <2>0, <4>1, <4>2 DEF ChainInv, NothingForgotten, Busy
      <4>6. NothingForgotten'
        BY <2>0, <4>4, <4>5 DEF NothingForgotten
      <4>7. \A q \in Passes : Ready(q)'
        <5> SUFFICES ASSUME NEW q \in Passes PROVE Ready(q)'
          OBVIOUS
        <5>1. CASE q = p
          BY <2>0, <3>0, <4>4, <4>5, <5>1 DEF Ready
        <5>2. CASE q # p
          <6>1. job'[q].step \notin Touching
            BY <4>2, <5>2
          <6> QED
            BY <6>1 DEF Ready, Touching, Building, Leaving
        <5> QED
          BY <5>1, <5>2
      <4> QED
        BY <4>3, <4>6, <4>7
    <3> QED
      BY <2>0, <3>1, <3>2 DEF ChainInv, SameChain
  <2> QED
    BY <2>1, <2>2
<1> QED
  BY <1>1, <1>2, <1>3, <1>4, <1>5, <1>6 DEF Probe

LEMMA BuildKeepsChain ==
    ASSUME TypeOK, ChainInv, NEW p \in Passes, Build(p)
    PROVE  ChainInv'
<1>0. /\ Wanting(p) /\ (fw.drops # {} => fw.chain)
      /\ "chain" \notin unsure => fw.jumps <= 1 /\ Ready(p)
      /\ fw.jumps \in Nat
  BY DEF ChainInv, TypeOK, Firewall
<1>a. ASSUME Steps(p), "chain" \notin unsure' PROVE "chain" \notin unsure
  BY <1>a DEF Steps
<1>1. CASE EnsureSet(p)
  BY <1>0, <1>1, <1>a, EnsureSetSteps, WorkKeeps DEF Wanting, Ready, OursGone, Touching, Building
<1>2. CASE EmptySet(p)
  BY <1>0, <1>2, <1>a, EmptySetSteps, WorkKeeps
  DEF Wanting, Ready, OursGone, SameChain, Touching, Building
<1>3. CASE FillSet(p)
  BY <1>0, <1>3, <1>a, FillSetSteps, WorkKeeps
  DEF Wanting, Ready, OursGone, SameChain, Touching, Building
<1>4. CASE NewChain(p)
  BY <1>0, <1>4, <1>a, NewChainSteps, WorkKeeps DEF Wanting, Ready, OursGone, Touching, Building
<1>5. CASE CheckJump(p)
  BY <1>0, <1>5, <1>a, CheckJumpSteps, WorkKeeps
  DEF Wanting, Ready, OursGone, SameChain, Touching, Building
<1>6. CASE AddJump(p)
  BY <1>0, <1>6, <1>a, AddJumpSteps, WorkKeeps DEF Wanting, Ready, OursGone, Touching, Building
<1>7. CASE Flush(p)
  BY <1>0, <1>7, <1>a, FlushSteps, WorkKeeps
  DEF Wanting, Ready, OursGone, Touching, Building, Leaving
<1>8. CASE AddRule(p)
  BY <1>0, <1>8, <1>a, AddRuleSteps, WorkKeeps
  DEF Wanting, Ready, OursGone, Touching, Building, Leaving
<1> QED
  BY <1>1, <1>2, <1>3, <1>4, <1>5, <1>6, <1>7, <1>8 DEF Build

LEMMA TearDownKeepsChain ==
    ASSUME TypeOK, ChainInv, NEW p \in Passes, TearDown(p) \/ Record(p)
    PROVE  ChainInv'
<1>0. /\ Wanting(p) /\ (fw.drops # {} => fw.chain)
      /\ "chain" \notin unsure => fw.jumps <= 1 /\ Ready(p)
      /\ fw.jumps \in Nat
  BY DEF ChainInv, TypeOK, Firewall
<1>a. ASSUME Steps(p), "chain" \notin unsure' PROVE "chain" \notin unsure
  BY <1>a DEF Steps
<1>1. CASE Unjump(p)
  <2>1. /\ Steps(p) /\ job[p].step = "unjump" /\ job'[p].step = "reflush"
        /\ job'[p].want = job[p].want /\ fw'.chain = fw.chain /\ fw'.drops = fw.drops
        /\ \/ fw'.jumps = 0 \/ fw'.jumps = fw.jumps - 1 \/ "chain" \in unsure'
    BY <1>1, UnjumpSteps
  <2>2. fw'.jumps \in Nat
    BY <2>1 DEF Steps, Firewall
  <2>3. "chain" \notin unsure' => fw'.jumps = 0
    BY <1>0, <1>a, <2>1, <2>2
  <2>4. Wanting(p)' /\ ("chain" \notin unsure' => Ready(p)')
    BY <1>0, <2>1, <2>3 DEF Wanting, Ready
  <2> QED
    BY <1>0, <2>1, <2>3, <2>4, WorkKeeps DEF Touching, Leaving
<1>2. CASE Reflush(p)
  BY <1>0, <1>2, <1>a, ReflushSteps, WorkKeeps DEF Wanting, Ready, OursGone, Touching, Leaving
<1>3. CASE DeleteChain(p)
  BY <1>0, <1>3, <1>a, DeleteChainSteps, WorkKeeps
  DEF Wanting, Ready, OursGone, Touching, Leaving
<1>4. CASE DeleteSet(p)
  BY <1>0, <1>4, <1>a, DeleteSetSteps, WorkKeeps DEF Wanting, Ready, OursGone, Touching, Leaving
<1>5. CASE Record(p)
  BY <1>0, <1>5, <1>a, RecordSteps, WorkKeeps DEF Wanting, Ready, OursGone, Touching, Leaving
<1> QED
  BY <1>1, <1>2, <1>3, <1>4, <1>5 DEF TearDown

LEMMA CutKeepsChain ==
    ASSUME TypeOK, ChainInv, NEW p \in Passes, Cut(p)
    PROVE  ChainInv'
<1>1. /\ Steps(p) /\ fw' = fw /\ managed' = managed /\ job'[p].step = "idle"
      /\ job[p].step \in Touching /\ managed = {} => "chain" \in unsure'
  BY CutSteps
<1>2. CASE job[p].step \in Touching
  <2>1. Wanting(p)' /\ Ready(p)'
    BY <1>1 DEF Wanting, Ready
  <2>2. (fw.drops # {} => fw.chain) /\ ("chain" \notin unsure => fw.jumps <= 1)
    BY DEF ChainInv
  <2>3. "chain" \notin unsure' => "chain" \notin unsure
    BY <1>1 DEF Steps
  <2> QED
    BY <1>1, <1>2, <2>1, <2>2, <2>3, WorkKeeps
<1>3. CASE job[p].step \notin Touching
  BY <1>1, <1>3, AsideKeeps DEF Steps, SameChain, Touching, Building, Leaving
<1> QED
  BY <1>2, <1>3

LEMMA RebootKeepsChain ==
    ASSUME TypeOK, ChainInv, Reboot
    PROVE  ChainInv'
<1>1. fw' = Untouched /\ \A p \in Passes : job'[p].step \notin Connected
  BY RebootSteps
<1>2. OursGone' /\ fw'.jumps = 0 /\ fw'.drops = {}
  BY <1>1 DEF OursGone, Untouched
<1>3. \A p \in Passes : job'[p].step \notin Touching
  BY <1>1, StepNames
<1>4. \A p \in Passes : Wanting(p)' /\ Ready(p)'
  BY <1>3 DEF Wanting, Ready, Touching, Building, Leaving
<1> QED
  BY <1>2, <1>3, <1>4 DEF ChainInv, Alone, NothingForgotten

LEMMA CrashKeepsChain ==
    ASSUME TypeOK, ChainInv, Crash
    PROVE  ChainInv'
<1>1. /\ \A p \in Passes : job'[p].step = "idle"
      /\ UNCHANGED <<managed, fw>> /\ unsure' = Dropped(Passes)
  BY CrashSteps, NoJobIsJob
<1>2. \A p \in Passes : Wanting(p)' /\ Ready(p)'
  BY <1>1 DEF Wanting, Ready
<1>3. ASSUME "chain" \notin unsure' PROVE Alone' /\ fw'.jumps <= 1 /\ NothingForgotten'
  <2>1. /\ "chain" \notin unsure
        /\ managed = {} => \A p \in Passes : job[p].step \notin Touching
    <3>1. Passes \in SUBSET Passes
      OBVIOUS
    <3> QED
      BY <1>1, <1>3, <3>1, DroppedTypes
  <2>2. Alone'
    BY <1>1, StepNames DEF Alone
  <2>3. managed = {} => OursGone
    BY <2>1 DEF ChainInv, NothingForgotten, Busy
  <2>4. fw'.jumps <= 1
    BY <1>1, <2>1 DEF ChainInv
  <2>5. NothingForgotten'
    BY <1>1, <2>3 DEF NothingForgotten, OursGone
  <2> QED
    BY <2>2, <2>4, <2>5
<1> QED
  BY <1>1, <1>2, <1>3 DEF ChainInv

LEMMA StepKeepsChain == TypeOK /\ ChainInv /\ [Next]_vars => ChainInv'
<1> SUFFICES ASSUME TypeOK, ChainInv, [Next]_vars PROVE ChainInv'
  OBVIOUS
<1>1. ASSUME NEW p \in Passes, Begin(p) PROVE ChainInv'
  <2>1. /\ fw' = fw /\ managed' = managed /\ unsure' = unsure
        /\ job' \in [Passes -> Job] /\ Moves(p)
        /\ job[p].step = "idle" /\ job'[p].step = "load"
    BY <1>1, BeginSteps
  <2> QED
    BY <2>1, AsideKeeps DEF SameChain, Touching, Building, Leaving
<1>2. ASSUME NEW p \in Passes, Load(p) PROVE ChainInv'
  BY <1>2, LoadSteps, AsideKeeps DEF Steps, SameChain, Touching, Building, Leaving
<1>3. ASSUME NEW p \in Passes, Advance(p) \/ Cut(p) PROVE ChainInv'
  BY <1>2, <1>3, ProbeKeepsChain, BuildKeepsChain, TearDownKeepsChain, CutKeepsChain DEF Advance
<1>4. CASE Users \/ UNCHANGED vars
  <2>1. UNCHANGED <<managed, fw, job, unsure>>
    BY <1>4, UserSteps DEF vars
  <2> QED
    BY <2>1 DEF ChainInv, Wanting, Ready, Alone, NothingForgotten, OursGone, Busy
<1> QED
  BY <1>1, <1>3, <1>4, RebootKeepsChain, CrashKeepsChain DEF Next

LEMMA InitChain == Init => ChainInv
  BY DEF Init, NoJob, Untouched, ChainInv, Wanting, Ready, Alone, NothingForgotten, OursGone,
         Busy, Touching, Building, Leaving

(* When the record says that nothing is pushed and no pass is at work, there is
   neither chain nor jump nor set on the router, for any number of devices,
   passes and faults; only a first push cut short, a refusal nobody noticed or
   two passes at the chain at once can leave something there.                *)
THEOREM DohNothingForgotten == Spec => []NothingForgotten
<1>1. TypeOK /\ ChainInv => NothingForgotten
  BY DEF ChainInv, NothingForgotten
<1>2. Spec => []ChainInv
  BY InitTypes, InitChain, StepKeepsTypes, StepKeepsChain, DohTypeCorrect, PTL DEF Spec
<1> QED
  BY <1>1, <1>2, DohTypeCorrect, PTL

-----------------------------------------------------------------------------
(* Probes clean up after each other. *)

\* Passes that have put a probe rule there, or have yet to sweep one away.
HoldingSteps == {"delete", "destroy", "sweepRule"}
Holding == {p \in Passes : job[p].step \in HoldingSteps}

ProbeInv ==
    "probe" \notin unsure => fw.inputs <= Cardinality(Holding) /\ (fw.probe => Busy(Probing))

LEMMA HoldingIsFinite == IsFiniteSet(Holding) /\ Cardinality(Holding) \in Nat
<1>1. IsFiniteSet(Passes)
  BY DohAssumption, FS_AddElement DEF DohAssumption, Passes
<1>2. Holding \subseteq Passes
  BY DEF Holding
<1> QED
  BY <1>1, <1>2, FS_Subset, FS_CardinalityType

LEMMA HoldingMoves ==
    ASSUME TypeOK, NEW p \in Passes, Moves(p), job'[p] \in Job
    PROVE  /\ p \notin Holding /\ job'[p].step \in HoldingSteps =>
                 Cardinality(Holding)' = Cardinality(Holding) + 1
           /\ p \in Holding /\ job'[p].step \notin HoldingSteps =>
                 Cardinality(Holding)' = Cardinality(Holding) - 1
           /\ (p \in Holding <=> job'[p].step \in HoldingSteps) =>
                 Cardinality(Holding)' = Cardinality(Holding)
<1>1. \A q \in Passes \ {p} : job'[q] = job[q]
  BY MoveTypes
<1>2. job'[p].step \in HoldingSteps => Holding' = Holding \cup {p}
  BY <1>1 DEF Holding
<1>3. job'[p].step \notin HoldingSteps => Holding' = Holding \ {p}
  BY <1>1 DEF Holding
<1>4. p \notin Holding => Cardinality(Holding \cup {p}) = Cardinality(Holding) + 1
  BY HoldingIsFinite, FS_AddElement
<1>5. p \in Holding => Cardinality(Holding \ {p}) = Cardinality(Holding) - 1
  BY HoldingIsFinite, FS_RemoveElement
<1>6. /\ p \in Holding => Holding \cup {p} = Holding
      /\ p \notin Holding => Holding \ {p} = Holding
  OBVIOUS
<1> QED
  BY <1>2, <1>3, <1>4, <1>5, <1>6

\* A pass that stays within the probe, or outside it.
LEMMA ProbeGoesOn ==
    ASSUME TypeOK, ProbeInv, NEW p \in Passes, Moves(p), job'[p] \in Job,
           unsure \subseteq unsure',
           "probe" \notin unsure' =>
              /\ fw'.inputs <= Cardinality(Holding)'
              /\ fw'.probe /\ job'[p].step \notin Probing =>
                    job[p].step \notin Probing /\ fw.probe
    PROVE  ProbeInv'
<1>1. \A q \in Passes \ {p} : job'[q] = job[q]
  BY MoveTypes
<1>2. ASSUME "probe" \notin unsure', fw'.probe PROVE Busy(Probing)'
  <2>1. CASE job'[p].step \in Probing
    BY <2>1 DEF Busy
  <2>2. CASE job'[p].step \notin Probing
    <3>1. PICK q \in Passes : job[q].step \in Probing
      BY <1>2, <2>2 DEF ProbeInv, Busy
    <3>2. q # p
      BY <1>2, <2>2, <3>1
    <3> QED
      BY <1>1, <3>1, <3>2 DEF Busy
  <2> QED
    BY <2>1, <2>2
<1> QED
  BY <1>2 DEF ProbeInv

LEMMA ProbeKeepsProbe ==
    ASSUME TypeOK, ProbeInv, NEW p \in Passes, Probe(p)
    PROVE  ProbeInv'
<1>0. /\ fw.inputs \in Nat /\ fw.probe \in BOOLEAN /\ Cardinality(Holding) \in Nat
      /\ "probe" \notin unsure => fw.inputs <= Cardinality(Holding)
      /\ p \in Holding <=> job[p].step \in HoldingSteps
  BY HoldingIsFinite DEF TypeOK, Firewall, ProbeInv, Holding
<1>s. Steps(p) => Moves(p) /\ job'[p] \in Job /\ unsure \subseteq unsure' /\ fw'.inputs \in Nat
  BY DEF Steps, Firewall
<1>1. CASE ProbeCreate(p)
  <2>1. /\ Steps(p) /\ unsure' = unsure /\ job[p].step = "create"
        /\ job'[p].step \in {"insert", "sweepRule"} /\ fw'.inputs = fw.inputs
    BY <1>1, CreateSteps
  <2>2. Cardinality(Holding)' \in {Cardinality(Holding), Cardinality(Holding) + 1}
    BY <1>0, <1>s, <2>1, HoldingMoves DEF HoldingSteps
  <2>3. job'[p].step \in Probing
    BY <2>1 DEF Probing
  <2>4. "probe" \notin unsure' => fw'.inputs <= Cardinality(Holding)'
    BY <1>0, <2>1, <2>2
  <2> QED
    BY <1>s, <2>1, <2>3, <2>4, ProbeGoesOn
<1>2. CASE ProbeInsert(p)
  <2>1. /\ Steps(p) /\ unsure' = unsure /\ job[p].step = "insert"
        /\ job'[p].step \in HoldingSteps
        /\ fw'.inputs = fw.inputs \/ fw'.inputs = fw.inputs + 1
    BY <1>2, InsertSteps DEF HoldingSteps
  <2>2. Cardinality(Holding)' = Cardinality(Holding) + 1
    BY <1>0, <1>s, <2>1, HoldingMoves DEF HoldingSteps
  <2>3. job'[p].step \in Probing
    BY <2>1 DEF Probing, HoldingSteps
  <2>4. "probe" \notin unsure' => fw'.inputs <= Cardinality(Holding)'
    BY <1>0, <2>1, <2>2
  <2> QED
    BY <1>s, <2>1, <2>3, <2>4, ProbeGoesOn
<1>3. CASE ProbeDelete(p) \/ ProbeDestroy(p)
  <2>1. /\ Steps(p) /\ unsure' = unsure /\ job[p].step \in HoldingSteps
        /\ job'[p].step \in HoldingSteps
        /\ fw'.inputs = fw.inputs \/ fw'.inputs = fw.inputs - 1
    BY <1>3, DeleteSteps, DestroySteps DEF HoldingSteps
  <2>2. Cardinality(Holding)' = Cardinality(Holding)
    BY <1>0, <1>s, <2>1, HoldingMoves
  <2>3. job'[p].step \in Probing
    BY <2>1 DEF Probing, HoldingSteps
  <2>4. "probe" \notin unsure' => fw'.inputs <= Cardinality(Holding)'
    BY <1>0, <2>1, <2>2
  <2> QED
    BY <1>s, <2>1, <2>3, <2>4, ProbeGoesOn
<1>4. CASE SweepRule(p)
  <2>1. /\ Steps(p) /\ job[p].step = "sweepRule" /\ job'[p].step = "sweepSet"
        /\ \/ fw'.inputs = 0 \/ fw'.inputs = fw.inputs - 1 \/ "probe" \in unsure'
    BY <1>4, SweepRuleSteps
  <2>2. Cardinality(Holding)' = Cardinality(Holding) - 1 /\ Cardinality(Holding)' \in Nat
    <3>1. Cardinality(Holding)' = Cardinality(Holding) - 1
      BY <1>0, <1>s, <2>1, HoldingMoves DEF HoldingSteps
    <3>2. Cardinality(Holding) # 0
      BY <1>0, <2>1, HoldingIsFinite, FS_EmptySet DEF HoldingSteps
    <3> QED
      BY <1>0, <3>1, <3>2
  <2>3. job'[p].step \in Probing
    BY <2>1 DEF Probing
  <2>4. "probe" \notin unsure' => fw'.inputs <= Cardinality(Holding)'
    BY <1>0, <1>s, <2>1, <2>2
  <2> QED
    BY <1>s, <2>1, <2>3, <2>4, ProbeGoesOn
<1>5. CASE SweepSet(p)
  <2>1. /\ Steps(p) /\ job[p].step = "sweepSet" /\ fw'.inputs = fw.inputs
        /\ \/ ~fw'.probe \/ fw'.inputs # 0 \/ "probe" \in unsure'
        /\ job'[p].step \in {"idle", "flush", "ipset"}
    BY <1>5, SweepSetSteps
  <2>2. Cardinality(Holding)' = Cardinality(Holding)
    BY <1>0, <1>s, <2>1, HoldingMoves DEF HoldingSteps
  <2>3. ASSUME "probe" \notin unsure', fw'.probe PROVE Busy(Probing)'
    <3>1. fw.inputs # 0 /\ "probe" \notin unsure
      BY <1>s, <2>1, <2>3
    <3>2. Cardinality(Holding) # 0
      BY <1>0, <3>1
    <3>3. PICK q \in Holding : TRUE
      BY <3>2, FS_EmptySet
    <3>4. q \in Passes /\ job[q].step \in HoldingSteps /\ q # p
      BY <2>1, <3>3 DEF Holding, HoldingSteps
    <3>5. job'[q] = job[q]
      BY <1>s, <2>1, <3>4, MoveTypes
    <3> QED
      BY <3>4, <3>5 DEF Busy, Probing, HoldingSteps
  <2> QED
    BY <1>0, <1>s, <2>1, <2>2, <2>3 DEF ProbeInv
<1> QED
  BY <1>1, <1>2, <1>3, <1>4, <1>5 DEF Probe

\* A pass that has no part in a probe, before and after.
LEMMA OthersKeepProbe ==
    ASSUME TypeOK, ProbeInv, NEW p \in Passes, Moves(p), job'[p] \in Job,
           unsure \subseteq unsure', SameProbe, job[p].step \notin Probing,
           job'[p].step \notin HoldingSteps
    PROVE  ProbeInv'
<1>1. p \notin Holding
  BY DEF Holding, HoldingSteps, Probing
<1>2. Cardinality(Holding)' = Cardinality(Holding)
  BY <1>1, HoldingMoves
<1> QED
  BY <1>2, ProbeGoesOn DEF ProbeInv, SameProbe

LEMMA WorkKeepsProbe ==
    ASSUME TypeOK, ProbeInv, NEW p \in Passes, Build(p) \/ TearDown(p)
    PROVE  ProbeInv'
<1>1. /\ Steps(p) /\ SameProbe /\ job[p].step \notin Probing
      /\ job'[p].step \notin HoldingSteps
  BY EnsureSetSteps, EmptySetSteps, FillSetSteps, NewChainSteps, CheckJumpSteps, AddJumpSteps,
     FlushSteps, AddRuleSteps, UnjumpSteps, ReflushSteps, DeleteChainSteps, DeleteSetSteps
  DEF Build, TearDown, Probing, HoldingSteps
<1> QED
  BY <1>1, OthersKeepProbe DEF Steps

LEMMA EmptyHolding ==
    ASSUME \A q \in Passes : job'[q].step \notin HoldingSteps
    PROVE  Cardinality(Holding)' = 0
<1>1. Holding' = {}
  BY DEF Holding
<1> QED
  BY <1>1, FS_EmptySet

LEMMA StepKeepsProbe == TypeOK /\ ProbeInv /\ [Next]_vars => ProbeInv'
<1> SUFFICES ASSUME TypeOK, ProbeInv, [Next]_vars PROVE ProbeInv'
  OBVIOUS
<1>1. ASSUME NEW p \in Passes, Begin(p) PROVE ProbeInv'
  <2>1. /\ fw' = fw /\ unsure' = unsure /\ job' \in [Passes -> Job] /\ Moves(p)
        /\ job[p].step = "idle" /\ job'[p].step = "load"
    BY <1>1, BeginSteps
  <2> QED
    BY <2>1, OthersKeepProbe DEF SameProbe, Probing, HoldingSteps
<1>2. ASSUME NEW p \in Passes, Load(p) \/ Record(p) PROVE ProbeInv'
  <2>1. /\ Steps(p) /\ SameProbe /\ job[p].step \notin Probing
        /\ job'[p].step \notin HoldingSteps
    BY <1>2, LoadSteps, RecordSteps DEF SameProbe, Probing, HoldingSteps
  <2> QED
    BY <2>1, OthersKeepProbe DEF Steps
<1>3. ASSUME NEW p \in Passes, Cut(p) PROVE ProbeInv'
  <2>1. /\ Steps(p) /\ fw' = fw /\ job'[p].step = "idle"
        /\ job[p].step \in Probing => "probe" \in unsure'
    BY <1>3, CutSteps
  <2>2. CASE job[p].step \in Probing
    BY <2>1, <2>2 DEF ProbeInv
  <2>3. CASE job[p].step \notin Probing
    BY <2>1, <2>3, OthersKeepProbe DEF Steps, SameProbe, HoldingSteps
  <2> QED
    BY <2>2, <2>3
<1>4. CASE Users \/ UNCHANGED vars
  <2>1. UNCHANGED <<fw, job, unsure>>
    BY <1>4, UserSteps DEF vars
  <2> QED
    BY <2>1 DEF ProbeInv, Holding, Busy
<1>5. CASE Reboot
  <2>1. fw' = Untouched
    BY <1>5, RebootSteps
  <2>2. fw'.inputs = 0 /\ ~fw'.probe
    BY <2>1 DEF Untouched
  <2>3. \A q \in Passes : job'[q].step \notin HoldingSteps
    BY <1>5, RebootSteps DEF Connected, Probing, HoldingSteps
  <2> QED
    BY <2>2, <2>3, EmptyHolding DEF ProbeInv
<1>6. CASE Crash
  <2>1. /\ job' = [q \in Passes |-> NoJob] /\ fw' = fw /\ unsure' = Dropped(Passes)
    BY <1>6, CrashSteps
  <2>2. ASSUME "probe" \notin unsure'
        PROVE  fw'.inputs <= Cardinality(Holding)' /\ ~fw'.probe
    <3>1. "probe" \notin unsure /\ \A q \in Passes : job[q].step \notin Probing
      <4>1. Passes \in SUBSET Passes
        OBVIOUS
      <4> QED
        BY <2>1, <2>2, <4>1, DroppedTypes
    <3>2. Holding = {} /\ ~Busy(Probing)
      BY <3>1 DEF Holding, HoldingSteps, Busy, Probing
    <3>3. fw.inputs <= 0 /\ ~fw.probe
      BY <3>1, <3>2, FS_EmptySet DEF ProbeInv
    <3>4. Cardinality(Holding)' = 0
      BY <2>1, NoJobIsJob, EmptyHolding DEF HoldingSteps
    <3> QED
      BY <2>1, <3>3, <3>4
  <2> QED
    BY <2>2 DEF ProbeInv
<1> QED
  BY <1>1, <1>2, <1>3, <1>4, <1>5, <1>6, ProbeKeepsProbe, WorkKeepsProbe DEF Next, Advance

LEMMA InitProbe == Init => ProbeInv
<1> SUFFICES ASSUME Init PROVE ProbeInv
  OBVIOUS
<1>1. fw.inputs = 0 /\ ~fw.probe
  BY DEF Init, Untouched
<1> QED
  BY <1>1, HoldingIsFinite DEF ProbeInv

(* When no probe is under way the probe's set and rules are gone: there are
   never more rules than passes that have yet to sweep one away, whosever rule
   it is that they take.                                                     *)
THEOREM DohProbesCleanUp == Spec => []ProbesCleanUp
<1>1. TypeOK /\ ProbeInv => ProbesCleanUp
  <2> SUFFICES ASSUME TypeOK, ProbeInv, "probe" \notin unsure, ~Busy(Probing)
               PROVE  ~fw.probe /\ fw.inputs = 0
    BY DEF ProbesCleanUp
  <2>1. Holding = {}
    BY DEF Holding, HoldingSteps, Busy, Probing
  <2>2. fw.inputs <= 0 /\ ~fw.probe
    BY <2>1, FS_EmptySet DEF ProbeInv
  <2> QED
    BY <2>2 DEF TypeOK, Firewall
<1>2. Spec => []ProbeInv
  BY InitTypes, InitProbe, StepKeepsTypes, StepKeepsProbe, DohTypeCorrect, PTL DEF Spec
<1> QED
  BY <1>1, <1>2, DohTypeCorrect, PTL

=============================================================================
