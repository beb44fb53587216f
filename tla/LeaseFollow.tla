----------------------------- MODULE LeaseFollow -----------------------------
(***************************************************************************)
(* Device rows follow their MAC address from lease to lease                 *)
(* (Store.follow_device_to_new_ip, Reconciler._reconcile_device_macs).      *)
(*                                                                          *)
(* Rows are keyed by address; Technitium, the sampler and every person only *)
(* speak of addresses.  Once per pass the router reports which device it    *)
(* sees at which address, and the rows are moved accordingly, one reported  *)
(* client after the other.  Nothing is awaited in between, so nobody else   *)
(* acts while clients are left in the report.                               *)
(*                                                                          *)
(* A row's profile stands for every column the migration merges the same    *)
(* way (label, notes, person, vendor, hint).                                *)
(***************************************************************************)
EXTENDS Naturals, Sequences, FiniteSets

CONSTANTS
    IPs, MACs, Profiles,
    Rules,          \* device schedules, quotas and manual pauses
    None,
    AddressReuse,   \* may the router report a device at another's address?
    MaxClients,     \* bound on the length of a report
    MaxMinutes      \* bound on the minutes credited in a day

Row == [mac : MACs \cup {None}, base : Profiles \cup {None}]

ASSUME LeaseAssumption ==
    /\ None \notin IPs \cup MACs \cup Profiles /\ None \notin Row
    /\ AddressReuse \in BOOLEAN
    /\ MaxClients \in Nat /\ MaxMinutes \in Nat

VARIABLES
    rows,       \* table devices: the row of an address, or None
    target,     \* the address each rule is set for, or None
    family,     \* the addresses that have a family-pause override
    usage,      \* daily_usage of each address
    report,     \* clients of the router's report still to be followed
    asked,      \* addresses a fingerprint query is under way for
    credited    \* minutes the sampler has credited in all

vars == <<rows, target, family, usage, report, asked, credited>>

Client == [ip : IPs, mac : MACs]
\* What ip_to_mac can hold: it is a dict, so an address is reported once, but
\* a router that remembers old leases reports a device more than once.
Reports == {s \in UNION {[1..n -> Client] : n \in 1..MaxClients} :
              \A i, j \in DOMAIN s : s[i].ip = s[j].ip => i = j}

Known  == {ip \in IPs : rows[ip] # None}
RowsOf(mac) == {ip \in Known : rows[ip].mac = mac}

\* Wrong: a column nobody has filled in is empty text, which is not NULL.
BlankText == [mac |-> "", base |-> None]

Blank == [mac |-> None, base |-> None]

\* INSERT ... ON CONFLICT(ip) DO UPDATE: the row that is updated.
RowAt(ip) == IF ip \in Known THEN rows[ip] ELSE Blank

\* A client the rows can follow without taking an address from another device.
Free(c) == RowAt(c.ip).mac \in {None, c.mac}

Init ==
    /\ rows = [ip \in IPs |-> None]
    /\ target = [r \in Rules |-> None]
    /\ family = {}
    /\ usage = [ip \in IPs |-> 0]
    /\ report = <<>>
    /\ asked = {}
    /\ credited = 0

-----------------------------------------------------------------------------
(* A pass of the reconciler. *)

Idle == report = <<>>

ListClients ==
    /\ Idle
    /\ \E s \in Reports :
          /\ AddressReuse \/ \A i \in DOMAIN s : Free(s[i])
          /\ report' = s
    /\ UNCHANGED <<rows, target, family, usage, asked, credited>>

\* Wrong: a row that is already at the address wins, blank as it may be.
MergedFromAddress(old, ip) ==
    [mac |-> rows[old].mac,
     base |-> IF ip \in Known THEN RowAt(ip).base ELSE rows[old].base]

\* The row anchored by the MAC wins, column by column.
Merged(old, ip) ==
    [mac |-> rows[old].mac,
     base |-> IF rows[old].base # None THEN rows[old].base ELSE RowAt(ip).base]

\* Wrong: only the row moves.
MoveRowOnly(old, ip) ==
    /\ rows' = [rows EXCEPT ![old] = None, ![ip] = Merged(old, ip)]
    /\ UNCHANGED <<target, family, usage>>

\* Wrong: the minutes of the old address are not cleared after the move.
MoveCopyingUsage(old, ip) ==
    /\ rows' = [rows EXCEPT ![old] = None, ![ip] = Merged(old, ip)]
    /\ target' = [r \in Rules |-> IF target[r] = old THEN ip ELSE target[r]]
    /\ family' = IF old \in family THEN (family \ {old}) \cup {ip} ELSE family
    /\ usage' = [usage EXCEPT ![ip] = @ + usage[old]]

\* One transaction: the row and everything keyed by its address move.
Move(old, ip) ==
    /\ rows' = [rows EXCEPT ![old] = None, ![ip] = Merged(old, ip)]
    /\ target' = [r \in Rules |-> IF target[r] = old THEN ip ELSE target[r]]
    /\ family' = IF old \in family THEN (family \ {old}) \cup {ip} ELSE family
    /\ usage' = [usage EXCEPT ![ip] = @ + usage[old], ![old] = 0]

\* Wrong: the MAC is stamped even where the device has a row elsewhere.
StampAnyway(c) ==
    /\ rows' = [rows EXCEPT ![c.ip] = [RowAt(c.ip) EXCEPT !.mac = c.mac]]
    /\ UNCHANGED <<target, family, usage>>

\* The row at the address, new or not, is stamped with the MAC seen there.
Stamp(c) ==
    /\ RowsOf(c.mac) \subseteq {c.ip}
    /\ rows' = [rows EXCEPT ![c.ip] = [RowAt(c.ip) EXCEPT !.mac = c.mac]]
    /\ UNCHANGED <<target, family, usage>>

\* The next reported client.  When the transaction fails it is rolled back
\* and the client is skipped until the next pass.
Follow ==
    /\ ~Idle
    /\ LET c == Head(report) IN
          \/ \E old \in RowsOf(c.mac) \ {c.ip} : Move(old, c.ip)
          \/ Stamp(c)
          \/ UNCHANGED <<rows, target, family, usage>>
    /\ report' = Tail(report)
    /\ UNCHANGED <<asked, credited>>

\* _refresh_fingerprints asks about rows of the pass's snapshot and stores the
\* answer at the same address, whatever has become of the row meanwhile.
AskFingerprint(ip) ==
    /\ Idle
    /\ ip \in Known \ asked
    /\ asked' = asked \cup {ip}
    /\ UNCHANGED <<rows, target, family, usage, report, credited>>

StoreFingerprint(ip) ==
    /\ Idle
    /\ ip \in asked
    /\ asked' = asked \ {ip}
    /\ rows' = [rows EXCEPT ![ip] = RowAt(ip)]
    /\ UNCHANGED <<target, family, usage, report, credited>>

-----------------------------------------------------------------------------
(* Everyone else speaks of addresses. *)

\* The overview page and the label editor make a row where there is none.
Touch(ip) ==
    /\ Idle
    /\ ip \notin Known
    /\ rows' = [rows EXCEPT ![ip] = Blank]
    /\ UNCHANGED <<target, family, usage, report, asked, credited>>

SetProfile(ip, p) ==
    /\ Idle
    /\ rows' = [rows EXCEPT ![ip] = [RowAt(ip) EXCEPT !.base = p]]
    /\ UNCHANGED <<target, family, usage, report, asked, credited>>

AddRule(r, ip) ==
    /\ Idle
    /\ target[r] = None
    /\ target' = [target EXCEPT ![r] = ip]
    /\ UNCHANGED <<rows, family, usage, report, asked, credited>>

\* Deleted, resumed or expired.
DropRule(r) ==
    /\ Idle
    /\ target[r] # None
    /\ target' = [target EXCEPT ![r] = None]
    /\ UNCHANGED <<rows, family, usage, report, asked, credited>>

\* Every row that is not excluded is stamped.
FamilyPause ==
    /\ Idle
    /\ \E excluded \in SUBSET Known : family' = family \cup (Known \ excluded)
    /\ UNCHANGED <<rows, target, usage, report, asked, credited>>

FamilyResume ==
    /\ Idle
    /\ family' = family \ Known
    /\ UNCHANGED <<rows, target, usage, report, asked, credited>>

\* The sampler credits addresses, known or not.
Credit(ip) ==
    /\ Idle
    /\ credited < MaxMinutes
    /\ usage' = [usage EXCEPT ![ip] = @ + 1]
    /\ credited' = credited + 1
    /\ UNCHANGED <<rows, target, family, report, asked>>

Pass == ListClients \/ Follow
        \/ \E ip \in IPs : AskFingerprint(ip) \/ StoreFingerprint(ip)

People ==
    \/ \E ip \in IPs :
          \/ Touch(ip)
          \/ \E p \in Profiles \cup {None} : SetProfile(ip, p)
          \/ \E r \in Rules : AddRule(r, ip)
    \/ \E r \in Rules : DropRule(r)
    \/ FamilyPause
    \/ FamilyResume

Next == Pass \/ People \/ \E ip \in IPs : Credit(ip)

Spec == Init /\ [][Next]_vars

-----------------------------------------------------------------------------
(* Properties. *)

TypeOK ==
    /\ rows \in [IPs -> Row \cup {None}]
    /\ target \in [Rules -> IPs \cup {None}]
    /\ family \in SUBSET IPs
    /\ usage \in [IPs -> Nat]
    /\ report \in Seq(Client)
    /\ asked \in SUBSET IPs
    /\ credited \in Nat

(* No two rows are anchored to one MAC, so "the row of a device" means
   something: neither a router that reports a device twice nor rows created
   while a pass was waiting lead to a second one.                           *)
MacUnique ==
    \A ip1, ip2 \in Known :
        rows[ip1].mac = rows[ip2].mac /\ rows[ip1].mac # None => ip1 = ip2

(* Every address with a family-pause override has a row, so that the resume
   handler, which goes through the rows, ends the pause for all of them.    *)
FamilyPauseEnds == family \subseteq Known

\* Every minute of today's usage, at the address it is on record for.
OnRecord(minutes) == UNION {{ip} \X (1..minutes[ip]) : ip \in IPs}

(* No minute is lost, and none counted twice, when rows move: what is on record
   for all addresses together is what the sampler has credited.              *)
MinutesConserved == Cardinality(OnRecord(usage)) = credited

(* The promise of StickyDevices, kept by the row that carries the MAC. *)
RowOf(mac)   == CHOOSE ip \in IPs : ip \in RowsOf(mac)
Tracked(mac) == RowsOf(mac) # {}
RulesAt(ip)  == {r \in Rules : target[r] = ip}

profileOf == [m \in MACs |-> IF Tracked(m) THEN rows[RowOf(m)].base ELSE None]
ruledOf   == [m \in MACs |-> IF Tracked(m) THEN RulesAt(RowOf(m)) ELSE {}]
minutesOf == [m \in MACs |-> IF Tracked(m) THEN usage[RowOf(m)] ELSE 0]

Devices == INSTANCE StickyDevices
    WITH profile <- profileOf, ruled <- ruledOf, minutes <- minutesOf

(* A device keeps its profile, its rules and its minutes whatever lease it
   gets, and however the router's reports are ordered, repeated or delayed. *)
ProfilesStick == Devices!Spec
=============================================================================
