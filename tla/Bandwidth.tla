------------------------------ MODULE Bandwidth -------------------------------
(***************************************************************************)
(* Traffic shaping of one instance in mode "tc".                           *)
(*                                                                         *)
(* The rows say which limits a peer, or the whole tunnel, should have.     *)
(* The enforcer plans tc commands, runs them, and books what it applied;   *)
(* a limit that is booked is not applied again.  The kernel keeps qdiscs,  *)
(* classes and filters per device and loses them with the device.  The     *)
(* reconciler calls the enforcer for one instance at a time under its own  *)
(* mutex, with the rows it read when the run began.                        *)
(*                                                                         *)
(* A tc command is a record and the kernel a fold over commands, so that   *)
(* the order of a plan, a plan that stops half way and an undo that fails  *)
(* have the effect they have on a device.                                  *)
(***************************************************************************)
EXTENDS Naturals, Sequences, SequencesExt, FiniteSets, FiniteSetsExt

CONSTANTS
    CNs,            \* common names, as naturals in the order of their names
    IPs,            \* static addresses
    Devices,        \* names of TUN devices
    Shapes,         \* the [rx, tx, total] limits an administrator sets
    LastClass,      \* the last class id before allocation wraps; 9000 in the code
    MaxChanges,     \* bound: changes of rows, devices and daemons
    MaxFailures,    \* bound: commands that fail
    Excused,        \* the events after which the properties promise nothing
    NoPeer, NoInstance, NoEntry, NoDev, NoIP

FirstClass == 10
Events == {"failed", "recreated", "renamed", "ceiling", "wrapped", "restarted"}

ASSUME BandwidthAssumption ==
    /\ CNs \subseteq Nat /\ IsFiniteSet(CNs)
    /\ LastClass \in Nat /\ LastClass > FirstClass
    /\ MaxChanges \in Nat /\ MaxFailures \in Nat
    /\ NoDev \notin Devices /\ NoIP \notin IPs
    /\ Excused \subseteq Events
    /\ \A s \in Shapes : s.rx \in Nat /\ s.tx \in Nat /\ s.total \in Nat

VARIABLES
    instance,   \* the instance: enabled, device, role and its own limits
    peers,      \* the clients table of the instance
    kernel,     \* what tc has set up, by device
    book,       \* Enforcer.applied
    ceiling,    \* Enforcer.devices
    next,       \* Enforcer.nextCls
    run,        \* the sync in progress
    fresh,      \* the last sync ran through, and no row changed since it began
    hurt,       \* what has happened of Events
    changes, failures

rows == <<instance, peers>>
enforcer == <<book, ceiling, next>>
bandwidthVars == <<rows, kernel, enforcer, run, fresh, hurt, changes, failures>>

------------------------------------------------------------------------------
(* The kernel, as the planned commands use it.                               *)

Ids == FirstClass..LastClass
Bare ==
    [default |-> 0, class |-> [i \in Ids |-> 0], filter |-> [i \in Ids |-> NoIP],
     police |-> [i \in Ids |-> [ip |-> NoIP, rate |-> 0]], whole |-> 0]

Exec(k, c) ==
    CASE c.op = "root" -> [k EXCEPT !.default = c.id]
      [] c.op = "class" -> [k EXCEPT !.class[c.id] = c.rate]
      [] c.op = "filter" -> [k EXCEPT !.filter[c.id] = c.ip]
      [] c.op = "police" -> [k EXCEPT !.police[c.id] = [ip |-> c.ip, rate |-> c.rate]]
      [] c.op = "whole" -> [k EXCEPT !.whole = c.rate]
      [] c.op = "delRoot" -> [Bare EXCEPT !.police = k.police, !.whole = k.whole]
      [] c.op = "delIngress" -> [k EXCEPT !.police = Bare.police, !.whole = 0]
      \* a class that a filter points to is busy
      [] c.op = "delClass" ->
            IF k.filter[c.id] # NoIP THEN k ELSE [k EXCEPT !.class[c.id] = 0]

Tc(k, commands) == FoldLeft(Exec, k, commands)
TcOn(device, commands) == [kernel EXCEPT ![device] = Tc(@, commands)]

Command(op, id, ip, rate) == [op |-> op, id |-> id, ip |-> ip, rate |-> rate]

(* What the kernel lets through to and from an address; 0 is no limit.       *)
Egress(k, ip) ==
    LET filters == {i \in Ids : k.filter[i] = ip} IN
    IF filters # {} THEN k.class[Min(filters)]
    ELSE IF k.default = FirstClass THEN k.class[FirstClass] ELSE 0
Ingress(k, ip) ==
    LET filters == {i \in Ids : k.police[i].ip = ip} IN
    IF k.whole # 0 THEN k.whole
    ELSE IF filters # {} THEN k.police[Min(filters)].rate ELSE 0

------------------------------------------------------------------------------
(* bandwidth.Plan and PlanDevice: the commands that apply an entry and,      *)
(* already in the reversed order of RemoveRules, those that undo it.         *)

Plan(e) ==
    <<Command("root", 999, NoIP, 0)>>
    \o (IF e.rx > 0 THEN <<Command("class", e.id, NoIP, e.rx),
                           Command("filter", e.id, e.ip, 0)>> ELSE <<>>)
    \o (IF e.tx > 0 THEN <<Command("police", e.id, e.ip, e.tx)>> ELSE <<>>)

(* Mutant of RemoveRules: the egress filter is forgotten.                    *)
RemoveClassOnly(e) ==
    (IF e.tx > 0 THEN <<Command("police", e.id, NoIP, 0)>> ELSE <<>>)
    \o (IF e.rx > 0 THEN <<Command("delClass", e.id, NoIP, 0)>> ELSE <<>>)

RemoveRules(e) ==
    (IF e.tx > 0 THEN <<Command("police", e.id, NoIP, 0)>> ELSE <<>>)
    \o (IF e.rx > 0 THEN <<Command("delClass", e.id, NoIP, 0),
                           Command("filter", e.id, NoIP, 0)>> ELSE <<>>)

PlanDevice(c) ==
    (IF c.tx > 0 THEN <<Command("root", FirstClass, NoIP, 0),
                        Command("class", FirstClass, NoIP, c.tx)>> ELSE <<>>)
    \o (IF c.rx > 0 THEN <<Command("whole", 0, NoIP, c.rx)>> ELSE <<>>)

RemoveDeviceRules(c) ==
    (IF c.rx > 0 THEN <<Command("delIngress", 0, NoIP, 0)>> ELSE <<>>)
    \o (IF c.tx > 0 THEN <<Command("delRoot", 0, NoIP, 0)>> ELSE <<>>)

(* policy.EffectiveBandwidth                                                 *)
EffectiveBandwidth(s) ==
    IF s.total > 0 THEN [rx |-> s.total, tx |-> s.total] ELSE [rx |-> s.rx, tx |-> s.tx]

(* The reconciler leaves suspended and unlimited peers out, and Sync those   *)
(* without a static address (NeedsShaping).                                  *)
Desired(ps) ==
    {cn \in CNs : /\ ps[cn] # NoPeer /\ ~ps[cn].suspended /\ ps[cn].ip # NoIP
                  /\ LET b == EffectiveBandwidth(ps[cn].limit) IN b.rx > 0 \/ b.tx > 0}
Wanted(p, device, id) ==
    LET b == EffectiveBandwidth(p.limit) IN
    [ip |-> p.ip, rx |-> b.rx, tx |-> b.tx, dev |-> device, id |-> id]

------------------------------------------------------------------------------
NoRun == [pc |-> "idle", row |-> NoInstance, peers |-> [cn \in CNs |-> NoPeer], todo |-> {},
          ok |-> TRUE]
NoLimit == [rx |-> 0, tx |-> 0]
Limits == {EffectiveBandwidth(s) : s \in Shapes} \cup {NoLimit}
Booked == {cn \in CNs : book[cn] # NoEntry}

BandwidthInit ==
    /\ instance \in [enabled : {TRUE}, role : {"server", "client"}, dev : Devices, limit : {NoLimit}]
    /\ peers = [cn \in CNs |-> NoPeer]
    /\ kernel = [d \in Devices |-> Bare]
    /\ book = [cn \in CNs |-> NoEntry]
    /\ ceiling = NoEntry
    /\ next = [d \in Devices |-> FirstClass]
    /\ run = NoRun
    /\ fresh = FALSE
    /\ hurt = {}
    /\ changes = 0 /\ failures = 0

Fail == failures < MaxFailures /\ failures' = failures + 1

------------------------------------------------------------------------------
(* A reconcile of the instance, or of what a deleted one has left behind.    *)

SyncBegin ==
    LET clear == instance = NoInstance \/ ~instance.enabled IN
    /\ run.pc = "idle"
    /\ run' = [NoRun EXCEPT
          !.row = instance, !.peers = peers,
          !.pc = IF clear THEN "clear" ELSE IF instance.role = "server" THEN "remove" ELSE "device",
          !.todo = IF clear THEN Booked
                   ELSE IF instance.role = "server" THEN Booked \ Desired(peers) ELSE {}]
    /\ fresh' = TRUE
    /\ UNCHANGED <<rows, kernel, enforcer, hurt, changes, failures>>

(* runRules with undo: an error is logged and the next command runs.         *)
UndoOn(device, commands) ==
    \/ /\ kernel' = TcOn(device, commands)
       /\ UNCHANGED <<hurt, failures>>
    \/ \E i \in DOMAIN commands :
          /\ Fail
          /\ kernel' = TcOn(device, RemoveAt(commands, i))
          /\ hurt' = hurt \cup {"failed"}

(* Enforcer.Remove                                                           *)
Unshape(cn) ==
    /\ run.pc \in {"remove", "clear"} /\ run.todo # {} /\ cn = Min(run.todo)
    /\ book' = [book EXCEPT ![cn] = NoEntry]
    /\ UndoOn(book[cn].dev, RemoveRules(book[cn]))
    /\ run' = [run EXCEPT !.todo = @ \ {cn}]
    /\ UNCHANGED <<rows, ceiling, next, fresh, changes>>

(* Without a device nothing is applied, and Sync returns.                    *)
RemoveEnd ==
    /\ run.pc = "remove" /\ run.todo = {}
    /\ run' = IF run.row.dev = NoDev THEN [run EXCEPT !.pc = "device"]
              ELSE [run EXCEPT !.pc = "apply", !.todo = Desired(run.peers)]
    /\ UNCHANGED <<rows, kernel, enforcer, fresh, hurt, changes, failures>>

(* Mutant of NextClass: ids are not taken again.                             *)
NeverWraps(d) == next[d] + 1

(* Enforcer.allocClassID                                                     *)
NextClass(d) == IF next[d] + 1 > LastClass THEN FirstClass ELSE next[d] + 1

(* Mutant of Same: a new address with the old rates is not noticed.          *)
SameRates(old, new) ==
    old # NoEntry /\ old.rx = new.rx /\ old.tx = new.tx /\ old.dev = new.dev

Same(old, new) ==
    old # NoEntry /\ old.ip = new.ip /\ old.rx = new.rx /\ old.tx = new.tx /\ old.dev = new.dev

(* Enforcer.Apply: the old commands are undone, then the new ones run until  *)
(* one fails.  An error leaves the book as it was, although the old commands *)
(* are undone by then.  Without tc, or without the device of a deleted       *)
(* instance, nothing runs and nothing is booked.                             *)
Apply(cn) ==
    LET d == run.row.dev
        old == book[cn]
        new == Wanted(run.peers[cn], d, IF old = NoEntry THEN next[d] ELSE old.id)
        undone == IF old = NoEntry THEN kernel ELSE TcOn(old.dev, RemoveRules(old))
        rules == Plan(new)
        wrapped == IF old = NoEntry /\ NextClass(d) = FirstClass THEN {"wrapped"} ELSE {}
        events == wrapped \cup (IF old # NoEntry /\ old.dev # d THEN {"renamed"} ELSE {})
    IN
    /\ run.pc = "apply" /\ run.todo # {} /\ cn = Min(run.todo)
    /\ IF Same(old, new)
       THEN /\ run' = [run EXCEPT !.todo = @ \ {cn}]
            /\ UNCHANGED <<kernel, book, next, hurt, failures>>
       ELSE /\ next' = IF old = NoEntry THEN [next EXCEPT ![d] = NextClass(d)] ELSE next
            /\ \/ /\ instance # NoInstance
                  /\ kernel' = [undone EXCEPT ![d] = Tc(@, rules)]
                  /\ book' = [book EXCEPT ![cn] = new]
                  /\ run' = [run EXCEPT !.todo = @ \ {cn}]
                  /\ hurt' = hurt \cup events
                  /\ UNCHANGED failures
               \/ \E n \in 0..(Len(rules) - 1) :
                     /\ instance # NoInstance
                     /\ Fail
                     /\ kernel' = [undone EXCEPT ![d] = Tc(@, SubSeq(rules, 1, n))]
                     /\ hurt' = hurt \cup events \cup {"failed"}
                     /\ run' = [run EXCEPT !.todo = @ \ {cn}, !.ok = FALSE]
                     /\ UNCHANGED book
               \/ /\ IF instance = NoInstance THEN UNCHANGED failures
                     ELSE Fail
                  /\ run' = [run EXCEPT !.todo = @ \ {cn}, !.ok = FALSE]
                  /\ hurt' = hurt \cup wrapped
                  /\ UNCHANGED <<kernel, book>>
    /\ UNCHANGED <<rows, ceiling, fresh, changes>>

ApplyEnd ==
    /\ run.pc = "apply" /\ run.todo = {}
    /\ run' = [run EXCEPT !.pc = "device"]
    /\ UNCHANGED <<rows, kernel, enforcer, fresh, hurt, changes, failures>>

SyncDone(ok) ==
    /\ run' = NoRun
    /\ fresh' = (fresh /\ run.ok /\ ok)

(* A ceiling shares the root qdisc and class 1:10 with the peers.            *)
Shares == IF run.row.role = "server" THEN {"ceiling"} ELSE {}

(* Enforcer.ClearDevice                                                      *)
ClearDevice ==
    IF ceiling = NoEntry
    THEN UNCHANGED <<kernel, ceiling, hurt, failures>>
    ELSE /\ ceiling' = NoEntry
         /\ UndoOn(ceiling.dev, RemoveDeviceRules(ceiling))

(* Enforcer.SyncDevice                                                       *)
SyncDevice ==
    LET d == run.row.dev
        new == [rx |-> run.row.limit.rx, tx |-> run.row.limit.tx, dev |-> d]
        undone == IF ceiling = NoEntry THEN kernel
                  ELSE TcOn(ceiling.dev, RemoveDeviceRules(ceiling))
    IN
    /\ run.pc = "device"
    /\ IF new.rx + new.tx = 0 \/ d = NoDev
       THEN ClearDevice /\ SyncDone(d # NoDev)
       ELSE IF ceiling = new
       THEN SyncDone(TRUE) /\ UNCHANGED <<kernel, ceiling, hurt, failures>>
       ELSE \/ /\ instance = NoInstance
               /\ SyncDone(FALSE)
               /\ UNCHANGED <<kernel, ceiling, hurt, failures>>
            \/ /\ instance # NoInstance
               /\ kernel' = [undone EXCEPT ![d] = Tc(@, PlanDevice(new))]
               /\ ceiling' = new
               /\ hurt' = hurt \cup Shares
               /\ SyncDone(TRUE)
               /\ UNCHANGED failures
            \/ \E n \in 0..(Len(PlanDevice(new)) - 1) :
                  /\ instance # NoInstance
                  /\ Fail
                  /\ kernel' = [undone EXCEPT ![d] = Tc(@, SubSeq(PlanDevice(new), 1, n))]
                  /\ hurt' = hurt \cup Shares \cup {"failed"}
                  /\ SyncDone(FALSE)
                  /\ UNCHANGED ceiling
    /\ UNCHANGED <<rows, book, next, changes>>

(* The last of Enforcer.ClearInstance, for a disabled instance or an orphan:  *)
(* by now its peers have been removed one by one.                            *)
ClearEnd ==
    /\ run.pc = "clear" /\ run.todo = {}
    /\ ClearDevice
    /\ SyncDone(TRUE)
    /\ UNCHANGED <<rows, book, next, changes>>

Sync ==
    \/ SyncBegin \/ RemoveEnd \/ ApplyEnd \/ SyncDevice \/ ClearEnd
    \/ \E cn \in CNs : Unshape(cn) \/ Apply(cn)

------------------------------------------------------------------------------
(* Administrators change rows, OpenVPN processes come and go.                *)

Change == changes < MaxChanges /\ changes' = changes + 1 /\ fresh' = FALSE

AddressesBut(cn) == {peers[o].ip : o \in {o \in CNs \ {cn} : peers[o] # NoPeer}}

SetPeer(cn, ip, limit, suspended) ==
    /\ Change
    /\ instance # NoInstance /\ instance.role = "server"
    /\ ip \notin AddressesBut(cn) \ {NoIP}
    /\ peers' = [peers EXCEPT ![cn] = [ip |-> ip, limit |-> limit, suspended |-> suspended]]
    /\ UNCHANGED <<instance, kernel, enforcer, run, hurt, failures>>

DropPeer(cn) ==
    /\ Change
    /\ peers[cn] # NoPeer
    /\ peers' = [peers EXCEPT ![cn] = NoPeer]
    /\ UNCHANGED <<instance, kernel, enforcer, run, hurt, failures>>

SetRow(enabled, d, limit) ==
    /\ Change
    /\ instance # NoInstance
    /\ instance' = [instance EXCEPT !.enabled = enabled, !.dev = d, !.limit = limit]
    /\ instance' # instance
    /\ UNCHANGED <<peers, kernel, enforcer, run, hurt, failures>>

(* The device goes with the process that opened it.                          *)
ProcessRestart(d) ==
    /\ Change
    /\ kernel' = [kernel EXCEPT ![d] = Bare]
    /\ hurt' = IF kernel[d] = Bare THEN hurt ELSE hurt \cup {"recreated"}
    /\ UNCHANGED <<rows, enforcer, run, failures>>

DeleteInstance ==
    /\ Change
    /\ instance # NoInstance
    /\ instance' = NoInstance
    /\ peers' = [cn \in CNs |-> NoPeer]
    /\ kernel' = [d \in Devices |-> Bare]
    /\ hurt' = IF kernel = kernel' /\ run.pc = "idle" THEN hurt ELSE hurt \cup {"recreated"}
    /\ UNCHANGED <<enforcer, run, failures>>

CreateInstance(role, d) ==
    /\ Change
    /\ instance = NoInstance
    /\ instance' = [enabled |-> TRUE, role |-> role, dev |-> d, limit |-> NoLimit]
    /\ UNCHANGED <<peers, kernel, enforcer, run, hurt, failures>>

(* NewEnforcer: the books are in memory, the devices stay.                   *)
EnforcerRestart ==
    /\ Change
    /\ book' = [cn \in CNs |-> NoEntry] /\ ceiling' = NoEntry
    /\ next' = [d \in Devices |-> FirstClass]
    /\ run' = NoRun
    /\ hurt' = hurt \cup {"restarted"}
    /\ UNCHANGED <<rows, kernel, failures>>

Environment ==
    \/ \E cn \in CNs : DropPeer(cn)
    \/ \E cn \in CNs, ip \in IPs \cup {NoIP}, s \in Shapes, b \in BOOLEAN : SetPeer(cn, ip, s, b)
    \/ \E b \in BOOLEAN, d \in Devices \cup {NoDev}, l \in Limits : SetRow(b, d, l)
    \/ \E d \in Devices : ProcessRestart(d)
    \/ \E role \in {"server", "client"}, d \in Devices : CreateInstance(role, d)
    \/ DeleteInstance \/ EnforcerRestart

BandwidthNext == Sync \/ Environment

BandwidthSpec == BandwidthInit /\ [][BandwidthNext]_bandwidthVars

------------------------------------------------------------------------------
(* The types of the variables.                                               *)
Rate == {0} \cup UNION {{s.rx, s.tx, s.total} : s \in Shapes}
Address == IPs \cup {NoIP}
Rows == [enabled : BOOLEAN, role : {"server", "client"}, dev : Devices \cup {NoDev}, limit : Limits]
Peer == [ip : Address, limit : Shapes, suspended : BOOLEAN]
Entry == [ip : IPs, rx : Rate, tx : Rate, dev : Devices, id : Ids]
Ceiling == [rx : Rate, tx : Rate, dev : Devices]
Kernel == [default : {0, FirstClass, 999}, class : [Ids -> Rate], filter : [Ids -> Address],
           police : [Ids -> [ip : Address, rate : Rate]], whole : Rate]
Run == [pc : {"idle", "remove", "apply", "device", "clear"}, row : Rows \cup {NoInstance},
        peers : [CNs -> Peer \cup {NoPeer}], todo : SUBSET CNs, ok : BOOLEAN]

ASSUME NoneIsOne ==
    NoInstance \notin Rows /\ NoPeer \notin Peer /\ NoEntry \notin Entry /\ NoEntry \notin Ceiling

BandwidthTypeOK ==
    /\ instance \in Rows \cup {NoInstance}
    /\ peers \in [CNs -> Peer \cup {NoPeer}]
    /\ kernel \in [Devices -> Kernel]
    /\ book \in [CNs -> Entry \cup {NoEntry}]
    /\ ceiling \in Ceiling \cup {NoEntry}
    /\ next \in [Devices -> Ids]
    /\ run \in Run
    /\ fresh \in BOOLEAN /\ hurt \subseteq Events
    /\ changes \in 0..MaxChanges /\ failures \in 0..MaxFailures

(* What entries and a ceiling promise an address on a device.                *)
For(entries, d, ip) == {e \in entries : e.ip = ip /\ e.dev = d}
PeerLimit(entries, d, ip) ==
    IF For(entries, d, ip) = {} THEN NoLimit ELSE CHOOSE e \in For(entries, d, ip) : TRUE
CeilingOf(c, d) == IF c # NoEntry /\ c.dev = d THEN c ELSE NoLimit

Shaped(entries, c) ==
    \A d \in Devices, ip \in IPs :
        LET peer == PeerLimit(entries, d, ip)
            top == CeilingOf(c, d)
        IN Cardinality(For(entries, d, ip)) <= 1 =>
           /\ Egress(kernel[d], ip) = IF peer.rx # 0 THEN peer.rx ELSE top.tx
           /\ Ingress(kernel[d], ip) = IF top.rx # 0 THEN top.rx ELSE peer.tx

(* The book tells what the kernel does: after every step of the enforcer     *)
(* each address that one peer has booked has that peer's limits and no other *)
(* address has any, whatever rows changed in between.  (Two peers that swap  *)
(* addresses book one of them both until the sync is through.)  Excused      *)
(* are a command that failed, a device that went away, a renamed device, a   *)
(* ceiling next to peers, class ids that wrapped and a restarted daemon.     *)
BookedIsShaped ==
    hurt \cap Excused = {} => Shaped({book[cn] : cn \in Booked}, ceiling)

(* "Sync makes host shaping match the desired client set for an instance"    *)
(* (enforcer.go:111): when a sync has run through and no row has changed     *)
(* since it began, the kernel shapes what the rows say and nothing else.     *)
ShapedAfterSync ==
    run.pc = "idle" /\ fresh /\ hurt \cap Excused = {} =>
        IF instance = NoInstance \/ ~instance.enabled THEN Shaped({}, NoEntry)
        ELSE Shaped(
            IF instance.role = "server"
            THEN {Wanted(peers[cn], instance.dev, FirstClass) : cn \in Desired(peers)} ELSE {},
            IF instance.limit = NoLimit THEN NoEntry
            ELSE [rx |-> instance.limit.rx, tx |-> instance.limit.tx, dev |-> instance.dev])
===============================================================================
