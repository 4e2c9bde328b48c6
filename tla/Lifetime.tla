------------------------------- MODULE Lifetime -------------------------------
(***************************************************************************)
(* Durable traffic counters built from volatile ones.                      *)
(*                                                                         *)
(* OpenVPN reports the bytes of each connected session; the counter starts *)
(* again from zero whenever the client reconnects or the server process    *)
(* restarts.  Once per tick the reconciler turns the raw counter of a      *)
(* series (one per client, one per instance) into a lifetime total that is *)
(* stored in SQLite, using the previous raw value it keeps in memory       *)
(* (internal/stats/accumulate.go, the sampling half of applyInstance in    *)
(* internal/reconcile/reconciler.go).  Quotas are charged on that total.   *)
(*                                                                         *)
(* One direction (rx) is modelled; tx is the same code on another column.  *)
(***************************************************************************)
EXTENDS Naturals, FiniteSetsExt

CONSTANTS
    Clients,       \* common names of the clients of one server instance
    Sessions,      \* session slots of one common name (duplicate-cn allows > 1),
                   \* numbered in the order `status 2` lists them
    HasDevice,     \* TRUE: instances.device is set, so /sys counters can be read
    MaxTraffic,    \* bound: bytes all clients move in a behaviour
    MaxRestarts,   \* bound: restarts of the daemon
    MaxLifetime,   \* bound: sampling stops when a total could pass this
    NotConnected,  \* a free session slot
    NoSample       \* no entry for the series in Reconciler.prevSample

ASSUME ConstantsAssumption ==
    /\ HasDevice \in BOOLEAN
    /\ MaxTraffic \in Nat
    /\ MaxRestarts \in Nat
    /\ MaxLifetime \in Nat
    /\ IsFiniteSet(Clients) /\ IsFiniteSet(Sessions)
    /\ Sessions \subseteq Nat
    /\ NotConnected \notin Nat
    /\ NoSample \notin Nat

VARIABLES
    session,    \* bytes received in each live session, as `status 2` lists them
    iface,      \* rx_bytes of the tun device, since the openvpn process started
    last,       \* clients.last_rx_bytes: the durable lifetime of each client
    offset,     \* clients.rx_bytes_offset: what a traffic reset subtracts
    prev,       \* Reconciler.prevSample[instance/cn] (in memory)
    instLast,   \* instances.last_rx_bytes
    instPrev,   \* Reconciler.prevSample[instance] (in memory)
    traffic,    \* history: the bytes each client has really moved
    shared,     \* history: the clients that have had two sessions at once
    restarts    \* how often the daemon has restarted

durable == <<last, offset, instLast>>
memory == <<prev, instPrev>>
lifetimeVars == <<session, iface, durable, memory, traffic, shared, restarts>>

------------------------------------------------------------------------------
(* The counter arithmetic, as the code has it.                               *)

(* Mutants of AccumulateLifetime: the first sample after a start is added    *)
(* instead of compared; a counter reset forgets the total.                   *)
AccumulateAlwaysAdds(lifetime, raw, prevRaw) ==
    IF prevRaw # NoSample
    THEN IF raw >= prevRaw THEN lifetime + (raw - prevRaw) ELSE lifetime + raw
    ELSE lifetime + raw

AccumulateForgets(lifetime, raw, prevRaw) ==
    IF prevRaw # NoSample
    THEN IF raw >= prevRaw THEN lifetime + (raw - prevRaw) ELSE raw
    ELSE IF raw >= lifetime THEN raw ELSE lifetime

(* AccumulateLifetime of internal/stats; prevRaw = NoSample is hasPrev=false *)
AccumulateLifetime(lifetime, raw, prevRaw) ==
    IF prevRaw # NoSample
    THEN IF raw >= prevRaw THEN lifetime + (raw - prevRaw) ELSE lifetime + raw
    ELSE IF raw >= lifetime THEN raw ELSE lifetime

Connected(c) == {s \in Sessions : session[c][s] # NotConnected}
Live == {cs \in Clients \X Sessions : session[cs[1]][cs[2]] # NotConnected}
SumBytes == MapThenSumSet(LAMBDA cs : session[cs[1]][cs[2]], Live)
Total == MapThenSumSet(LAMBDA c : traffic[c], Clients)

(* The instance's raw counter: the CLIENT_LIST sum, or the device's counter  *)
(* when the sum is zero and a device is configured.                          *)
InstanceRaw == IF SumBytes = 0 /\ HasDevice THEN iface ELSE SumBytes

------------------------------------------------------------------------------
ClientTypeOK ==
    /\ session \in [Clients -> [Sessions -> Nat \cup {NotConnected}]]
    /\ iface \in Nat
    /\ last \in [Clients -> Nat]
    /\ offset \in [Clients -> Nat]
    /\ prev \in [Clients -> Nat \cup {NoSample}]
    /\ traffic \in [Clients -> Nat]
    /\ shared \subseteq Clients
    /\ restarts \in 0..MaxRestarts

LifetimeTypeOK ==
    /\ ClientTypeOK
    /\ instLast \in Nat
    /\ instPrev \in Nat \cup {NoSample}

LifetimeInit ==
    /\ session = [c \in Clients |-> [s \in Sessions |-> NotConnected]]
    /\ iface = 0
    /\ last = [c \in Clients |-> 0]
    /\ offset = [c \in Clients |-> 0]
    /\ prev = [c \in Clients |-> NoSample]
    /\ instLast = 0
    /\ instPrev = NoSample
    /\ traffic = [c \in Clients |-> 0]
    /\ shared = {}
    /\ restarts = 0

------------------------------------------------------------------------------
(* The openvpn server process (external).                                    *)

Connect(c, s) ==
    /\ session[c][s] = NotConnected
    /\ session' = [session EXCEPT ![c][s] = 0]
    /\ shared' = shared \cup (IF Connected(c) = {} THEN {} ELSE {c})
    /\ UNCHANGED <<iface, durable, memory, traffic, restarts>>

Disconnect(c, s) ==
    /\ session[c][s] # NotConnected
    /\ session' = [session EXCEPT ![c][s] = NotConnected]
    /\ UNCHANGED <<iface, durable, memory, traffic, shared, restarts>>

(* One byte of data-plane traffic in session s of client c.                  *)
Transfer(c, s) ==
    /\ session[c][s] # NotConnected
    /\ Total < MaxTraffic
    /\ session' = [session EXCEPT ![c][s] = @ + 1]
    /\ iface' = iface + 1
    /\ traffic' = [traffic EXCEPT ![c] = @ + 1]
    /\ UNCHANGED <<durable, memory, shared, restarts>>

(* The openvpn process restarts: every session and the tun device are new.   *)
ServerRestart ==
    /\ session' = [c \in Clients |-> [s \in Sessions |-> NotConnected]]
    /\ iface' = 0
    /\ UNCHANGED <<durable, memory, traffic, shared, restarts>>

------------------------------------------------------------------------------
(* The daemon.                                                               *)

(* applyInstance, management answered: one `status 2` snapshot updates the   *)
(* instance series and the series of every connected client.  byCN is a map, *)
(* so of several sessions of one CN the last one listed is the one sampled.  *)
SampledBytes(c) == session[c][Max(Connected(c))]

SampleStatus ==
    /\ instLast + InstanceRaw <= MaxLifetime
    /\ \A c \in Clients : Connected(c) # {} => last[c] + SampledBytes(c) <= MaxLifetime
    /\ last' = [c \in Clients |->
          IF Connected(c) # {}
          THEN AccumulateLifetime(last[c], SampledBytes(c), prev[c])
          ELSE last[c]]
    /\ prev' = [c \in Clients |->
          IF Connected(c) # {} THEN SampledBytes(c) ELSE prev[c]]
    /\ instLast' = AccumulateLifetime(instLast, InstanceRaw, instPrev)
    /\ instPrev' = InstanceRaw
    /\ UNCHANGED <<session, iface, offset, traffic, shared, restarts>>

(* applyInstance, management not dialable but the process alive: only the    *)
(* instance series advances, from the device counter or from zero.           *)
SampleWithoutManagement ==
    LET raw == IF HasDevice THEN iface ELSE 0 IN
    /\ instLast + raw <= MaxLifetime
    /\ instLast' = AccumulateLifetime(instLast, raw, instPrev)
    /\ instPrev' = raw
    /\ UNCHANGED <<session, iface, last, offset, prev, traffic, shared, restarts>>

(* POST .../reset-traffic: a soft reset by offset.                           *)
ResetClientTraffic(c) ==
    /\ offset' = [offset EXCEPT ![c] = last[c]]
    /\ UNCHANGED <<session, iface, last, instLast, memory, traffic, shared, restarts>>

(* The daemon restarts: prevSample is lost, SQLite and openvpn are not.      *)
DaemonRestart ==
    /\ restarts < MaxRestarts
    /\ restarts' = restarts + 1
    /\ prev' = [c \in Clients |-> NoSample]
    /\ instPrev' = NoSample
    /\ UNCHANGED <<session, iface, durable, traffic, shared>>

LifetimeNext ==
    \/ \E c \in Clients, s \in Sessions :
          \/ Connect(c, s)
          \/ Disconnect(c, s)
          \/ Transfer(c, s)
    \/ ServerRestart
    \/ SampleStatus
    \/ SampleWithoutManagement
    \/ \E c \in Clients : ResetClientTraffic(c)
    \/ DaemonRestart

LifetimeSpec == LifetimeInit /\ [][LifetimeNext]_lifetimeVars

------------------------------------------------------------------------------
(* A client that never had two sessions at once is not charged for more      *)
(* bytes than it moved, whatever resets its session counter and whenever the *)
(* daemon restarts: a quota cannot suspend it while it is under it.  The     *)
(* other clients are excused: every rendered server has duplicate-cn, and of *)
(* their sessions only the one listed last is sampled (see ChargedOnce).     *)
NeverOvercharged == \A c \in Clients \ shared : last[c] <= traffic[c]

(* "lifetime must not drop when that happens" (accumulate.go:7): no step     *)
(* lowers the durable total of a client, whichever counter was just reset.   *)
LifetimeNeverDrops == [][\A c \in Clients : last'[c] >= last[c]]_lifetimeVars

(* The same for the instance, whose raw series mixes the CLIENT_LIST sum,    *)
(* the device counter and zero.                                              *)
InstanceLifetimeNeverDrops == [][instLast' >= instLast]_lifetimeVars

(* The comment of accumulate.go:16, "Mid-process counter reset: all of raw   *)
(* is new traffic in this session", for the client series: a counter that    *)
(* went down brings only new bytes, so no client is charged twice.           *)
ChargedOnce == \A c \in Clients : last[c] <= traffic[c]

(* The same comment read for the instance series: the instance total stays   *)
(* within what its clients moved.                                            *)
InstanceNeverOvercharged == instLast <= Total
===============================================================================
