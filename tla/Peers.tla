-------------------------------- MODULE Peers ---------------------------------
(***************************************************************************)
(* Who may be connected to a server instance.                              *)
(*                                                                         *)
(* A peer (a client common name of a server instance) is a row; OpenVPN    *)
(* admits a connection when the peer's CCD file exists and does not say    *)
(* `disable` (the configuration has ccd-exclusive).  Only the reconciler   *)
(* writes CCD files, from a snapshot of the rows; it also suspends peers   *)
(* that are past their quota or expiry, and kills the sessions of          *)
(* suspended peers through management.  API handlers change rows, kill a   *)
(* session when they suspend, and then force a reconcile.                  *)
(*                                                                         *)
(* The instance is enabled and its OpenVPN process runs; Instances is      *)
(* about that.  One reconcile runs at a time (Reconciler.mu).              *)
(***************************************************************************)
EXTENDS Naturals, FiniteSets

CONSTANTS
    CNs,            \* common names
    Requests,       \* API handler goroutines
    Ops,            \* the operations clients call in this instance
    MaxCalls,       \* bound: API calls in a behaviour
    MaxFailures,    \* bound: failures of management, EnsureInstance and PKI
    NoPeer, NoCN, Nobody, Ticker

PeerCalls == {"create", "patch", "patchSuspended", "suspend", "resume", "delete"}

ASSUME PeersAssumption ==
    /\ Ops \subseteq PeerCalls
    /\ MaxCalls \in Nat /\ MaxFailures \in Nat
    /\ NoCN \notin CNs
    /\ Nobody \notin Requests /\ Ticker \notin Requests /\ Nobody # Ticker

(* A row of clients; limited: its expires_at or traffic_limit_bytes is one   *)
(* that the clock or the counters have passed once passed is TRUE.           *)
Peer == [id : 0..MaxCalls, suspended : BOOLEAN, limited : BOOLEAN]

ASSUME PeerSentinel == NoPeer \notin Peer

VARIABLES
    peer,       \* the clients table, by common name
    passed,     \* the clock or the traffic has passed the peer's limit
    ccd,        \* CCD files: "none", "allow" or "disable"
    connected,  \* common names with a live session
    run,        \* the reconcile in progress
    call,       \* the API calls in progress
    calls, failures

counters == <<calls, failures>>
vars == <<peer, passed, ccd, connected, run, call, counters>>

------------------------------------------------------------------------------
Idle == [pc |-> "idle", op |-> "patch", cn |-> NoCN, copy |-> NoPeer, was |-> FALSE]
NoRun ==
    [owner |-> Nobody, pc |-> "idle", snap |-> [c \in CNs |-> NoPeer], todo |-> {},
     barred |-> {}, live |-> {}, spared |-> {}]

Init ==
    /\ peer \in [CNs -> {NoPeer} \cup [id : {0}, suspended : BOOLEAN, limited : BOOLEAN]]
    /\ passed = [c \in CNs |-> FALSE]
    /\ ccd = [c \in CNs |-> "none"]
    /\ connected = {}
    /\ run = NoRun
    /\ call = [h \in Requests |-> Idle]
    /\ calls = 0 /\ failures = 0

(* Mutant of ShouldAutoSuspend: the limit is forgotten.                      *)
SuspendsNobody(p, c) == FALSE

(* policy.ShouldAutoSuspend                                                  *)
ShouldAutoSuspend(p, c) == ~p.suspended /\ p.limited /\ passed[c]

(* Mutant of SetClientSuspended: the row is found by its common name.        *)
SetByName(c, id, value) ==
    IF peer[c] # NoPeer THEN [peer EXCEPT ![c].suspended = value] ELSE peer

(* db.SetClientSuspended updates the row with that id, if there still is one.*)
SetClientSuspended(c, id, value) ==
    IF peer[c] # NoPeer /\ peer[c].id = id
    THEN [peer EXCEPT ![c].suspended = value]
    ELSE peer

(* Management cannot be dialled or does not answer.                          *)
ManagementFails == failures < MaxFailures /\ failures' = failures + 1
ManagementAnswers == UNCHANGED failures

------------------------------------------------------------------------------
(* The reconciler: applyInstance for this instance.                          *)

RunBegin(o) ==
    /\ run.owner = Nobody
    /\ o \in Requests => call[o].pc = "sync"
    /\ run' = [NoRun EXCEPT !.owner = o, !.pc = "policy", !.snap = peer,
                            !.todo = {c \in CNs : peer[c] # NoPeer}]
    /\ UNCHANGED <<peer, passed, ccd, connected, call, counters>>

(* Expiry and last-known counters, before the CCD files are rendered.        *)
ApplyPolicy(c) ==
    /\ run.pc = "policy" /\ c \in run.todo
    /\ IF ShouldAutoSuspend(run.snap[c], c)
       THEN /\ peer' = SetClientSuspended(c, run.snap[c].id, TRUE)
            /\ run' = [run EXCEPT !.todo = @ \ {c}, !.snap[c].suspended = TRUE]
       ELSE /\ run' = [run EXCEPT !.todo = @ \ {c}]
            /\ UNCHANGED peer
    /\ UNCHANGED <<passed, ccd, connected, call, counters>>

(* Mutant of RenderCCD: a suspended peer gets a file like any other.         *)
RenderWithoutDisable(p) == "allow"

RenderCCD(p) == IF p.suspended THEN "disable" ELSE "allow"

(* Mutant of CCDFiles: files of peers that are gone are left.                *)
KeepsStaleFiles ==
    [c \in CNs |-> IF run.snap[c] = NoPeer THEN ccd[c] ELSE RenderCCD(run.snap[c])]

CCDFiles ==
    [c \in CNs |-> IF run.snap[c] = NoPeer THEN "none" ELSE RenderCCD(run.snap[c])]

(* EnsureInstance writes the CCD files and removes stale ones.  When it      *)
(* fails, before or after that, applyInstance returns.                       *)
WriteCCD ==
    /\ run.pc = "policy" /\ run.todo = {}
    /\ ccd' = CCDFiles
    /\ run' = [run EXCEPT !.pc = "status",
          !.barred = {c \in CNs : run.snap[c] # NoPeer /\ run.snap[c].suspended}]
    /\ UNCHANGED <<peer, passed, connected, call, counters>>

EnsureFails ==
    /\ run.pc = "policy" /\ run.todo = {}
    /\ ManagementFails
    /\ ccd' \in {ccd, CCDFiles}
    /\ run' = [run EXCEPT !.pc = "failed"]
    /\ UNCHANGED <<peer, passed, connected, call, calls>>

(* One `status 2` for all peers; without it nothing is sampled.              *)
Status ==
    /\ run.pc = "status"
    /\ \/ /\ ManagementAnswers
          /\ run' = [run EXCEPT !.pc = "sample", !.live = connected,
                                !.todo = {c \in CNs : run.snap[c] # NoPeer}]
       \/ /\ ManagementFails
          /\ run' = [run EXCEPT !.pc = "failed"]
    /\ UNCHANGED <<peer, passed, ccd, connected, call, calls>>

(* The late policy check of one peer, on the snapshot with fresh counters.   *)
LateSuspended(c) == run.snap[c].suspended \/ ShouldAutoSuspend(run.snap[c], c)

(* Mutant of MustKill: only peers this very sample suspends are killed.      *)
KillsNewlySuspended(c) == c \in run.live /\ ~run.snap[c].suspended /\ LateSuspended(c)

MustKill(c) == c \in run.live /\ LateSuspended(c)

Sample(c) ==
    /\ run.pc = "sample" /\ c \in run.todo
    /\ peer' = IF ShouldAutoSuspend(run.snap[c], c)
               THEN SetClientSuspended(c, run.snap[c].id, TRUE) ELSE peer
    /\ \/ /\ ManagementAnswers
          /\ connected' = IF MustKill(c) THEN connected \ {c} ELSE connected
          /\ run' = [run EXCEPT !.todo = @ \ {c}]
       \/ /\ MustKill(c)
          /\ ManagementFails
          /\ run' = [run EXCEPT !.todo = @ \ {c}, !.spared = @ \cup {c}]
          /\ UNCHANGED connected
    /\ UNCHANGED <<passed, ccd, call, calls>>

RunEnd ==
    /\ run.pc = "failed" \/ (run.pc = "sample" /\ run.todo = {})
    /\ run' = NoRun
    /\ call' = IF run.owner \in Requests THEN [call EXCEPT ![run.owner] = Idle] ELSE call
    /\ UNCHANGED <<peer, passed, ccd, connected, counters>>

RunStep ==
    \/ \E c \in CNs : ApplyPolicy(c) \/ Sample(c)
    \/ WriteCCD \/ EnsureFails \/ Status \/ RunEnd

------------------------------------------------------------------------------
(* The API handlers, one store or management operation at a time.            *)

Accept(h, op) ==
    /\ call[h].pc = "idle" /\ op \in Ops /\ calls < MaxCalls
    /\ calls' = calls + 1

At(h, pc) == call[h].pc = pc
Advance(h, pc) == call' = [call EXCEPT ![h].pc = pc]
Finish(h) == call' = [call EXCEPT ![h] = Idle]

(* setClientSuspended: look the row up, set the flag by id, kill, reconcile. *)
SuspendRead(h, c, op) ==
    /\ Accept(h, op)
    /\ peer[c] # NoPeer
    /\ call' = [call EXCEPT ![h] =
          [pc |-> "set", op |-> op, cn |-> c, copy |-> peer[c], was |-> peer[c].suspended]]
    /\ UNCHANGED <<peer, passed, ccd, connected, run, failures>>

SuspendSet(h) ==
    /\ At(h, "set")
    /\ peer' = SetClientSuspended(call[h].cn, call[h].copy.id, call[h].op = "suspend")
    /\ Advance(h, IF call[h].op = "suspend" THEN "kill" ELSE "sync")
    /\ UNCHANGED <<passed, ccd, connected, run, counters>>

Kill(h) ==
    /\ At(h, "kill")
    /\ \/ ManagementAnswers /\ connected' = connected \ {call[h].cn}
       \/ ManagementFails /\ UNCHANGED connected
    /\ Advance(h, "sync")
    /\ UNCHANGED <<peer, passed, ccd, run, calls>>

(* handleUpdateClient reads the row, patches the copy and writes all of it   *)
(* back to the row that then has the common name.                            *)
PatchRead(h, c, op, new) ==
    /\ Accept(h, op)
    /\ peer[c] # NoPeer
    /\ call' = [call EXCEPT ![h] =
          [pc |-> "write", op |-> op, cn |-> c, was |-> peer[c].suspended,
           copy |-> IF op = "patch" THEN [peer[c] EXCEPT !.limited = new]
                    ELSE [peer[c] EXCEPT !.suspended = new]]]
    /\ UNCHANGED <<peer, passed, ccd, connected, run, failures>>

UpdateClient(c, copy) ==
    [peer EXCEPT ![c].suspended = copy.suspended, ![c].limited = copy.limited]

PatchWrite(h) ==
    LET c == call[h].cn IN
    /\ At(h, "write")
    /\ \/ /\ peer[c] = NoPeer
          /\ Finish(h)
          /\ UNCHANGED peer
       \/ /\ peer[c] # NoPeer
          /\ peer' = UpdateClient(c, call[h].copy)
          /\ Advance(h, IF ~call[h].was /\ call[h].copy.suspended THEN "kill" ELSE "sync")
    /\ UNCHANGED <<passed, ccd, connected, run, counters>>

(* handleDeleteClient: the row goes, then a reconcile.                       *)
Delete(h, c) ==
    /\ Accept(h, "delete")
    /\ peer[c] # NoPeer
    /\ peer' = [peer EXCEPT ![c] = NoPeer]
    /\ call' = [call EXCEPT ![h] = [Idle EXCEPT !.pc = "sync", !.op = "delete", !.cn = c]]
    /\ UNCHANGED <<passed, ccd, connected, run, failures>>

(* handleCreateClient inserts the row; with a certificate to issue, the row  *)
(* is written again with its paths, or deleted when issuing fails.           *)
Create(h, c, suspended, limited) ==
    LET new == [id |-> calls + 1, suspended |-> suspended, limited |-> limited] IN
    /\ Accept(h, "create")
    /\ peer[c] = NoPeer
    /\ peer' = [peer EXCEPT ![c] = new]
    /\ \E pc \in {"issue", "sync"} :
          call' = [call EXCEPT ![h] =
             [pc |-> pc, op |-> "create", cn |-> c, copy |-> new, was |-> FALSE]]
    /\ UNCHANGED <<passed, ccd, connected, run, failures>>

Issue(h) ==
    LET c == call[h].cn IN
    /\ At(h, "issue")
    /\ \/ /\ peer' = IF peer[c] # NoPeer THEN UpdateClient(c, call[h].copy) ELSE peer
          /\ Advance(h, "sync")
          /\ UNCHANGED failures
       \/ /\ failures < MaxFailures
          /\ failures' = failures + 1
          /\ peer' = [peer EXCEPT ![c] = NoPeer]
          /\ Finish(h)
    /\ UNCHANGED <<passed, ccd, connected, run, calls>>

(* The client goes away; what is left of the call fails.                     *)
Cancel(h) ==
    /\ call[h].pc # "idle" /\ run.owner # h
    /\ Finish(h)
    /\ UNCHANGED <<peer, passed, ccd, connected, run, counters>>

HandlerStep(h) == SuspendSet(h) \/ Kill(h) \/ PatchWrite(h) \/ Issue(h) \/ RunBegin(h)

Serve(h) ==
    \/ \E c \in CNs : \/ \E op \in {"suspend", "resume"} : SuspendRead(h, c, op)
                      \/ \E op \in {"patch", "patchSuspended"}, new \in BOOLEAN :
                            PatchRead(h, c, op, new)
                      \/ \E suspended, limited \in BOOLEAN : Create(h, c, suspended, limited)
                      \/ Delete(h, c)
    \/ Cancel(h)

------------------------------------------------------------------------------
(* OpenVPN and its users (external).                                         *)

(* With ccd-exclusive a client needs a CCD file; `disable` refuses it.       *)
Connect(c) ==
    /\ c \notin connected /\ ccd[c] = "allow"
    /\ connected' = connected \cup {c}
    /\ UNCHANGED <<peer, passed, ccd, run, call, counters>>

Disconnect(c) ==
    /\ c \in connected
    /\ connected' = connected \ {c}
    /\ UNCHANGED <<peer, passed, ccd, run, call, counters>>

Pass(c) ==
    /\ ~passed[c]
    /\ passed' = [passed EXCEPT ![c] = TRUE]
    /\ UNCHANGED <<peer, ccd, connected, run, call, counters>>

Next ==
    \/ RunBegin(Ticker)
    \/ RunStep
    \/ \E h \in Requests : HandlerStep(h) \/ Serve(h)
    \/ \E c \in CNs : Connect(c) \/ Disconnect(c) \/ Pass(c)

Spec == Init /\ [][Next]_vars

(* The ticker fires for ever, the goroutine that reconciles and the handlers *)
(* run on.  Users need not connect, leave or reach a limit.                  *)
FairSpec ==
    /\ Spec
    /\ WF_vars(RunBegin(Ticker))
    /\ WF_vars(RunStep)
    /\ \A h \in Requests : WF_vars(HandlerStep(h))

------------------------------------------------------------------------------
TypeOK ==
    /\ peer \in [CNs -> {NoPeer} \cup Peer]
    /\ passed \in [CNs -> BOOLEAN]
    /\ ccd \in [CNs -> {"none", "allow", "disable"}]
    /\ connected \subseteq CNs
    /\ run \in [owner : Requests \cup {Ticker, Nobody},
                pc : {"idle", "policy", "status", "sample", "failed"},
                snap : [CNs -> {NoPeer} \cup Peer], todo : SUBSET CNs,
                barred : SUBSET CNs, live : SUBSET CNs, spared : SUBSET CNs]
    /\ call \in [Requests ->
          [pc : {"idle", "set", "kill", "write", "issue", "sync"}, op : PeerCalls,
           cn : CNs \cup {NoCN}, copy : {NoPeer} \cup Peer, was : BOOLEAN]]
    /\ calls \in 0..MaxCalls /\ failures \in 0..MaxFailures

(* "CCD file gets disable on next reconcile; live session killed via         *)
(* management if connected" (docs/CONFIGURATION.md:128): once a reconcile    *)
(* has gone past a peer it knew to be suspended when it wrote the CCD files, *)
(* that peer has no session, even if it reconnected after an earlier kill.   *)
BarredIsOut ==
    \A c \in run.barred :
        (run.pc = "sample" /\ c \notin run.todo /\ c \notin run.spared)
            => c \notin connected

(* A reconcile suspends only the row it has judged, never one that was       *)
(* deleted and created again under the same common name meanwhile.           *)
SuspendsJudgedRow ==
    [][\A c \in CNs :
          (peer[c] # NoPeer /\ peer'[c] # NoPeer /\ run # run'
             /\ peer'[c].suspended # peer[c].suspended)
          => peer[c].id = run.snap[c].id]_vars

(* A peer that stays suspended ends up disconnected for good.                *)
SuspendedStaysOut ==
    \A c \in CNs :
        <>[](peer[c] # NoPeer /\ peer[c].suspended) => <>[](c \notin connected)

(* A peer past its quota or expiry ends up suspended, unless the limit is    *)
(* lifted.                                                                   *)
LimitsAreEnforced ==
    \A c \in CNs :
        <>[](peer[c] # NoPeer /\ peer[c].limited /\ passed[c])
            => <>[](peer[c] # NoPeer /\ peer[c].suspended)

(* The CCD files end up as the rows say: nobody who is gone or suspended can *)
(* connect, everybody else can.                                              *)
CCDConverges ==
    <>[](\A c \in CNs : ccd[c] = IF peer[c] = NoPeer THEN "none" ELSE RenderCCD(peer[c]))

(* "Resume: POST .../resume clears the flag" (docs/CONFIGURATION.md:132): no *)
(* PATCH that does not name it does.                                         *)
PatchKeepsSuspended ==
    [][\A h \in Requests :
          (call[h].op = "patch" /\ call[h].pc = "write" /\ call'[h].pc \in {"kill", "sync"}
             /\ peer[call[h].cn].suspended)
          => peer'[call[h].cn].suspended]_vars

(* "ccd-exclusive" (confgen/render.go:382) is there so that only known peers *)
(* are served: a peer whose row stays deleted ends up disconnected.          *)
DeletedStaysOut ==
    \A c \in CNs : <>[](peer[c] = NoPeer) => <>[](c \notin connected)
===============================================================================
