------------------------------ MODULE Instances -------------------------------
(***************************************************************************)
(* Supervision of the OpenVPN processes.                                   *)
(*                                                                         *)
(* The desired state is one SQLite row per instance.  API handlers change  *)
(* rows and then force a reconcile; a ticker does the same periodically.   *)
(* A reconcile (internal/reconcile) works, under its own mutex, through a  *)
(* snapshot of the rows and calls HostBackend (internal/ovpnbackend) for   *)
(* each; the backend's methods run under the backend's mutex, so each call *)
(* is one step here, and steps of handlers, processes and reapers fall     *)
(* between them.  A crash of the daemon forgets everything but the rows    *)
(* and the processes.                                                      *)
(*                                                                         *)
(* A conf stands for what EnsureInstance compares: the hash of the         *)
(* rendered configuration together with the binary path.                   *)
(***************************************************************************)
EXTENDS Naturals, FiniteSets

CONSTANTS
    Names,          \* instance names
    Confs,          \* rendered configurations (with their binary)
    Procs,          \* process ids
    Requests,       \* API handler goroutines
    Ops,            \* the operations clients call in this instance
    MaxCalls,       \* bound: API calls in a behaviour
    MaxFailures,    \* bound: failures of processes, starts and renderings
    MaxCrashes,     \* bound: crashes of the daemon
    NoRow, NoConf, NoPid, NoName, Free, Unmanaged, Nobody, Ticker

Calls == {"create", "update", "enable", "up", "down", "restart", "delete", "reconcile"}

ASSUME ConstantsAssumption ==
    /\ Ops \subseteq Calls
    /\ MaxCalls \in Nat /\ MaxFailures \in Nat /\ MaxCrashes \in Nat
    /\ NoConf \notin Confs /\ NoPid \notin Procs /\ NoName \notin Names
    /\ Nobody \notin Requests /\ Ticker \notin Requests /\ Nobody # Ticker

Row == [enabled : BOOLEAN, conf : Confs]
Process == [name : Names, conf : Confs, ready : BOOLEAN]
Run ==
    [owner : Requests \cup {Ticker, Nobody}, phase : {"idle", "apply", "stop", "forget"},
     snap : [Names -> {NoRow} \cup Row], todo : SUBSET Names,
     at : Names \cup {NoName}, skipped : SUBSET Names]
Call ==
    [pc : {"idle", "sync", "issue", "write", "stop", "rewrite", "enable", "forget", "drop"},
     op : Calls, name : Names \cup {NoName}, copy : {NoRow} \cup Row]
Entry == [conf : Confs \cup {NoConf}, pid : Procs \cup {NoPid}, cmd : Procs \cup {NoPid}]

(* The values that stand for "none" are none of the values they stand for.   *)
ASSUME SentinelAssumption ==
    NoRow \notin Row /\ Free \notin Process /\ Unmanaged \notin Entry

VARIABLES
    row,        \* the instances table
    proc,       \* openvpn processes; ready: management answers a dial
    managed,    \* HostBackend.managed: conf is st.desired, pid and cmd as there
    child,      \* for each pid, the instance whose reaper goroutine waits for it
    rec,        \* the reconcile in progress, if any (Reconciler.mu)
    call,       \* the API calls in progress
    known,      \* Reconciler.prevUp, and Up in stats.Cache
    broken,     \* instances whose openvpn cannot start at present
    calls, failures, crashes

dbVars == row
backendVars == <<managed, child>>
counters == <<calls, failures, crashes>>
vars == <<row, proc, managed, child, rec, call, known, broken, counters>>

------------------------------------------------------------------------------
Alive(p) == p \in Procs /\ proc[p] # Free

(* Mutant of FindPIDByConf: the /proc walk finds nothing.                    *)
FindsNothing(n) == {}

(* findPIDByConf: a process whose command line names the conf of n.  It      *)
(* returns the first; they are at most one (AtMostOneProcess).               *)
FindPIDByConf(n) == {p \in Procs : proc[p] # Free /\ proc[p].name = n}

EntryOf(n) ==
    IF managed[n] = Unmanaged
    THEN [conf |-> NoConf, pid |-> NoPid, cmd |-> NoPid]
    ELSE managed[n]

Killing(victims) == [p \in Procs |-> IF p \in victims THEN Free ELSE proc[p]]

(* stopLocked: the tracked pid and, once st.desired is set, what runs its    *)
(* conf.                                                                     *)
StopVictims(n) ==
    LET st == EntryOf(n) IN
    {st.pid} \cup (IF st.conf = NoConf THEN {} ELSE FindPIDByConf(n))

(* StopInstance.  Without a handle only the pid file is left: SIGTERM, which *)
(* a process that has not written its pid file yet does not get.             *)
StopInstance(n) ==
    IF managed[n] = Unmanaged
    THEN /\ proc' = Killing({p \in FindPIDByConf(n) : proc[p].ready})
         /\ UNCHANGED managed
    ELSE /\ proc' = Killing(StopVictims(n))
         /\ managed' = [managed EXCEPT ![n].pid = NoPid, ![n].cmd = NoPid]

Forget(n) == managed' = [managed EXCEPT ![n] = Unmanaged]

Idle == [pc |-> "idle", op |-> "reconcile", name |-> NoName, copy |-> NoRow]
NoRun ==
    [owner |-> Nobody, phase |-> "idle", snap |-> [n \in Names |-> NoRow],
     todo |-> {}, at |-> NoName, skipped |-> {}]

------------------------------------------------------------------------------
Init ==
    /\ row \in [Names -> {NoRow} \cup Row]
    /\ proc = [p \in Procs |-> Free]
    /\ managed = [n \in Names |-> Unmanaged]
    /\ child = [p \in Procs |-> NoName]
    /\ rec = NoRun
    /\ call = [h \in Requests |-> Idle]
    /\ known = [n \in Names |-> "unseen"]
    /\ broken = {}
    /\ calls = 0 /\ failures = 0 /\ crashes = 0

------------------------------------------------------------------------------
(* The reconciler.                                                           *)

(* RunOnce takes the mutex, run lists the rows.  A request runs it itself.   *)
RecBegin(o) ==
    /\ rec.owner = Nobody
    /\ o \in Requests => call[o].pc = "sync"
    /\ rec' = [owner |-> o, phase |-> "apply", snap |-> row,
               todo |-> {n \in Names : row[n] # NoRow}, at |-> NoName, skipped |-> {}]
    /\ UNCHANGED <<row, proc, backendVars, call, known, broken, counters>>

Applying(n) == rec.phase = "apply" /\ rec.at = NoName /\ n \in rec.todo

(* After EnsureInstance: on success the instance is observed next; on an     *)
(* error applyInstance returns and the run goes on with the next one.        *)
Ensured(n, ok) ==
    rec' = [rec EXCEPT !.todo = @ \ {n}, !.at = IF ok THEN n ELSE NoName]

(* applyInstance fails before it calls EnsureInstance (binary or rendering). *)
SkipInstance(n) ==
    /\ Applying(n)
    /\ failures < MaxFailures
    /\ failures' = failures + 1
    /\ rec' = [rec EXCEPT !.todo = @ \ {n}, !.skipped = @ \cup {n}]
    /\ UNCHANGED <<row, proc, backendVars, call, known, broken, calls, crashes>>

(* Mutant of DisabledVictims: only what the handle tracks is stopped.        *)
OnlyTracked(n) == StopVictims(n)

DisabledVictims(n) == StopVictims(n) \cup FindPIDByConf(n)

EnsureDisabled(n) ==
    /\ Applying(n)
    /\ ~rec.snap[n].enabled
    /\ proc' = Killing(DisabledVictims(n))
    /\ managed' = [managed EXCEPT ![n] =
          [conf |-> rec.snap[n].conf, pid |-> NoPid, cmd |-> NoPid]]
    /\ Ensured(n, TRUE)
    /\ UNCHANGED <<row, child, call, known, broken, counters>>

(* The handle after the refresh: a dead pid is dropped, and a process that   *)
(* already runs the conf is adopted.                                         *)
Refreshed(n) ==
    LET st == EntryOf(n) IN
    IF Alive(st.pid) THEN st
    ELSE [conf |-> st.conf, cmd |-> NoPid,
          pid |-> IF FindPIDByConf(n) = {} THEN NoPid
                  ELSE CHOOSE p \in FindPIDByConf(n) : TRUE]

(* Mutants of NeedRestart: a conf that changed is not noticed; a handle that *)
(* has no conf yet counts as changed.                                        *)
NeverRestart(n) == FALSE
RestartAdopted(n) == Refreshed(n).conf # rec.snap[n].conf

NeedRestart(n) ==
    LET st == Refreshed(n) IN st.conf # NoConf /\ st.conf # rec.snap[n].conf

Keepable(n) ==
    LET st == Refreshed(n) IN
    st.pid # NoPid /\ ~NeedRestart(n) /\ proc[st.pid].ready

EnsureKeep(n) ==
    /\ Applying(n)
    /\ rec.snap[n].enabled
    /\ Keepable(n)
    /\ managed' = [managed EXCEPT ![n] = [Refreshed(n) EXCEPT !.conf = rec.snap[n].conf]]
    /\ Ensured(n, TRUE)
    /\ UNCHANGED <<row, proc, child, call, known, broken, counters>>

(* What dies before a new process is started: the tracked process, which is  *)
(* stopped when its conf changed or management does not answer, and every    *)
(* process killOrphansForConf finds.                                         *)
Replaced(n) == {Refreshed(n).pid} \cup FindPIDByConf(n)

(* A pid no process, handle or reaper still refers to.                       *)
Fresh(q) ==
    /\ proc[q] = Free
    /\ child[q] = NoName
    /\ \A n \in Names : managed[n] # Unmanaged => managed[n].pid # q

Starting(n) == Applying(n) /\ rec.snap[n].enabled /\ ~Keepable(n)

(* The new process q comes up within the five seconds EnsureInstance waits   *)
(* (ready), is alive without management at the end of them, or is dead.      *)
Spawn(n, q, outcome) ==
    /\ proc' = [Killing(Replaced(n)) EXCEPT ![q] =
          IF outcome = "exited" THEN Free
          ELSE [name |-> n, conf |-> rec.snap[n].conf, ready |-> outcome = "ready"]]
    /\ managed' = [managed EXCEPT ![n] =
          [conf |-> rec.snap[n].conf, pid |-> q, cmd |-> q]]
    /\ child' = [child EXCEPT ![q] = n]
    /\ Ensured(n, outcome = "ready")

EnsureStart(n, q) ==
    /\ Starting(n)
    /\ n \notin broken
    /\ Fresh(q)
    /\ Spawn(n, q, "ready")
    /\ UNCHANGED <<row, call, known, broken, counters>>

EnsureStartSlow(n, q) ==
    /\ Starting(n)
    /\ n \notin broken
    /\ Fresh(q)
    /\ failures < MaxFailures
    /\ failures' = failures + 1
    /\ Spawn(n, q, "slow")
    /\ UNCHANGED <<row, call, known, broken, calls, crashes>>

EnsureStartExits(n, q) ==
    /\ Starting(n)
    /\ n \in broken
    /\ Fresh(q)
    /\ Spawn(n, q, "exited")
    /\ UNCHANGED <<row, call, known, broken, counters>>

(* pre_up, the log file or the exec fails: the old process is gone, no new   *)
(* one was started.                                                          *)
EnsureStartFails(n) ==
    /\ Starting(n)
    /\ n \in broken
    /\ proc' = Killing(Replaced(n))
    /\ managed' = [managed EXCEPT ![n] =
          [conf |-> rec.snap[n].conf, pid |-> NoPid, cmd |-> NoPid]]
    /\ Ensured(n, FALSE)
    /\ UNCHANGED <<row, child, call, known, broken, counters>>

(* Mutant of Observed: the kind of the event is remembered, not the state.   *)
EventKind(n) ==
    IF Alive(EntryOf(n).pid) /\ rec.snap[n].enabled THEN "instance.up" ELSE "instance.down"

Observed(n) == IF Alive(EntryOf(n).pid) /\ rec.snap[n].enabled THEN "up" ELSE "down"

(* The end of applyInstance: ListLive, the cache and the edge-triggered      *)
(* instance.up / instance.down event (an edge is a change of known).         *)
Observe(n) ==
    /\ rec.phase = "apply" /\ rec.at = n
    /\ known' = [known EXCEPT ![n] = Observed(n)]
    /\ rec' = [rec EXCEPT !.at = NoName]
    /\ UNCHANGED <<row, proc, backendVars, call, broken, counters>>

(* The handles that no row of the snapshot has are removed, one after the    *)
(* other; RemoveInstance stops, unlocks, locks again and deletes the handle. *)
ListLive ==
    /\ rec.phase = "apply" /\ rec.todo = {} /\ rec.at = NoName
    /\ rec' = [rec EXCEPT !.phase = "stop",
          !.todo = {n \in Names : managed[n] # Unmanaged /\ rec.snap[n] = NoRow}]
    /\ UNCHANGED <<row, proc, backendVars, call, known, broken, counters>>

SweepStop(n) ==
    /\ rec.phase = "stop" /\ n \in rec.todo
    /\ StopInstance(n)
    /\ rec' = [rec EXCEPT !.phase = "forget", !.at = n]
    /\ UNCHANGED <<row, child, call, known, broken, counters>>

SweepForget(n) ==
    /\ rec.phase = "forget" /\ rec.at = n
    /\ Forget(n)
    /\ rec' = [rec EXCEPT !.phase = "stop", !.todo = @ \ {n}, !.at = NoName]
    /\ UNCHANGED <<row, proc, child, call, known, broken, counters>>

RecEnd ==
    /\ rec.phase = "stop" /\ rec.todo = {}
    /\ rec' = NoRun
    /\ call' = IF rec.owner \in Requests THEN [call EXCEPT ![rec.owner] = Idle] ELSE call
    /\ UNCHANGED <<row, proc, backendVars, known, broken, counters>>

ReconcilerStep ==
    \/ \E n \in Names :
          \/ EnsureDisabled(n) \/ EnsureKeep(n) \/ EnsureStartFails(n)
          \/ Observe(n) \/ SweepStop(n) \/ SweepForget(n)
          \/ \E q \in Procs : EnsureStart(n, q) \/ EnsureStartExits(n, q)
    \/ ListLive
    \/ RecEnd

------------------------------------------------------------------------------
(* The API handlers.  Each call runs its store and backend operations one by *)
(* one; "sync" is the wait for Reconciler.mu in ForceReconcile.              *)

Accept(h, op) ==
    /\ call[h].pc = "idle" /\ op \in Ops /\ calls < MaxCalls
    /\ calls' = calls + 1

Goto(h, op, pc, n, copy) ==
    call' = [call EXCEPT ![h] = [pc |-> pc, op |-> op, name |-> n, copy |-> copy]]

At(h, pc) == call[h].pc = pc
Advance(h, pc) == call' = [call EXCEPT ![h].pc = pc]
Finish(h) == call' = [call EXCEPT ![h] = Idle]

(* createInstanceFromRequest inserts the row; a server row gets certificates *)
(* before the reconcile, any other goes straight to it.                      *)
Create(h, n, new) ==
    /\ Accept(h, "create")
    /\ row[n] = NoRow
    /\ row' = [row EXCEPT ![n] = new]
    /\ \E pc \in {"issue", "sync"} : Goto(h, "create", pc, n, NoRow)
    /\ UNCHANGED <<proc, backendVars, rec, known, broken, failures, crashes>>

(* The certificate is issued and the row read again with its paths set; when *)
(* issuing fails the call fails and leaves the row as it is.                 *)
CreateIssue(h, conf) ==
    LET n == call[h].name IN
    /\ At(h, "issue")
    /\ \/ row[n] # NoRow /\ Goto(h, "create", "write", n, [row[n] EXCEPT !.conf = conf])
       \/ row[n] = NoRow /\ Advance(h, "sync")
       \/ Finish(h)
    /\ UNCHANGED <<row, proc, backendVars, rec, known, broken, counters>>

(* handleUpdateInstance reads the whole row and patches the copy, here with  *)
(* a setting that changes the configuration or with the enabled flag.        *)
UpdateRead(h, n, op, new) ==
    /\ Accept(h, op)
    /\ row[n] # NoRow
    /\ Goto(h, op, "write", n, IF op = "enable" THEN [row[n] EXCEPT !.enabled = new.enabled]
                               ELSE [row[n] EXCEPT !.conf = new.conf])
    /\ UNCHANGED <<row, proc, backendVars, rec, known, broken, failures, crashes>>

(* db.UpdateInstance writes every mutable column from the copy.              *)
Rewrite(n, copy) == row' = IF row[n] = NoRow THEN row ELSE [row EXCEPT ![n] = copy]

UpdateWrite(h) ==
    LET n == call[h].name IN
    /\ At(h, "write")
    /\ Rewrite(n, call[h].copy)
    /\ IF row[n] = NoRow /\ call[h].op # "create" THEN Finish(h) ELSE Advance(h, "sync")
    /\ UNCHANGED <<proc, backendVars, rec, known, broken, counters>>

SetEnabled(h, op, n) ==
    /\ Accept(h, op)
    /\ row[n] # NoRow
    /\ row' = [row EXCEPT ![n].enabled = (op = "up")]
    /\ Goto(h, op, "sync", n, NoRow)
    /\ UNCHANGED <<proc, backendVars, rec, known, broken, failures, crashes>>

(* handleInstanceRestart: read the row, stop, write the row back, enable.    *)
RestartRead(h, n) ==
    /\ Accept(h, "restart")
    /\ row[n] # NoRow
    /\ Goto(h, "restart", "stop", n, row[n])
    /\ UNCHANGED <<row, proc, backendVars, rec, known, broken, failures, crashes>>

RestartStop(h) ==
    /\ At(h, "stop") /\ call[h].op = "restart"
    /\ StopInstance(call[h].name)
    /\ Advance(h, "rewrite")
    /\ UNCHANGED <<row, child, rec, known, broken, counters>>

RestartWrite(h) ==
    /\ At(h, "rewrite")
    /\ Rewrite(call[h].name, call[h].copy)
    /\ Advance(h, "enable")
    /\ UNCHANGED <<proc, backendVars, rec, known, broken, counters>>

RestartEnable(h) ==
    LET n == call[h].name IN
    /\ At(h, "enable")
    /\ row' = IF row[n] = NoRow THEN row ELSE [row EXCEPT ![n].enabled = TRUE]
    /\ Advance(h, "sync")
    /\ UNCHANGED <<proc, backendVars, rec, known, broken, counters>>

(* handleDeleteInstance: RemoveInstance (stop, then forget), then the row.   *)
(* It does not reconcile.                                                    *)
DeleteStop(h, n) ==
    /\ Accept(h, "delete")
    /\ StopInstance(n)
    /\ Goto(h, "delete", "forget", n, NoRow)
    /\ UNCHANGED <<row, child, rec, known, broken, failures, crashes>>

DeleteForget(h) ==
    /\ At(h, "forget")
    /\ Forget(call[h].name)
    /\ Advance(h, "drop")
    /\ UNCHANGED <<row, proc, child, rec, known, broken, counters>>

DeleteRow(h) ==
    /\ At(h, "drop")
    /\ row' = [row EXCEPT ![call[h].name] = NoRow]
    /\ Finish(h)
    /\ UNCHANGED <<proc, backendVars, rec, known, broken, counters>>

(* POST /v1/reconcile.                                                       *)
Reconcile(h) ==
    /\ Accept(h, "reconcile")
    /\ Goto(h, "reconcile", "sync", NoName, NoRow)
    /\ UNCHANGED <<row, proc, backendVars, rec, known, broken, failures, crashes>>

(* The client goes away: the request's context fails every store operation   *)
(* that is left, so the call ends where it is.  A restart still stops.       *)
Cancel(h) ==
    /\ call[h].pc \notin {"idle", "stop", "forget"}
    /\ rec.owner # h
    /\ Finish(h)
    /\ UNCHANGED <<row, proc, backendVars, rec, known, broken, counters>>

HandlerStep(h) ==
    \/ \E conf \in Confs : CreateIssue(h, conf)
    \/ UpdateWrite(h)
    \/ RestartStop(h) \/ RestartWrite(h) \/ RestartEnable(h)
    \/ DeleteForget(h) \/ DeleteRow(h)
    \/ RecBegin(h)

Serve(h) ==
    \/ \E n \in Names, new \in Row :
          Create(h, n, new) \/ \E op \in {"update", "enable"} : UpdateRead(h, n, op, new)
    \/ \E n \in Names, op \in {"up", "down"} : SetEnabled(h, op, n)
    \/ \E n \in Names : RestartRead(h, n) \/ DeleteStop(h, n)
    \/ Reconcile(h)
    \/ Cancel(h)

------------------------------------------------------------------------------
(* Processes (external), their reapers, and crashes of the daemon.           *)

BecomeReady(p) ==
    /\ Alive(p) /\ ~proc[p].ready
    /\ proc' = [proc EXCEPT ![p].ready = TRUE]
    /\ UNCHANGED <<row, backendVars, rec, call, known, broken, counters>>

(* Management stops answering while the process stays alive.                 *)
Hang(p) ==
    /\ Alive(p) /\ proc[p].ready /\ failures < MaxFailures
    /\ failures' = failures + 1
    /\ proc' = [proc EXCEPT ![p].ready = FALSE]
    /\ UNCHANGED <<row, backendVars, rec, call, known, broken, calls, crashes>>

Exit(p) ==
    /\ Alive(p) /\ failures < MaxFailures
    /\ failures' = failures + 1
    /\ proc' = [proc EXCEPT ![p] = Free]
    /\ UNCHANGED <<row, backendVars, rec, call, known, broken, calls, crashes>>

Break(n) ==
    /\ n \notin broken /\ failures < MaxFailures
    /\ failures' = failures + 1
    /\ broken' = broken \cup {n}
    /\ UNCHANGED <<row, proc, backendVars, rec, call, known, calls, crashes>>

Repair(n) ==
    /\ n \in broken
    /\ broken' = broken \ {n}
    /\ UNCHANGED <<row, proc, backendVars, rec, call, known, counters>>

(* Mutant of Reaped: the reaper does not check whose handle it clears.       *)
ClearsAnyHandle(p) ==
    [n \in Names |-> IF managed[n] # Unmanaged /\ child[p] = n
                     THEN [managed[n] EXCEPT !.pid = NoPid, !.cmd = NoPid]
                     ELSE managed[n]]

(* The reaper clears the handle only if it is still the one of its process.  *)
Reaped(p) ==
    [n \in Names |-> IF managed[n] # Unmanaged /\ child[p] = n /\ managed[n].cmd = p
                     THEN [managed[n] EXCEPT !.pid = NoPid, !.cmd = NoPid]
                     ELSE managed[n]]

(* cmd.Wait returns in the reaper goroutine of a child.                      *)
Reap(p) ==
    /\ child[p] # NoName /\ proc[p] = Free
    /\ managed' = Reaped(p)
    /\ child' = [child EXCEPT ![p] = NoName]
    /\ UNCHANGED <<row, proc, rec, call, known, broken, counters>>

Crash ==
    /\ crashes < MaxCrashes
    /\ crashes' = crashes + 1
    /\ managed' = [n \in Names |-> Unmanaged]
    /\ child' = [p \in Procs |-> NoName]
    /\ rec' = NoRun
    /\ call' = [h \in Requests |-> Idle]
    /\ known' = [n \in Names |-> "unseen"]
    /\ UNCHANGED <<row, proc, broken, calls, failures>>

Disturb ==
    \/ \E p \in Procs : BecomeReady(p) \/ Hang(p) \/ Exit(p)
    \/ \E n \in Names : Break(n) \/ Repair(n) \/ SkipInstance(n)
    \/ \E n \in Names, q \in Procs : EnsureStartSlow(n, q)
    \/ Crash

Next ==
    \/ RecBegin(Ticker)
    \/ ReconcilerStep
    \/ \E h \in Requests : HandlerStep(h) \/ Serve(h)
    \/ \E p \in Procs : Reap(p)
    \/ Disturb

Spec == Init /\ [][Next]_vars

(* The ticker fires for ever, and the goroutines run on: the one that        *)
(* reconciles, the handlers, the reapers.  Calls, failures, repairs, crashes *)
(* and what a process does by itself need not happen.                        *)
FairSpec ==
    /\ Spec
    /\ WF_vars(RecBegin(Ticker))
    /\ WF_vars(ReconcilerStep)
    /\ \A h \in Requests : WF_vars(HandlerStep(h))
    /\ \A p \in Procs : WF_vars(Reap(p))

------------------------------------------------------------------------------
TypeOK ==
    /\ row \in [Names -> {NoRow} \cup Row]
    /\ proc \in [Procs -> {Free} \cup Process]
    /\ managed \in [Names -> {Unmanaged} \cup Entry]
    /\ child \in [Procs -> Names \cup {NoName}]
    /\ rec \in Run
    /\ call \in [Requests -> Call]
    /\ known \in [Names -> {"unseen", "up", "down"}]
    /\ broken \subseteq Names
    /\ calls \in 0..MaxCalls /\ failures \in 0..MaxFailures /\ crashes \in 0..MaxCrashes

(* No two processes ever run for one instance, whichever handle went stale,  *)
(* whoever stops or deletes it meanwhile, and across crashes of the daemon:  *)
(* they would fight over the port, the tun device and the management socket. *)
AtMostOneProcess ==
    \A p, q \in Procs :
        Alive(p) /\ Alive(q) /\ proc[p].name = proc[q].name => p = q

(* A live child whose reaper is still to run is the process its handle       *)
(* tracks: a late reaper of an older process never makes the daemon lose it. *)
ChildTracked ==
    \A p \in Procs :
        (Alive(p) /\ child[p] # NoName /\ managed[child[p]] # Unmanaged)
            => managed[child[p]].pid = p

(* Once a reconcile has gone past a row that was disabled, no process of     *)
(* that instance runs until the reconcile ends, not even one that an earlier *)
(* daemon started: "enabled: start/stop reconciler"                          *)
(* (docs/OPENVPN_FEATURES.md:25).                                            *)
StopsDisabled(n) ==
    (rec.phase # "idle" /\ n \notin rec.todo /\ rec.snap[n] # NoRow
        /\ ~rec.snap[n].enabled)
    => FindPIDByConf(n) = {}

PassedDisabledIsDown == \A n \in Names : StopsDisabled(n)

(* The same when applyInstance got as far as EnsureInstance.                 *)
DisabledStaysDown == \A n \in Names \ rec.skipped : StopsDisabled(n)

(* "Changing the binary restarts the process on the next reconcile"          *)
(* (README.md:126), and so does any change of the configuration: when        *)
(* applyInstance has succeeded for an instance, what runs for it runs the    *)
(* configuration just applied.                                               *)
AppliedConfRuns ==
    \A p \in Procs :
        (Alive(p) /\ rec.at = proc[p].name /\ rec.phase = "apply")
            => proc[p].conf = rec.snap[proc[p].name].conf

(* A reconcile does not disturb a process that answers management and runs   *)
(* the configuration to apply: its users stay connected.                     *)
KeepsHealthy ==
    [][\A p \in Procs :
          (Alive(p) /\ proc[p].ready /\ rec.phase = "apply"
            /\ rec.todo # rec'.todo
            /\ rec.snap[proc[p].name] = [enabled |-> TRUE, conf |-> proc[p].conf])
          => proc'[p] = proc[p]]_vars

(* "patches non-zero fields from the provided instance"                      *)
(* (db/instances.go:210): a PATCH that does not name the enabled flag        *)
(* leaves the flag alone, whatever other calls did since it read the row.    *)
PatchKeepsEnabled ==
    [][\A h \in Requests :
          (call[h].op = "update" /\ call[h].pc = "write" /\ call'[h].pc = "sync")
          => row'[call[h].name].enabled = row[call[h].name].enabled]_vars

(* "runtime cleaned by stop" (host.go:492): once a handle is removed,        *)
(* nothing runs for the instance.                                            *)
RemovedIsStopped ==
    \A n \in Names : managed[n] = Unmanaged => FindPIDByConf(n) = {}

(* What the state and the processes of an instance look like once the        *)
(* reconciler has caught up.                                                 *)
Settled(n) ==
    IF row[n] # NoRow /\ row[n].enabled
    THEN \E p \in Procs :
            /\ proc[p] = [name |-> n, conf |-> row[n].conf, ready |-> TRUE]
            /\ managed[n] # Unmanaged /\ managed[n].pid = p
            /\ known[n] = "up"
    ELSE FindPIDByConf(n) = {} /\ (row[n] # NoRow => known[n] = "down")

(* When calls and failures stop and openvpn can start, every instance ends   *)
(* up, for good, as its row says, and is reported so.                        *)
Converges == <>[](broken = {}) => <>[](\A n \in Names : Settled(n))

(* "Lifecycle kinds (edge-triggered): instance.up, instance.down"            *)
(* (docs/CONFIGURATION.md:173): an instance whose process is gone for good   *)
(* is not reported up for ever.                                              *)
DownIsReported ==
    \A n \in Names : <>[](FindPIDByConf(n) = {} /\ row[n] # NoRow) => <>[](known[n] # "up")
===============================================================================
