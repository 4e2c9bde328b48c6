---------------------------- MODULE InstancesProofs ----------------------------
(***************************************************************************)
(* What holds of the supervision of processes for every number of          *)
(* instances, processes, requests, calls, failures and crashes.            *)
(***************************************************************************)
EXTENDS Instances, TLAPS

------------------------------------------------------------------------------
(* Types.  First what the operators the actions share return.                *)

LEMMA EntryOfType ==
    ASSUME TypeOK, NEW n \in Names
    PROVE  EntryOf(n) \in Entry
  BY DEF EntryOf, Entry, TypeOK

LEMMA KillingType ==
    ASSUME TypeOK, NEW victims
    PROVE  Killing(victims) \in [Procs -> {Free} \cup Process]
  BY DEF Killing, TypeOK

LEMMA StopInstanceType ==
    ASSUME TypeOK, NEW n \in Names, StopInstance(n)
    PROVE  /\ proc' \in [Procs -> {Free} \cup Process]
           /\ managed' \in [Names -> {Unmanaged} \cup Entry]
<1>1. proc' \in [Procs -> {Free} \cup Process]
  BY KillingType DEF StopInstance
<1>2. CASE managed[n] = Unmanaged
  BY <1>1, <1>2 DEF StopInstance, TypeOK
<1>3. CASE managed[n] # Unmanaged
  <2>1. managed \in [Names -> {Unmanaged} \cup Entry] /\ managed[n] \in Entry
    BY <1>3 DEF TypeOK
  <2>2. [[managed[n] EXCEPT !.pid = NoPid] EXCEPT !.cmd = NoPid] \in Entry
    BY <2>1 DEF Entry
  <2>3. managed' = [managed EXCEPT ![n] = [[managed[n] EXCEPT !.pid = NoPid] EXCEPT !.cmd = NoPid]]
    BY <1>3, <2>1 DEF StopInstance
  <2>. QED
    BY <1>1, <2>1, <2>2, <2>3
<1>. QED
  BY <1>2, <1>3

LEMMA RefreshedType ==
    ASSUME TypeOK, NEW n \in Names
    PROVE  Refreshed(n) \in Entry
<1>1. EntryOf(n) \in Entry
  BY EntryOfType
<1>2. FindPIDByConf(n) # {} => (CHOOSE p \in FindPIDByConf(n) : TRUE) \in Procs
  BY DEF FindPIDByConf
<1>. QED
  BY <1>1, <1>2 DEF Refreshed, Entry

LEMMA ReapedType ==
    ASSUME TypeOK, NEW p \in Procs
    PROVE  Reaped(p) \in [Names -> {Unmanaged} \cup Entry]
<1>. SUFFICES ASSUME NEW n \in Names, managed[n] # Unmanaged
              PROVE  [managed[n] EXCEPT !.pid = NoPid, !.cmd = NoPid] \in Entry
  BY DEF Reaped, TypeOK
<1>1. managed[n] \in Entry
  BY DEF TypeOK
<1>. QED
  BY <1>1 DEF Entry

LEMMA EnsuredType ==
    ASSUME TypeOK, NEW n \in Names, NEW ok \in BOOLEAN, Ensured(n, ok)
    PROVE  /\ rec' \in Run
           /\ rec'.owner = rec.owner /\ rec'.phase = rec.phase /\ rec'.snap = rec.snap
           /\ rec'.skipped = rec.skipped
           /\ rec'.todo = rec.todo \ {n} /\ rec'.at = IF ok THEN n ELSE NoName
  BY DEF Ensured, Run, TypeOK

(* A handler's record stays a call when it starts, moves on or ends.         *)
PCs == {"idle", "sync", "issue", "write", "stop", "rewrite", "enable", "forget", "drop"}

LEMMA GotoType ==
    ASSUME TypeOK, NEW h \in Requests, NEW op \in Calls, NEW pc \in PCs,
           NEW n \in Names \cup {NoName}, NEW copy \in {NoRow} \cup Row,
           Goto(h, op, pc, n, copy)
    PROVE  call' \in [Requests -> Call]
  BY DEF Goto, TypeOK, Call, PCs

LEMMA AdvanceType ==
    ASSUME TypeOK, NEW h \in Requests, NEW pc \in PCs, Advance(h, pc)
    PROVE  call' \in [Requests -> Call]
  BY DEF Advance, TypeOK, Call, PCs

LEMMA FinishType ==
    ASSUME TypeOK, NEW h
    PROVE  [call EXCEPT ![h] = Idle] \in [Requests -> Call]
  BY DEF Idle, TypeOK, Call, Calls

(***************************************************************************)
(* TypeOK is not inductive: that a reconcile only applies rows it has, and *)
(* a handler only writes rows it has read, depends on the control state.   *)
(***************************************************************************)
RunOK ==
    /\ rec.phase = "apply" =>
          /\ \A n \in rec.todo : rec.snap[n] # NoRow
          /\ rec.at # NoName => rec.snap[rec.at] # NoRow
    /\ rec.phase \in {"stop", "forget"} => \A n \in rec.todo : rec.snap[n] = NoRow
    /\ rec.phase = "stop" => rec.at = NoName
    /\ rec.phase = "forget" => rec.at \in rec.todo

CallOK ==
    \A h \in Requests :
        /\ call[h].pc \notin {"idle", "sync"} => call[h].name \in Names
        /\ call[h].pc \in {"write", "stop", "rewrite"} => call[h].copy \in Row

TypeInv == TypeOK /\ RunOK /\ CallOK

LEMMA InitTypeInv == Init => TypeInv
  BY ConstantsAssumption
  DEF Init, TypeInv, TypeOK, RunOK, CallOK, NoRun, Idle, Run, Call, Calls

(* The row a step of the reconciler applies.                                 *)
LEMMA SnapType ==
    ASSUME TypeInv, NEW n \in Names, Applying(n)
    PROVE  rec.snap[n] \in Row /\ rec.snap[n].conf \in Confs /\ rec.snap[n].enabled \in BOOLEAN
  BY DEF TypeInv, TypeOK, RunOK, Run, Row, Applying

(* The steps that leave the run, the calls and the rows alone.               *)
LEMMA FrameTypeInv ==
    ASSUME TypeInv, UNCHANGED <<row, rec, call>>,
           proc' \in [Procs -> {Free} \cup Process],
           managed' \in [Names -> {Unmanaged} \cup Entry],
           child' \in [Procs -> Names \cup {NoName}],
           known' \in [Names -> {"unseen", "up", "down"}],
           broken' \subseteq Names,
           calls' \in 0..MaxCalls, failures' \in 0..MaxFailures, crashes' \in 0..MaxCrashes
    PROVE  TypeInv'
  BY DEF TypeInv, TypeOK, RunOK, CallOK

(* EnsureInstance and applyInstance: a step that takes n off the list.       *)
LEMMA ApplyTypeInv ==
    ASSUME TypeInv, NEW n \in Names, Applying(n), UNCHANGED <<row, call, known, broken>>,
           proc' \in [Procs -> {Free} \cup Process],
           managed' \in [Names -> {Unmanaged} \cup Entry],
           child' \in [Procs -> Names \cup {NoName}],
           UNCHANGED <<calls, crashes>>, failures' \in 0..MaxFailures,
           NEW ok \in BOOLEAN, Ensured(n, ok)
    PROVE  TypeInv'
<1>1. rec' \in Run /\ RunOK'
  BY EnsuredType, SnapType DEF TypeInv, RunOK, Applying
<1>. QED
  BY <1>1 DEF TypeInv, TypeOK, CallOK

LEMMA SpawnType ==
    ASSUME TypeInv, NEW n \in Names, NEW q \in Procs, Applying(n),
           NEW outcome, Spawn(n, q, outcome)
    PROVE  /\ proc' \in [Procs -> {Free} \cup Process]
           /\ managed' \in [Names -> {Unmanaged} \cup Entry]
           /\ child' \in [Procs -> Names \cup {NoName}]
<1>1. rec.snap[n].conf \in Confs
  BY SnapType
<1>2. Killing(Replaced(n)) \in [Procs -> {Free} \cup Process]
  BY KillingType DEF TypeInv
<1>3. [name |-> n, conf |-> rec.snap[n].conf, ready |-> outcome = "ready"] \in Process
  BY <1>1 DEF Process
<1>4. [conf |-> rec.snap[n].conf, pid |-> q, cmd |-> q] \in Entry
  BY <1>1 DEF Entry
<1>. QED
  BY <1>2, <1>3, <1>4 DEF Spawn, TypeInv, TypeOK

LEMMA EnsureTypeInv ==
    ASSUME TypeInv, NEW n \in Names
    PROVE  /\ EnsureDisabled(n) => TypeInv'
           /\ EnsureKeep(n) => TypeInv'
           /\ EnsureStartFails(n) => TypeInv'
           /\ \A q \in Procs :
                 EnsureStart(n, q) \/ EnsureStartSlow(n, q) \/ EnsureStartExits(n, q)
                     => TypeInv'
<1>. USE DEF backendVars, counters
<1>1. ASSUME Applying(n)
      PROVE  [conf |-> rec.snap[n].conf, pid |-> NoPid, cmd |-> NoPid] \in Entry
  BY <1>1, SnapType DEF Entry
<1>2. CASE EnsureDisabled(n)
  <2>1. proc' \in [Procs -> {Free} \cup Process]
    BY <1>2, KillingType DEF EnsureDisabled, TypeInv
  <2>2. managed' \in [Names -> {Unmanaged} \cup Entry]
    BY <1>1, <1>2 DEF EnsureDisabled, TypeInv, TypeOK
  <2>. QED
    BY <1>2, <2>1, <2>2, ApplyTypeInv DEF EnsureDisabled, TypeInv, TypeOK
<1>3. CASE EnsureKeep(n)
  <2>1. [Refreshed(n) EXCEPT !.conf = rec.snap[n].conf] \in Entry
    BY <1>3, RefreshedType, SnapType DEF EnsureKeep, TypeInv, Entry
  <2>2. managed' \in [Names -> {Unmanaged} \cup Entry]
    BY <1>3, <2>1 DEF EnsureKeep, TypeInv, TypeOK
  <2>. QED
    BY <1>3, <2>2, ApplyTypeInv DEF EnsureKeep, TypeInv, TypeOK
<1>4. CASE EnsureStartFails(n)
  <2>1. proc' \in [Procs -> {Free} \cup Process]
    BY <1>4, KillingType DEF EnsureStartFails, TypeInv
  <2>2. managed' \in [Names -> {Unmanaged} \cup Entry]
    BY <1>1, <1>4 DEF EnsureStartFails, Starting, TypeInv, TypeOK
  <2>. QED
    BY <1>4, <2>1, <2>2, ApplyTypeInv DEF EnsureStartFails, Starting, TypeInv, TypeOK
<1>5. ASSUME NEW q \in Procs,
             EnsureStart(n, q) \/ EnsureStartSlow(n, q) \/ EnsureStartExits(n, q)
      PROVE  TypeInv'
  <2>. PICK outcome \in {"ready", "slow", "exited"} : Spawn(n, q, outcome)
    BY <1>5 DEF EnsureStart, EnsureStartSlow, EnsureStartExits
  <2>1. Applying(n) /\ UNCHANGED <<row, call, known, broken, calls, crashes>>
    BY <1>5 DEF EnsureStart, EnsureStartSlow, EnsureStartExits, Starting
  <2>2. failures' \in 0..MaxFailures
    BY <1>5, ConstantsAssumption
    DEF EnsureStart, EnsureStartSlow, EnsureStartExits, TypeInv, TypeOK
  <2>3. Ensured(n, outcome = "ready")
    BY DEF Spawn
  <2>. QED
    BY <2>1, <2>2, <2>3, SpawnType, ApplyTypeInv
<1>. QED
  BY <1>2, <1>3, <1>4, <1>5

LEMMA ReconcilerTypeInv ==
    ASSUME TypeInv, ReconcilerStep
    PROVE  TypeInv'
<1>. USE DEF backendVars, counters
<1>1. ASSUME NEW n \in Names, Observe(n) PROVE TypeInv'
  BY <1>1 DEF Observe, Observed, TypeInv, TypeOK, RunOK, CallOK, Run
<1>2. CASE ListLive
  BY <1>2 DEF ListLive, TypeInv, TypeOK, RunOK, CallOK, Run
<1>3. ASSUME NEW n \in Names, SweepStop(n) PROVE TypeInv'
  <2>1. rec' \in Run /\ RunOK'
    BY <1>3 DEF SweepStop, TypeInv, TypeOK, RunOK, Run
  <2>. QED
    BY <1>3, <2>1, StopInstanceType DEF SweepStop, TypeInv, TypeOK, CallOK
<1>4. ASSUME NEW n \in Names, SweepForget(n) PROVE TypeInv'
  BY <1>4 DEF SweepForget, Forget, TypeInv, TypeOK, RunOK, CallOK, Run
<1>5. CASE RecEnd
  <2>1. rec' \in Run /\ RunOK'
    BY <1>5 DEF RecEnd, NoRun, Run, RunOK
  <2>2. call' \in [Requests -> Call]
    BY <1>5, FinishType DEF RecEnd, TypeInv, TypeOK
  <2>3. CallOK'
    BY <1>5 DEF RecEnd, TypeInv, TypeOK, CallOK, Idle
  <2>. QED
    BY <1>5, <2>1, <2>2, <2>3 DEF RecEnd, TypeInv, TypeOK
<1>. QED
  BY <1>1, <1>2, <1>3, <1>4, <1>5, EnsureTypeInv DEF ReconcilerStep

(* The handlers.  A step of one changes the record of no other.              *)
LEMMA HandlerTypeInv ==
    ASSUME TypeInv, NEW h \in Requests, HandlerStep(h)
    PROVE  TypeInv'
<1>. USE DEF TypeInv, backendVars, counters
<1>. DEFINE n == call[h].name
<1>1. ASSUME NEW conf \in Confs, CreateIssue(h, conf) PROVE TypeInv'
  <2>1. n \in Names
    BY <1>1 DEF CreateIssue, At, CallOK
  <2>2. row[n] # NoRow => [row[n] EXCEPT !.conf = conf] \in Row
    BY <2>1 DEF TypeOK, Row
  <2>3. call' \in [Requests -> Call] /\ CallOK'
    <3>1. CASE row[n] # NoRow /\ Goto(h, "create", "write", n, [row[n] EXCEPT !.conf = conf])
      BY <2>1, <2>2, <3>1, GotoType DEF PCs, Calls, Goto, CallOK, TypeOK
    <3>2. CASE Advance(h, "sync")
      BY <3>2, AdvanceType DEF PCs, Advance, CallOK, TypeOK, Call
    <3>3. CASE Finish(h)
      BY <3>3, FinishType DEF Finish, CallOK, TypeOK, Idle
    <3>. QED
      BY <1>1, <3>1, <3>2, <3>3 DEF CreateIssue
  <2>. QED
    BY <1>1, <2>3 DEF CreateIssue, TypeOK, RunOK
<1>2. CASE UpdateWrite(h)
  <2>1. n \in Names /\ call[h].copy \in Row
    BY <1>2 DEF UpdateWrite, At, CallOK
  <2>2. row' \in [Names -> {NoRow} \cup Row]
    BY <1>2, <2>1 DEF UpdateWrite, Rewrite, TypeOK
  <2>3. call' \in [Requests -> Call] /\ CallOK'
    <3>1. CASE Advance(h, "sync")
      BY <3>1, AdvanceType DEF PCs, Advance, CallOK, TypeOK, Call
    <3>2. CASE Finish(h)
      BY <3>2, FinishType DEF Finish, CallOK, TypeOK, Idle
    <3>. QED
      BY <1>2, <3>1, <3>2 DEF UpdateWrite
  <2>. QED
    BY <1>2, <2>2, <2>3 DEF UpdateWrite, TypeOK, RunOK
<1>3. CASE RestartStop(h)
  <2>1. n \in Names
    BY <1>3 DEF RestartStop, At, CallOK
  <2>2. call' \in [Requests -> Call] /\ CallOK'
    BY <1>3, <2>1, AdvanceType DEF RestartStop, At, PCs, Advance, CallOK, TypeOK, Call
  <2>. QED
    BY <1>3, <2>1, <2>2, StopInstanceType DEF RestartStop, TypeOK, RunOK
<1>4. CASE RestartWrite(h)
  <2>1. n \in Names /\ call[h].copy \in Row
    BY <1>4 DEF RestartWrite, At, CallOK
  <2>2. row' \in [Names -> {NoRow} \cup Row]
    BY <1>4, <2>1 DEF RestartWrite, Rewrite, TypeOK
  <2>3. call' \in [Requests -> Call] /\ CallOK'
    BY <1>4, <2>1, AdvanceType DEF RestartWrite, PCs, Advance, CallOK, TypeOK, Call
  <2>. QED
    BY <1>4, <2>2, <2>3 DEF RestartWrite, TypeOK, RunOK
<1>5. CASE RestartEnable(h)
  <2>1. n \in Names
    BY <1>5 DEF RestartEnable, At, CallOK
  <2>2. row' \in [Names -> {NoRow} \cup Row]
    <3>1. row[n] # NoRow => [row[n] EXCEPT !.enabled = TRUE] \in Row
      BY <2>1 DEF TypeOK, Row
    <3>. QED
      BY <1>5, <2>1, <3>1 DEF RestartEnable, TypeOK
  <2>3. call' \in [Requests -> Call] /\ CallOK'
    BY <1>5, AdvanceType DEF RestartEnable, PCs, Advance, CallOK, TypeOK, Call
  <2>. QED
    BY <1>5, <2>2, <2>3 DEF RestartEnable, TypeOK, RunOK
<1>6. CASE DeleteForget(h)
  <2>1. n \in Names
    BY <1>6 DEF DeleteForget, At, CallOK
  <2>2. call' \in [Requests -> Call] /\ CallOK'
    BY <1>6, <2>1, AdvanceType DEF DeleteForget, PCs, Advance, CallOK, TypeOK, Call
  <2>. QED
    BY <1>6, <2>1, <2>2 DEF DeleteForget, Forget, TypeOK, RunOK
<1>7. CASE DeleteRow(h)
  <2>1. n \in Names
    BY <1>7 DEF DeleteRow, At, CallOK
  <2>2. call' \in [Requests -> Call] /\ CallOK'
    BY <1>7, FinishType DEF DeleteRow, Finish, CallOK, TypeOK, Idle
  <2>. QED
    BY <1>7, <2>1, <2>2 DEF DeleteRow, TypeOK, RunOK
<1>8. CASE RecBegin(h)
  BY <1>8 DEF RecBegin, TypeOK, RunOK, CallOK, Run
<1>. QED
  BY <1>1, <1>2, <1>3, <1>4, <1>5, <1>6, <1>7, <1>8 DEF HandlerStep

LEMMA ServeTypeInv ==
    ASSUME TypeInv, NEW h \in Requests, Serve(h)
    PROVE  TypeInv'
<1>. USE DEF TypeInv, backendVars
<1>0. ASSUME NEW op \in Calls, Accept(h, op), UNCHANGED <<failures, crashes>>
      PROVE  calls' \in 0..MaxCalls /\ failures' \in 0..MaxFailures
             /\ crashes' \in 0..MaxCrashes
  BY <1>0, ConstantsAssumption DEF Accept, TypeOK
<1>1. ASSUME NEW n \in Names, NEW new \in Row, Create(h, n, new) PROVE TypeInv'
  <2>1. PICK pc \in {"issue", "sync"} : Goto(h, "create", pc, n, NoRow)
    BY <1>1 DEF Create
  <2>2. call' \in [Requests -> Call] /\ CallOK'
    BY <2>1, GotoType DEF PCs, Calls, Goto, CallOK, TypeOK
  <2>. QED
    BY <1>0, <1>1, <2>2 DEF Create, TypeOK, RunOK, Calls
<1>2. ASSUME NEW n \in Names, NEW new \in Row, NEW op \in {"update", "enable"},
             UpdateRead(h, n, op, new)
      PROVE  TypeInv'
  <2>1. row[n] \in Row
    BY <1>2 DEF UpdateRead, TypeOK
  <2>. DEFINE copy == IF op = "enable" THEN [row[n] EXCEPT !.enabled = new.enabled]
                      ELSE [row[n] EXCEPT !.conf = new.conf]
  <2>2. copy \in Row
    BY <2>1 DEF Row
  <2>3. Goto(h, op, "write", n, copy)
    BY <1>2 DEF UpdateRead
  <2>. HIDE DEF copy
  <2>4. call' \in [Requests -> Call] /\ CallOK'
    BY <2>2, <2>3, GotoType DEF PCs, Calls, Goto, CallOK, TypeOK
  <2>. QED
    BY <1>0, <1>2, <2>4 DEF UpdateRead, TypeOK, RunOK, Calls
<1>3. ASSUME NEW n \in Names, NEW op \in {"up", "down"}, SetEnabled(h, op, n)
      PROVE  TypeInv'
  <2>1. [row[n] EXCEPT !.enabled = (op = "up")] \in Row
    BY <1>3 DEF SetEnabled, TypeOK, Row
  <2>2. row' \in [Names -> {NoRow} \cup Row]
    BY <1>3, <2>1 DEF SetEnabled, TypeOK
  <2>3. call' \in [Requests -> Call] /\ CallOK'
    BY <1>3, GotoType DEF SetEnabled, PCs, Calls, Goto, CallOK, TypeOK
  <2>. QED
    BY <1>0, <1>3, <2>2, <2>3 DEF SetEnabled, TypeOK, RunOK, Calls
<1>4. ASSUME NEW n \in Names, RestartRead(h, n) PROVE TypeInv'
  <2>1. call' \in [Requests -> Call] /\ CallOK'
    BY <1>4, GotoType DEF RestartRead, PCs, Calls, Goto, CallOK, TypeOK
  <2>. QED
    BY <1>0, <1>4, <2>1 DEF RestartRead, TypeOK, RunOK, Calls
<1>5. ASSUME NEW n \in Names, DeleteStop(h, n) PROVE TypeInv'
  <2>1. call' \in [Requests -> Call] /\ CallOK'
    BY <1>5, GotoType DEF DeleteStop, PCs, Calls, Goto, CallOK, TypeOK
  <2>. QED
    BY <1>0, <1>5, <2>1, StopInstanceType DEF DeleteStop, TypeOK, RunOK, Calls
<1>6. CASE Reconcile(h)
  <2>1. call' \in [Requests -> Call] /\ CallOK'
    BY <1>6, GotoType DEF Reconcile, PCs, Calls, Goto, CallOK, TypeOK
  <2>. QED
    BY <1>0, <1>6, <2>1 DEF Reconcile, TypeOK, RunOK, Calls
<1>7. CASE Cancel(h)
  <2>1. call' \in [Requests -> Call] /\ CallOK'
    BY <1>7, FinishType DEF Cancel, Finish, CallOK, TypeOK, Idle
  <2>. QED
    BY <1>7, <2>1 DEF Cancel, TypeOK, RunOK, counters
<1>. QED
  BY <1>1, <1>2, <1>3, <1>4, <1>5, <1>6, <1>7 DEF Serve

LEMMA DisturbTypeInv ==
    ASSUME TypeInv, Disturb \/ \E p \in Procs : Reap(p)
    PROVE  TypeInv'
<1>. USE DEF backendVars, counters
<1>1. ASSUME failures < MaxFailures, failures' = failures + 1
      PROVE  failures' \in 0..MaxFailures
  BY <1>1, ConstantsAssumption DEF TypeInv, TypeOK
<1>2. ASSUME NEW p \in Procs, NEW ready \in BOOLEAN, Alive(p)
      PROVE  [proc EXCEPT ![p].ready = ready] \in [Procs -> {Free} \cup Process]
  <2>1. [proc[p] EXCEPT !.ready = ready] \in Process
    BY <1>2 DEF Alive, TypeInv, TypeOK, Process
  <2>. QED
    BY <2>1 DEF TypeInv, TypeOK
<1>3. ASSUME NEW p \in Procs, BecomeReady(p) PROVE TypeInv'
  BY <1>2, <1>3, FrameTypeInv DEF BecomeReady, TypeInv, TypeOK
<1>4. ASSUME NEW p \in Procs, Hang(p) PROVE TypeInv'
  BY <1>1, <1>2, <1>4, FrameTypeInv DEF Hang, TypeInv, TypeOK
<1>5. ASSUME NEW p \in Procs, Exit(p) PROVE TypeInv'
  BY <1>1, <1>5, FrameTypeInv DEF Exit, TypeInv, TypeOK
<1>6. ASSUME NEW n \in Names, Break(n) \/ Repair(n) PROVE TypeInv'
  BY <1>1, <1>6, FrameTypeInv DEF Break, Repair, TypeInv, TypeOK
<1>7. ASSUME NEW n \in Names, SkipInstance(n) PROVE TypeInv'
  <2>1. rec' \in Run /\ RunOK'
    BY <1>7 DEF SkipInstance, Applying, TypeInv, TypeOK, RunOK, Run
  <2>. QED
    BY <1>1, <1>7, <2>1 DEF SkipInstance, TypeInv, TypeOK, CallOK
<1>8. ASSUME NEW p \in Procs, Reap(p) PROVE TypeInv'
  BY <1>8, ReapedType, FrameTypeInv DEF Reap, TypeInv, TypeOK
<1>9. CASE Crash
  <2>1. rec' \in Run /\ RunOK'
    BY <1>9 DEF Crash, NoRun, Run, RunOK
  <2>2. call' \in [Requests -> Call] /\ CallOK'
    BY <1>9 DEF Crash, Idle, Call, Calls, CallOK
  <2>3. crashes' \in 0..MaxCrashes
    BY <1>9, ConstantsAssumption DEF Crash, TypeInv, TypeOK
  <2>. QED
    BY <1>9, <2>1, <2>2, <2>3 DEF Crash, TypeInv, TypeOK
<1>. QED
  BY <1>3, <1>4, <1>5, <1>6, <1>7, <1>8, <1>9, EnsureTypeInv DEF Disturb

LEMMA NextTypeInv == TypeInv /\ [Next]_vars => TypeInv'
<1>1. ASSUME TypeInv, RecBegin(Ticker) PROVE TypeInv'
  BY <1>1 DEF RecBegin, TypeInv, TypeOK, RunOK, CallOK, Run, backendVars, counters
<1>2. ASSUME TypeInv, UNCHANGED vars PROVE TypeInv'
  BY <1>2 DEF vars, backendVars, counters, TypeInv, TypeOK, RunOK, CallOK
<1>. QED
  BY <1>1, <1>2, ReconcilerTypeInv, HandlerTypeInv, ServeTypeInv, DisturbTypeInv DEF Next

(* The state keeps its shape: in particular no handler writes a row it has   *)
(* not read, and no reconcile applies a row it has not listed.               *)
THEOREM TypeCorrect == Spec => []TypeOK
<1>1. TypeInv => TypeOK
  BY DEF TypeInv
<1>. QED
  BY <1>1, InitTypeInv, NextTypeInv, PTL DEF Spec

------------------------------------------------------------------------------
(***************************************************************************)
(* Processes.  AtMostOneProcess is inductive by itself: a start kills all  *)
(* that runs the conf.  ChildTracked needs to know that a reaper waits for *)
(* a process of its own instance and that a handle with a cmd tracks that  *)
(* very process: the reaper of another one then cannot clear it.           *)
(***************************************************************************)
ChildName ==
    \A p \in Procs : Alive(p) /\ child[p] # NoName => proc[p].name = child[p]

HandleOK ==
    \A n \in Names :
        managed[n] # Unmanaged /\ managed[n].cmd # NoPid => managed[n].pid = managed[n].cmd

Tracking == ChildTracked /\ ChildName /\ HandleOK

ProcInv == AtMostOneProcess /\ Tracking /\ DisabledStaysDown

LEMMA InitProcInv == Init => ProcInv
  BY DEF Init, ProcInv, Tracking, AtMostOneProcess, ChildTracked, ChildName, HandleOK,
         DisabledStaysDown, StopsDisabled, FindPIDByConf, Alive, NoRun

(* Steps that start nothing: every live process was there, under that name.  *)
NothingStarts ==
    \A p \in Procs : Alive(p)' => Alive(p) /\ proc'[p].name = proc[p].name

LEMMA NothingStartsSafe ==
    ASSUME ProcInv, NothingStarts
    PROVE  /\ AtMostOneProcess'
           /\ \A n : FindPIDByConf(n)' \subseteq FindPIDByConf(n)
           /\ UNCHANGED child => ChildName'
           /\ UNCHANGED rec => DisabledStaysDown'
<1>1. AtMostOneProcess'
  BY DEF ProcInv, NothingStarts, AtMostOneProcess
<1>2. \A n : FindPIDByConf(n)' \subseteq FindPIDByConf(n)
  BY DEF NothingStarts, FindPIDByConf, Alive
<1>3. UNCHANGED child => ChildName'
  BY DEF ProcInv, Tracking, NothingStarts, ChildName
<1>4. UNCHANGED rec => DisabledStaysDown'
  BY <1>2 DEF ProcInv, DisabledStaysDown, StopsDisabled
<1>. QED
  BY <1>1, <1>2, <1>3, <1>4

LEMMA KillingStartsNothing ==
    ASSUME TypeOK, NEW victims, proc' = Killing(victims)
    PROVE  /\ NothingStarts
           /\ \A p \in victims : ~Alive(p)'
           /\ \A p \in Procs \ victims : proc'[p] = proc[p]
  BY DEF Killing, NothingStarts, Alive, TypeOK

(* StopInstance leaves no live child behind: the tracked process dies.       *)
LEMMA StopInstanceTracking ==
    ASSUME TypeOK, ProcInv, NEW n \in Names, StopInstance(n), UNCHANGED child
    PROVE  NothingStarts /\ Tracking'
<1>1. CASE managed[n] = Unmanaged
  <2>1. NothingStarts /\ UNCHANGED managed
    BY <1>1, KillingStartsNothing DEF StopInstance
  <2>2. ChildTracked' /\ HandleOK'
    BY <2>1 DEF ProcInv, Tracking, ChildTracked, HandleOK, NothingStarts
  <2>. QED
    BY <2>1, <2>2, NothingStartsSafe DEF Tracking
<1>2. CASE managed[n] # Unmanaged
  <2>1. /\ proc' = Killing(StopVictims(n))
        /\ managed' = [managed EXCEPT ![n].pid = NoPid, ![n].cmd = NoPid]
    BY <1>2 DEF StopInstance
  <2>2. NothingStarts /\ (managed[n].pid \in Procs => proc'[managed[n].pid] = Free)
    BY <1>2, <2>1, KillingStartsNothing DEF StopVictims, EntryOf, Alive
  <2>3. managed[n] \in Entry /\ managed \in [Names -> {Unmanaged} \cup Entry]
    BY <1>2 DEF TypeOK
  <2>4. /\ managed'[n] \in Entry /\ managed'[n].cmd = NoPid
        /\ \A m \in Names \ {n} : managed'[m] = managed[m]
    BY <2>1, <2>3 DEF Entry
  <2>5. ChildTracked'
    <3>. SUFFICES ASSUME NEW p \in Procs, Alive(p)', child[p] # NoName,
                         managed'[child[p]] # Unmanaged
                  PROVE  managed'[child[p]].pid = p
      BY DEF ChildTracked
    <3>1. child[p] \in Names /\ Alive(p) /\ proc'[p] # Free
      BY <2>2 DEF TypeOK, NothingStarts, Alive
    <3>2. child[p] # n
      BY <1>2, <2>2, <3>1 DEF ProcInv, Tracking, ChildTracked
    <3>. QED
      BY <2>4, <3>1, <3>2 DEF ProcInv, Tracking, ChildTracked
  <2>6. HandleOK'
    BY <2>4 DEF ProcInv, Tracking, HandleOK
  <2>. QED
    BY <2>2, <2>5, <2>6, NothingStartsSafe DEF Tracking
<1>. QED
  BY <1>1, <1>2

(* Forgetting a handle leaves the others as they are.                        *)
LEMMA ForgetTracking ==
    ASSUME TypeOK, ProcInv, NEW n \in Names, Forget(n), UNCHANGED <<proc, child>>
    PROVE  Tracking'
  BY DEF ProcInv, Tracking, ChildTracked, ChildName, HandleOK, Alive, Forget, TypeOK

(* EnsureInstance.  A disabled row and a failed start kill all that runs for *)
(* the instance and leave an empty handle; a start adds one process to what  *)
(* it has just killed; a keep adopts the only process there is.              *)
LEMMA EmptiedTracking ==
    ASSUME TypeInv, ProcInv, NEW n \in Names, NEW victims, FindPIDByConf(n) \subseteq victims,
           proc' = Killing(victims), UNCHANGED child, NEW conf,
           managed' = [managed EXCEPT ![n] = [conf |-> conf, pid |-> NoPid, cmd |-> NoPid]]
    PROVE  NothingStarts /\ Tracking' /\ FindPIDByConf(n)' = {}
<1>1. NothingStarts /\ FindPIDByConf(n)' = {}
  BY KillingStartsNothing DEF TypeInv, FindPIDByConf, Alive
<1>2. /\ managed'[n] = [conf |-> conf, pid |-> NoPid, cmd |-> NoPid]
      /\ \A m \in Names \ {n} : managed'[m] = managed[m]
  BY DEF TypeInv, TypeOK
<1>3. \A p \in Procs : Alive(p)' /\ child[p] # NoName => child[p] # n
  BY <1>1 DEF NothingStarts, ProcInv, Tracking, ChildName, FindPIDByConf, Alive
<1>4. ChildTracked'
  <2>. SUFFICES ASSUME NEW p \in Procs, Alive(p)', child[p] # NoName,
                       managed'[child[p]] # Unmanaged
                PROVE  managed'[child[p]].pid = p
    BY DEF ChildTracked
  <2>1. child[p] \in Names \ {n} /\ Alive(p)
    BY <1>1, <1>3 DEF TypeInv, TypeOK, NothingStarts
  <2>. QED
    BY <1>2, <2>1 DEF ProcInv, Tracking, ChildTracked
<1>5. HandleOK'
  BY <1>2 DEF ProcInv, Tracking, HandleOK
<1>. QED
  BY <1>1, <1>4, <1>5, NothingStartsSafe DEF Tracking

LEMMA KeepTracking ==
    ASSUME TypeInv, ProcInv, NEW n \in Names, EnsureKeep(n)
    PROVE  Tracking'
<1>1. /\ managed'[n] = [Refreshed(n) EXCEPT !.conf = rec.snap[n].conf]
      /\ \A m \in Names \ {n} : managed'[m] = managed[m]
      /\ UNCHANGED <<proc, child>>
  BY DEF EnsureKeep, TypeInv, TypeOK
<1>2. Refreshed(n) \in Entry
  BY RefreshedType DEF TypeInv
<1>3. managed'[n].pid = Refreshed(n).pid /\ managed'[n].cmd = Refreshed(n).cmd
  BY <1>1, <1>2 DEF Entry
<1>4. ASSUME NEW p \in Procs, Alive(p), child[p] = n
      PROVE  Refreshed(n).pid = p
  <2>0. child[p] # NoName
    BY <1>4, ConstantsAssumption
  <2>1. p \in FindPIDByConf(n)
    BY <1>4, <2>0 DEF FindPIDByConf, Alive, ProcInv, Tracking, ChildName
  <2>2. CASE managed[n] # Unmanaged
    <3>1. EntryOf(n).pid = p
      BY <1>4, <2>0, <2>2 DEF ProcInv, Tracking, ChildTracked, EntryOf
    <3>. QED
      BY <1>4, <3>1 DEF Refreshed
  <2>3. CASE managed[n] = Unmanaged
    <3>1. ~Alive(EntryOf(n).pid)
      BY <2>3, ConstantsAssumption DEF EntryOf, Alive
    <3>2. Refreshed(n).pid \in FindPIDByConf(n)
      BY <2>1, <3>1 DEF Refreshed
    <3>. QED
      BY <2>1, <3>2 DEF FindPIDByConf, Alive, ProcInv, AtMostOneProcess
  <2>. QED
    BY <2>2, <2>3
<1>5. ChildTracked'
  <2>. SUFFICES ASSUME NEW p \in Procs, Alive(p), child[p] # NoName,
                       managed'[child[p]] # Unmanaged
                PROVE  managed'[child[p]].pid = p
    BY <1>1 DEF ChildTracked, Alive
  <2>1. child[p] \in Names
    BY DEF TypeInv, TypeOK
  <2>. QED
    BY <1>1, <1>3, <1>4, <2>1 DEF ProcInv, Tracking, ChildTracked
<1>6. HandleOK'
  <2>1. Refreshed(n).cmd # NoPid => Refreshed(n).pid = Refreshed(n).cmd
    BY DEF Refreshed, EntryOf, ProcInv, Tracking, HandleOK
  <2>. QED
    BY <1>1, <1>3, <2>1 DEF ProcInv, Tracking, HandleOK
<1>7. ChildName'
  BY <1>1 DEF ProcInv, Tracking, ChildName, Alive
<1>. QED
  BY <1>5, <1>6, <1>7 DEF Tracking

LEMMA SpawnTracking ==
    ASSUME TypeInv, ProcInv, NEW n \in Names, NEW q \in Procs, Applying(n), Fresh(q),
           NEW outcome, Spawn(n, q, outcome)
    PROVE  /\ Tracking' /\ AtMostOneProcess'
           /\ \A m \in Names \ {n} : FindPIDByConf(m)' \subseteq FindPIDByConf(m)
<1>. DEFINE new == [name |-> n, conf |-> rec.snap[n].conf, ready |-> outcome = "ready"]
<1>1. /\ proc'[q] \in {Free, new}
      /\ \A p \in Procs \ {q} : proc'[p] = IF p \in Replaced(n) THEN Free ELSE proc[p]
  BY DEF Spawn, Killing
<1>2. \A p \in Procs \ {q} : Alive(p)' => Alive(p) /\ proc'[p] = proc[p] /\ proc[p].name # n
  BY <1>1 DEF Replaced, FindPIDByConf, Alive
<1>3. new.name = n
  OBVIOUS
<1>. HIDE DEF new
<1>4. /\ child'[q] = n
      /\ \A p \in Procs \ {q} : child'[p] = child[p]
      /\ managed'[n] = [conf |-> rec.snap[n].conf, pid |-> q, cmd |-> q]
      /\ \A m \in Names \ {n} : managed'[m] = managed[m]
  BY DEF Spawn, TypeInv, TypeOK
<1>5. AtMostOneProcess'
  <2>. SUFFICES ASSUME NEW p \in Procs, NEW r \in Procs, Alive(p)', Alive(r)',
                       proc'[p].name = proc'[r].name
                PROVE  p = r
    BY DEF AtMostOneProcess
  <2>. QED
    BY <1>1, <1>2, <1>3 DEF Alive, ProcInv, AtMostOneProcess
<1>6. ChildName'
  BY <1>1, <1>2, <1>3, <1>4 DEF ChildName, Alive, ProcInv, Tracking
<1>7. ChildTracked'
  <2>. SUFFICES ASSUME NEW p \in Procs, Alive(p)', child'[p] # NoName,
                       managed'[child'[p]] # Unmanaged
                PROVE  managed'[child'[p]].pid = p
    BY DEF ChildTracked
  <2>1. CASE p = q
    BY <1>4, <2>1
  <2>2. CASE p # q
    <3>1. Alive(p) /\ child'[p] = child[p] /\ child[p] # n
      BY <1>2, <1>4, <2>2 DEF ProcInv, Tracking, ChildName
    <3>2. child[p] \in Names \ {n}
      BY <3>1 DEF TypeInv, TypeOK
    <3>. QED
      BY <1>4, <3>1, <3>2 DEF ProcInv, Tracking, ChildTracked
  <2>. QED
    BY <2>1, <2>2
<1>8. HandleOK'
  BY <1>4 DEF ProcInv, Tracking, HandleOK
<1>9. \A m \in Names \ {n} : FindPIDByConf(m)' \subseteq FindPIDByConf(m)
  BY <1>1, <1>2, <1>3 DEF FindPIDByConf, Alive
<1>. QED
  BY <1>5, <1>6, <1>7, <1>8, <1>9 DEF Tracking

(* DisabledStaysDown over a step that takes n off the list.                  *)
LEMMA ApplyDisabled ==
    ASSUME TypeInv, ProcInv, NEW n \in Names, Applying(n), NEW ok \in BOOLEAN, Ensured(n, ok),
           rec.snap[n].enabled \/ FindPIDByConf(n)' = {},
           \A m \in Names \ {n} : FindPIDByConf(m)' \subseteq FindPIDByConf(m)
    PROVE  DisabledStaysDown'
<1>1. /\ rec'.snap = rec.snap /\ rec'.skipped = rec.skipped /\ rec'.phase = rec.phase
      /\ rec'.todo = rec.todo \ {n}
  BY EnsuredType DEF TypeInv
<1>. SUFFICES ASSUME NEW m \in Names \ rec.skipped, rec.phase # "idle",
                     m \notin rec.todo \ {n}, rec.snap[m] # NoRow, ~rec.snap[m].enabled
              PROVE  FindPIDByConf(m)' = {}
  BY <1>1 DEF DisabledStaysDown, StopsDisabled
<1>2. CASE m = n
  BY <1>2
<1>3. CASE m # n
  <2>1. FindPIDByConf(m) = {}
    BY <1>3 DEF ProcInv, DisabledStaysDown, StopsDisabled
  <2>. QED
    BY <1>3, <2>1
<1>. QED
  BY <1>2, <1>3

LEMMA EnsureProcInv ==
    ASSUME TypeInv, ProcInv, NEW n \in Names
    PROVE  /\ EnsureDisabled(n) => ProcInv'
           /\ EnsureKeep(n) => ProcInv'
           /\ EnsureStartFails(n) => ProcInv'
           /\ \A q \in Procs :
                 EnsureStart(n, q) \/ EnsureStartSlow(n, q) \/ EnsureStartExits(n, q)
                     => ProcInv'
<1>1. CASE EnsureDisabled(n)
  <2>1. NothingStarts /\ Tracking' /\ FindPIDByConf(n)' = {}
    BY <1>1, EmptiedTracking DEF EnsureDisabled, DisabledVictims
  <2>2. AtMostOneProcess' /\ \A m : FindPIDByConf(m)' \subseteq FindPIDByConf(m)
    BY <2>1, NothingStartsSafe
  <2>3. DisabledStaysDown'
    BY <1>1, <2>1, <2>2, ApplyDisabled DEF EnsureDisabled
  <2>. QED
    BY <2>1, <2>2, <2>3 DEF ProcInv
<1>2. CASE EnsureKeep(n)
  <2>1. NothingStarts
    BY <1>2 DEF EnsureKeep, NothingStarts, Alive
  <2>2. AtMostOneProcess' /\ \A m : FindPIDByConf(m)' \subseteq FindPIDByConf(m)
    BY <2>1, NothingStartsSafe
  <2>3. DisabledStaysDown'
    BY <1>2, <2>2, ApplyDisabled DEF EnsureKeep
  <2>. QED
    BY <1>2, <2>2, <2>3, KeepTracking DEF ProcInv
<1>3. CASE EnsureStartFails(n)
  <2>1. NothingStarts /\ Tracking' /\ FindPIDByConf(n)' = {}
    BY <1>3, EmptiedTracking DEF EnsureStartFails, Replaced
  <2>2. AtMostOneProcess' /\ \A m : FindPIDByConf(m)' \subseteq FindPIDByConf(m)
    BY <2>1, NothingStartsSafe
  <2>3. DisabledStaysDown'
    BY <1>3, <2>1, <2>2, ApplyDisabled DEF EnsureStartFails, Starting
  <2>. QED
    BY <2>1, <2>2, <2>3 DEF ProcInv
<1>4. ASSUME NEW q \in Procs,
             EnsureStart(n, q) \/ EnsureStartSlow(n, q) \/ EnsureStartExits(n, q)
      PROVE  ProcInv'
  <2>. PICK outcome \in {"ready", "slow", "exited"} : Spawn(n, q, outcome)
    BY <1>4 DEF EnsureStart, EnsureStartSlow, EnsureStartExits
  <2>1. Applying(n) /\ rec.snap[n].enabled /\ Fresh(q)
    BY <1>4 DEF EnsureStart, EnsureStartSlow, EnsureStartExits, Starting
  <2>2. /\ Tracking' /\ AtMostOneProcess'
        /\ \A m \in Names \ {n} : FindPIDByConf(m)' \subseteq FindPIDByConf(m)
    BY <2>1, SpawnTracking
  <2>3. Ensured(n, outcome = "ready")
    BY DEF Spawn
  <2>4. DisabledStaysDown'
    BY <2>1, <2>2, <2>3, ApplyDisabled
  <2>. QED
    BY <2>2, <2>4 DEF ProcInv
<1>. QED
  BY <1>1, <1>2, <1>3, <1>4

(* The other steps of a run only kill, or move on.                           *)
LEMMA ReconcilerProcInv ==
    ASSUME TypeInv, ProcInv, ReconcilerStep
    PROVE  ProcInv'
<1>. USE DEF backendVars
<1>1. ASSUME UNCHANGED <<proc, managed, child>>
      PROVE  AtMostOneProcess' /\ Tracking' /\ \A n : FindPIDByConf(n)' = FindPIDByConf(n)
  BY <1>1 DEF ProcInv, AtMostOneProcess, Tracking, ChildTracked, ChildName, HandleOK,
              FindPIDByConf, Alive
<1>2. ASSUME NEW n \in Names, Observe(n) PROVE ProcInv'
  BY <1>1, <1>2 DEF Observe, ProcInv, DisabledStaysDown, StopsDisabled, TypeInv, TypeOK, Run
<1>3. CASE ListLive
  BY <1>1, <1>3 DEF ListLive, ProcInv, DisabledStaysDown, StopsDisabled, TypeInv, TypeOK, Run
<1>4. CASE RecEnd
  BY <1>1, <1>4 DEF RecEnd, NoRun, ProcInv, DisabledStaysDown, StopsDisabled
<1>5. ASSUME NEW n \in Names, SweepStop(n) PROVE ProcInv'
  <2>1. NothingStarts /\ Tracking'
    BY <1>5, StopInstanceTracking DEF SweepStop, TypeInv
  <2>2. AtMostOneProcess' /\ \A m : FindPIDByConf(m)' \subseteq FindPIDByConf(m)
    BY <2>1, NothingStartsSafe
  <2>3. /\ rec'.snap = rec.snap /\ rec'.todo = rec.todo /\ rec'.skipped = rec.skipped
        /\ rec.phase # "idle"
    BY <1>5 DEF SweepStop, TypeInv, TypeOK, Run
  <2>4. DisabledStaysDown'
    BY <2>2, <2>3 DEF ProcInv, DisabledStaysDown, StopsDisabled
  <2>. QED
    BY <2>1, <2>2, <2>4 DEF ProcInv
<1>6. ASSUME NEW n \in Names, SweepForget(n) PROVE ProcInv'
  <2>1. Tracking'
    BY <1>6, ForgetTracking DEF SweepForget, TypeInv
  <2>2. NothingStarts
    BY <1>6 DEF SweepForget, NothingStarts, Alive
  <2>3. AtMostOneProcess' /\ \A m : FindPIDByConf(m)' \subseteq FindPIDByConf(m)
    BY <2>2, NothingStartsSafe
  <2>4. /\ rec'.snap = rec.snap /\ rec'.todo = rec.todo \ {n} /\ rec'.skipped = rec.skipped
        /\ rec.phase # "idle" /\ rec.snap[n] = NoRow
    BY <1>6 DEF SweepForget, TypeInv, TypeOK, Run, RunOK
  <2>5. DisabledStaysDown'
    BY <2>3, <2>4 DEF ProcInv, DisabledStaysDown, StopsDisabled
  <2>. QED
    BY <2>1, <2>3, <2>5 DEF ProcInv
<1>. QED
  BY <1>2, <1>3, <1>4, <1>5, <1>6, EnsureProcInv DEF ReconcilerStep

(* Steps outside the run.                                                    *)
LEMMA FrameProcInv ==
    ASSUME ProcInv, UNCHANGED <<proc, managed, child, rec>>
    PROVE  ProcInv'
  BY DEF ProcInv, AtMostOneProcess, Tracking, ChildTracked, ChildName, HandleOK,
         DisabledStaysDown, StopsDisabled, FindPIDByConf, Alive

LEMMA StopProcInv ==
    ASSUME TypeInv, ProcInv, NEW n \in Names, StopInstance(n), UNCHANGED <<child, rec>>
    PROVE  ProcInv'
  BY StopInstanceTracking, NothingStartsSafe DEF TypeInv, ProcInv

LEMMA RecBeginProcInv ==
    ASSUME TypeInv, ProcInv, NEW o, RecBegin(o)
    PROVE  ProcInv'
<1>1. /\ rec'.todo = {n \in Names : row[n] # NoRow} /\ rec'.snap = row
      /\ UNCHANGED <<proc, managed, child>>
  BY DEF RecBegin, backendVars
<1>2. DisabledStaysDown'
  BY <1>1 DEF DisabledStaysDown, StopsDisabled
<1>3. AtMostOneProcess' /\ Tracking'
  BY <1>1 DEF ProcInv, AtMostOneProcess, Tracking, ChildTracked, ChildName, HandleOK, Alive
<1>. QED
  BY <1>2, <1>3 DEF ProcInv

LEMMA HandlerProcInv ==
    ASSUME TypeInv, ProcInv, NEW h \in Requests, HandlerStep(h) \/ Serve(h)
    PROVE  ProcInv'
<1>. USE DEF backendVars
<1>1. CASE RestartStop(h)
  <2>1. call[h].name \in Names
    BY <1>1 DEF RestartStop, At, TypeInv, CallOK
  <2>. QED
    BY <1>1, <2>1, StopProcInv DEF RestartStop
<1>2. ASSUME NEW n \in Names, DeleteStop(h, n) PROVE ProcInv'
  BY <1>2, StopProcInv DEF DeleteStop
<1>3. CASE DeleteForget(h)
  <2>1. call[h].name \in Names
    BY <1>3 DEF DeleteForget, At, TypeInv, CallOK
  <2>2. Tracking'
    BY <1>3, <2>1, ForgetTracking DEF DeleteForget, TypeInv
  <2>3. NothingStarts
    BY <1>3 DEF DeleteForget, NothingStarts, Alive
  <2>. QED
    BY <1>3, <2>2, <2>3, NothingStartsSafe DEF DeleteForget, ProcInv
<1>4. CASE RecBegin(h)
  BY <1>4, RecBeginProcInv
<1>5. ASSUME UNCHANGED <<proc, managed, child, rec>> PROVE ProcInv'
  BY <1>5, FrameProcInv
<1>6. ASSUME NEW conf \in Confs, CreateIssue(h, conf) PROVE ProcInv'
  BY <1>5, <1>6 DEF CreateIssue
<1>7. CASE UpdateWrite(h) \/ RestartWrite(h) \/ RestartEnable(h) \/ DeleteRow(h)
           \/ Reconcile(h) \/ Cancel(h)
  BY <1>5, <1>7 DEF UpdateWrite, RestartWrite, RestartEnable, DeleteRow, Reconcile, Cancel
<1>8. ASSUME NEW n \in Names, NEW new \in Row, NEW op,
             Create(h, n, new) \/ UpdateRead(h, n, op, new) \/ SetEnabled(h, op, n)
                \/ RestartRead(h, n)
      PROVE  ProcInv'
  BY <1>5, <1>8 DEF Create, UpdateRead, SetEnabled, RestartRead
<1>. QED
  <2>1. CASE HandlerStep(h)
    BY <1>1, <1>3, <1>4, <1>6, <1>7, <2>1 DEF HandlerStep
  <2>2. CASE Serve(h)
    <3>1. CASE \E n \in Names, op \in {"up", "down"} : SetEnabled(h, op, n)
      <4>. PICK n \in Names, op \in {"up", "down"} : SetEnabled(h, op, n)
        BY <3>1
      <4>. QED
        BY <1>5 DEF SetEnabled
    <3>2. CASE \E n \in Names : RestartRead(h, n) \/ DeleteStop(h, n)
      BY <1>2, <1>5, <3>2 DEF RestartRead
    <3>3. CASE Reconcile(h) \/ Cancel(h)
      BY <1>7, <3>3
    <3>4. CASE \E n \in Names, new \in Row :
                  Create(h, n, new) \/ \E op \in {"update", "enable"} : UpdateRead(h, n, op, new)
      BY <1>5, <3>4 DEF Create, UpdateRead
    <3>. QED
      BY <2>2, <3>1, <3>2, <3>3, <3>4 DEF Serve
  <2>. QED
    BY <2>1, <2>2

(* A reaper only clears the handle of the process it has waited for.         *)
LEMMA ReapProcInv ==
    ASSUME TypeInv, ProcInv, NEW p \in Procs, Reap(p)
    PROVE  ProcInv'
<1>1. /\ managed' = Reaped(p) /\ proc[p] = Free /\ child[p] \in Names
      /\ child' = [child EXCEPT ![p] = NoName] /\ UNCHANGED <<proc, rec>>
  BY DEF Reap, TypeInv, TypeOK
<1>2. \A n \in Names :
          \/ managed'[n] = managed[n]
          \/ /\ managed[n] # Unmanaged /\ managed[n].pid = p
             /\ managed'[n].pid = NoPid /\ managed'[n].cmd = NoPid
  <2>. SUFFICES ASSUME NEW n \in Names, managed[n] # Unmanaged, managed[n].cmd = p
                PROVE  /\ managed[n].pid = p
                       /\ [managed[n] EXCEPT !.pid = NoPid, !.cmd = NoPid].pid = NoPid
                       /\ [managed[n] EXCEPT !.pid = NoPid, !.cmd = NoPid].cmd = NoPid
    BY <1>1 DEF Reaped
  <2>1. managed[n] \in Entry
    BY DEF TypeInv, TypeOK
  <2>2. managed[n].pid = p
    BY ConstantsAssumption DEF ProcInv, Tracking, HandleOK
  <2>. QED
    BY <2>1, <2>2 DEF Entry
<1>3. ChildTracked'
  <2>. SUFFICES ASSUME NEW r \in Procs, Alive(r), child'[r] # NoName,
                       managed'[child'[r]] # Unmanaged
                PROVE  managed'[child'[r]].pid = r
    BY <1>1 DEF ChildTracked, Alive
  <2>1. r # p /\ child'[r] = child[r] /\ child[r] \in Names
    BY <1>1 DEF Alive, TypeInv, TypeOK
  <2>2. managed[child[r]] # Unmanaged
    BY <1>1, <2>1 DEF Reaped
  <2>3. managed[child[r]].pid = r
    BY <2>1, <2>2 DEF ProcInv, Tracking, ChildTracked
  <2>. QED
    BY <1>2, <2>1, <2>3
<1>4. HandleOK' /\ ChildName'
  BY <1>1, <1>2 DEF ProcInv, Tracking, HandleOK, ChildName, Alive, TypeInv, TypeOK
<1>5. AtMostOneProcess' /\ DisabledStaysDown'
  BY <1>1 DEF ProcInv, AtMostOneProcess, DisabledStaysDown, StopsDisabled, FindPIDByConf, Alive
<1>. QED
  BY <1>3, <1>4, <1>5 DEF ProcInv, Tracking

LEMMA DisturbProcInv ==
    ASSUME TypeInv, ProcInv, Disturb
    PROVE  ProcInv'
<1>. USE DEF backendVars
<1>1. ASSUME NEW p \in Procs, BecomeReady(p) \/ Hang(p) \/ Exit(p) PROVE ProcInv'
  <2>1. NothingStarts /\ UNCHANGED <<managed, child, rec>>
    BY <1>1 DEF BecomeReady, Hang, Exit, NothingStarts, Alive, TypeInv, TypeOK, Process
  <2>2. ChildTracked' /\ HandleOK'
    BY <2>1 DEF ProcInv, Tracking, ChildTracked, HandleOK, NothingStarts
  <2>. QED
    BY <2>1, <2>2, NothingStartsSafe DEF ProcInv, Tracking
<1>2. ASSUME NEW n \in Names, Break(n) \/ Repair(n) PROVE ProcInv'
  BY <1>2, FrameProcInv DEF Break, Repair
<1>3. ASSUME NEW n \in Names, SkipInstance(n) PROVE ProcInv'
  <2>1. /\ rec'.snap = rec.snap /\ rec'.todo = rec.todo \ {n}
        /\ rec'.skipped = rec.skipped \cup {n} /\ rec'.phase = rec.phase
        /\ UNCHANGED <<proc, managed, child>>
    BY <1>3 DEF SkipInstance, TypeInv, TypeOK, Run
  <2>2. DisabledStaysDown'
    BY <2>1 DEF ProcInv, DisabledStaysDown, StopsDisabled, FindPIDByConf
  <2>. QED
    BY <2>1, <2>2 DEF ProcInv, AtMostOneProcess, Tracking, ChildTracked, ChildName, HandleOK, Alive
<1>4. CASE Crash
  <2>1. \A p \in Procs : child'[p] = NoName
    BY <1>4 DEF Crash
  <2>2. \A n \in Names : managed'[n] = Unmanaged
    BY <1>4 DEF Crash
  <2>3. Tracking'
    BY <2>1, <2>2 DEF Tracking, ChildTracked, ChildName, HandleOK
  <2>. QED
    BY <1>4, <2>3 DEF Crash, NoRun, ProcInv, AtMostOneProcess, Alive, DisabledStaysDown,
                      StopsDisabled
<1>. QED
  BY <1>1, <1>2, <1>3, <1>4, EnsureProcInv DEF Disturb

LEMMA NextProcInv == TypeInv /\ ProcInv /\ [Next]_vars => ProcInv'
<1>1. ASSUME TypeInv, ProcInv, UNCHANGED vars PROVE ProcInv'
  BY <1>1, FrameProcInv DEF vars, backendVars
<1>. QED
  BY <1>1, RecBeginProcInv, ReconcilerProcInv, HandlerProcInv, ReapProcInv, DisturbProcInv
  DEF Next

LEMMA Invariance == Spec => [](TypeInv /\ ProcInv)
  BY InitTypeInv, InitProcInv, NextTypeInv, NextProcInv, PTL DEF Spec

(* At most one OpenVPN process ever runs for an instance: whatever calls     *)
(* interleave with reconciles, whichever processes hang or exit, and however *)
(* often the daemon crashes and leaves them behind.                          *)
THEOREM OneProcess == Spec => []AtMostOneProcess
<1>1. ProcInv => AtMostOneProcess
  BY DEF ProcInv
<1>. QED
  BY <1>1, Invariance, PTL

(* The daemon never loses a live child to the reaper of an older one.        *)
THEOREM ChildrenTracked == Spec => []ChildTracked
<1>1. ProcInv => ChildTracked
  BY DEF ProcInv, Tracking
<1>. QED
  BY <1>1, Invariance, PTL

(* A reconcile that has applied a disabled row leaves nothing running for it,*)
(* including what an earlier daemon started.                                 *)
THEOREM DisabledIsDown == Spec => []DisabledStaysDown
<1>1. ProcInv => DisabledStaysDown
  BY DEF ProcInv
<1>. QED
  BY <1>1, Invariance, PTL

------------------------------------------------------------------------------
(***************************************************************************)
(* Configurations.  EnsureInstance decides by what the handle says, and    *)
(* the process runs what it was started with.  The two agree as long as    *)
(* the daemon does not crash and no handle is removed while the reconciler *)
(* starts a process: then an adopted process is one the handle never knew. *)
(***************************************************************************)
NothingIsForgotten == MaxCrashes = 0 /\ "delete" \notin Ops

(* A live process a handle tracks belongs to the instance of that handle.    *)
TracksOwn ==
    \A n \in Names :
        managed[n] # Unmanaged /\ Alive(managed[n].pid) => proc[managed[n].pid].name = n

Remembers ==
    \A n \in Names : \A p \in FindPIDByConf(n) :
        managed[n] # Unmanaged /\ managed[n].conf = proc[p].conf

(* What applyInstance has just applied is what the handle has.               *)
Applied ==
    rec.phase = "apply" /\ rec.at # NoName
        => managed[rec.at] # Unmanaged /\ managed[rec.at].conf = rec.snap[rec.at].conf

Swept == rec.phase = "forget" => FindPIDByConf(rec.at) = {}

NoneDeletes == \A h \in Requests : call[h].pc # "forget"

ConfInv == Remembers /\ Applied /\ Swept /\ NoneDeletes

LEMMA InitConfInv == Init => TracksOwn /\ ConfInv
  BY DEF Init, TracksOwn, ConfInv, Remembers, Applied, Swept, NoneDeletes, FindPIDByConf,
         NoRun, Idle

(* Steps that start no process, change no configuration and forget nothing.  *)
Quiet ==
    /\ \A p \in Procs : Alive(p)' => /\ Alive(p)
                                     /\ proc'[p].name = proc[p].name
                                     /\ proc'[p].conf = proc[p].conf
    /\ \A n \in Names :
          IF managed[n] = Unmanaged THEN managed'[n] = Unmanaged
          ELSE /\ managed'[n] # Unmanaged
               /\ managed'[n].conf = managed[n].conf
               /\ managed'[n].pid \in {NoPid, managed[n].pid}

(* They keep what handles say of their own processes.                        *)
LEMMA QuietKeepsConfs ==
    ASSUME Quiet
    PROVE  /\ TracksOwn => TracksOwn'
           /\ Remembers => Remembers'
           /\ \A n : FindPIDByConf(n)' \subseteq FindPIDByConf(n)
<1>1. TracksOwn => TracksOwn'
  BY ConstantsAssumption DEF Quiet, TracksOwn, Alive
<1>2. \A n : FindPIDByConf(n)' \subseteq FindPIDByConf(n)
  BY DEF Quiet, FindPIDByConf, Alive
<1>3. Remembers => Remembers'
  BY <1>2 DEF Quiet, Remembers, FindPIDByConf, Alive
<1>. QED
  BY <1>1, <1>2, <1>3

(* ConfInv over such a step outside the run.                                 *)
LEMMA QuietStep ==
    ASSUME Quiet, TypeInv, UNCHANGED rec, ConfInv, NoneDeletes'
    PROVE  ConfInv'
<1>1. Remembers' /\ Swept'
  BY QuietKeepsConfs DEF ConfInv, Swept
<1>2. Applied'
  BY DEF ConfInv, Applied, Quiet, TypeInv, TypeOK, Run
<1>. QED
  BY <1>1, <1>2 DEF ConfInv

(* Stopping, reaping and what a process does by itself are such steps.       *)
LEMMA StopIsQuiet ==
    ASSUME TypeInv, NEW n \in Names, StopInstance(n)
    PROVE  Quiet
<1>1. \A p \in Procs : proc'[p] \in {Free, proc[p]}
  BY DEF StopInstance, Killing
<1>2. CASE managed[n] = Unmanaged
  BY <1>1, <1>2 DEF StopInstance, Quiet, Alive
<1>3. CASE managed[n] # Unmanaged
  <2>1. managed \in [Names -> {Unmanaged} \cup Entry] /\ managed[n] \in Entry
    BY <1>3 DEF TypeInv, TypeOK
  <2>. DEFINE e == [[managed[n] EXCEPT !.pid = NoPid] EXCEPT !.cmd = NoPid]
  <2>2. e \in Entry /\ e.conf = managed[n].conf /\ e.pid = NoPid
    BY <2>1 DEF Entry
  <2>3. managed' = [managed EXCEPT ![n] = e]
    BY <1>3, <2>1 DEF StopInstance
  <2>. HIDE DEF e
  <2>4. /\ managed'[n] = e /\ e # Unmanaged
        /\ \A m \in Names \ {n} : managed'[m] = managed[m]
    BY <2>1, <2>2, <2>3, SentinelAssumption
  <2>. QED
    BY <1>1, <1>3, <2>2, <2>4 DEF Quiet, Alive
<1>. QED
  BY <1>2, <1>3

LEMMA ReapIsQuiet ==
    ASSUME TypeInv, NEW p \in Procs, Reap(p)
    PROVE  Quiet
<1>1. ASSUME NEW n \in Names, managed[n] # Unmanaged
      PROVE  /\ managed'[n] # Unmanaged /\ managed'[n].conf = managed[n].conf
             /\ managed'[n].pid \in {NoPid, managed[n].pid}
  <2>1. managed[n] \in Entry
    BY <1>1 DEF TypeInv, TypeOK
  <2>. DEFINE e == [managed[n] EXCEPT !.pid = NoPid, !.cmd = NoPid]
  <2>2. e \in Entry /\ e.conf = managed[n].conf /\ e.pid = NoPid
    BY <2>1 DEF Entry
  <2>3. managed'[n] \in {managed[n], e}
    BY <1>1 DEF Reap, Reaped
  <2>. QED
    BY <1>1, <2>2, <2>3, SentinelAssumption
<1>2. \A n \in Names : managed[n] = Unmanaged => managed'[n] = Unmanaged
  BY DEF Reap, Reaped
<1>3. \A r \in Procs : Alive(r)' => /\ Alive(r) /\ proc'[r].name = proc[r].name
                                    /\ proc'[r].conf = proc[r].conf
  BY DEF Reap, Alive
<1>. QED
  BY <1>1, <1>2, <1>3 DEF Quiet

LEMMA ProcessIsQuiet ==
    ASSUME TypeInv, NEW p \in Procs, BecomeReady(p) \/ Hang(p) \/ Exit(p)
    PROVE  Quiet
<1>1. proc[p] \in Process /\ proc \in [Procs -> {Free} \cup Process] /\ UNCHANGED managed
  BY DEF BecomeReady, Hang, Exit, Alive, TypeInv, TypeOK, backendVars
<1>2. \A r \in Procs : Alive(r)' => /\ Alive(r) /\ proc'[r].name = proc[r].name
                                    /\ proc'[r].conf = proc[r].conf
  BY <1>1 DEF BecomeReady, Hang, Exit, Alive, Process
<1>. QED
  BY <1>1, <1>2 DEF Quiet

(* EnsureInstance: afterwards the handle of n has the configuration to       *)
(* apply, and so has what runs for n; the other instances are left alone.    *)
Settles(n) ==
    /\ managed'[n] # Unmanaged /\ managed'[n].conf = rec.snap[n].conf
    /\ \A p \in Procs : Alive(p)' =>
          IF proc'[p].name = n THEN proc'[p].conf = rec.snap[n].conf
          ELSE Alive(p) /\ proc'[p] = proc[p]
    /\ \A m \in Names \ {n} : managed'[m] = managed[m]

(* That keeps ConfInv, whichever way EnsureInstance ends.                    *)
LEMMA SettlesConfInv ==
    ASSUME TypeInv, ConfInv, NEW n \in Names, Applying(n), NEW ok \in BOOLEAN, Ensured(n, ok),
           Settles(n), UNCHANGED call
    PROVE  ConfInv'
<1>1. /\ rec'.phase = rec.phase /\ rec'.snap = rec.snap
      /\ rec'.at = IF ok THEN n ELSE NoName
  BY EnsuredType DEF TypeInv
<1>2. rec.phase = "apply"
  BY DEF Applying
<1>3. Remembers'
  <2>. SUFFICES ASSUME NEW m \in Names, NEW p \in FindPIDByConf(m)'
                PROVE  managed'[m] # Unmanaged /\ managed'[m].conf = proc'[p].conf
    BY DEF Remembers
  <2>1. p \in Procs /\ Alive(p)' /\ proc'[p].name = m
    BY DEF FindPIDByConf, Alive
  <2>2. CASE m = n
    BY <2>1, <2>2 DEF Settles
  <2>3. CASE m # n
    <3>1. Alive(p) /\ proc'[p] = proc[p] /\ managed'[m] = managed[m]
      BY <2>1, <2>3 DEF Settles
    <3>2. p \in FindPIDByConf(m)
      BY <2>1, <3>1 DEF FindPIDByConf, Alive
    <3>. QED
      BY <3>1, <3>2 DEF ConfInv, Remembers
  <2>. QED
    BY <2>2, <2>3
<1>4. Applied'
  BY <1>1 DEF Applied, Settles
<1>. QED
  BY <1>1, <1>2, <1>3, <1>4 DEF ConfInv, Swept, NoneDeletes

(* A disabled row and a failed start leave nothing running.                  *)
LEMMA EmptiedSettles ==
    ASSUME TypeInv, NEW n \in Names, Applying(n), NEW victims, FindPIDByConf(n) \subseteq victims,
           proc' = Killing(victims),
           managed' = [managed EXCEPT ![n] =
                          [conf |-> rec.snap[n].conf, pid |-> NoPid, cmd |-> NoPid]]
    PROVE  Settles(n) /\ (TracksOwn => TracksOwn')
<1>1. /\ managed'[n] = [conf |-> rec.snap[n].conf, pid |-> NoPid, cmd |-> NoPid]
      /\ \A m \in Names \ {n} : managed'[m] = managed[m]
  BY DEF TypeInv, TypeOK
<1>2. managed'[n] # Unmanaged
  <2>1. [conf |-> rec.snap[n].conf, pid |-> NoPid, cmd |-> NoPid] \in Entry
    BY SnapType DEF Entry
  <2>. QED
    BY <1>1, <2>1, SentinelAssumption
<1>3. \A p \in Procs : Alive(p)' => Alive(p) /\ proc'[p] = proc[p] /\ proc[p].name # n
  BY DEF Killing, Alive, FindPIDByConf
<1>4. TracksOwn => TracksOwn'
  BY <1>1, <1>3, ConstantsAssumption DEF TracksOwn, Alive
<1>. QED
  BY <1>1, <1>2, <1>3, <1>4 DEF Settles

(* A start replaces what it has killed by a process of its own.              *)
LEMMA SpawnSettles ==
    ASSUME TypeInv, NEW n \in Names, NEW q \in Procs, Applying(n), Fresh(q),
           NEW outcome, Spawn(n, q, outcome)
    PROVE  Settles(n) /\ (TracksOwn => TracksOwn')
<1>. DEFINE new == [name |-> n, conf |-> rec.snap[n].conf, ready |-> outcome = "ready"]
<1>1. /\ proc'[q] \in {Free, new}
      /\ \A p \in Procs \ {q} : proc'[p] = IF p \in Replaced(n) THEN Free ELSE proc[p]
  BY DEF Spawn, Killing
<1>2. new.name = n /\ new.conf = rec.snap[n].conf
  OBVIOUS
<1>. HIDE DEF new
<1>3. \A p \in Procs \ {q} : Alive(p)' => Alive(p) /\ proc'[p] = proc[p] /\ proc[p].name # n
  BY <1>1 DEF Replaced, FindPIDByConf, Alive
<1>4. /\ managed'[n] = [conf |-> rec.snap[n].conf, pid |-> q, cmd |-> q]
      /\ \A m \in Names \ {n} : managed'[m] = managed[m]
  BY DEF Spawn, TypeInv, TypeOK
<1>5. managed'[n] # Unmanaged
  <2>1. [conf |-> rec.snap[n].conf, pid |-> q, cmd |-> q] \in Entry
    BY SnapType DEF Entry
  <2>. QED
    BY <1>4, <2>1, SentinelAssumption
<1>6. Settles(n)
  BY <1>1, <1>2, <1>3, <1>4, <1>5 DEF Settles, Alive
<1>7. ASSUME TracksOwn, NEW m \in Names, managed'[m] # Unmanaged,
             managed'[m].pid \in Procs, proc'[managed'[m].pid] # Free
      PROVE  proc'[managed'[m].pid].name = m
  <2>1. CASE m = n
    BY <1>1, <1>2, <1>4, <1>7, <2>1 DEF Alive
  <2>2. CASE m # n
    <3>1. managed'[m] = managed[m] /\ managed[m].pid \in Procs \ {q}
      BY <1>4, <1>7, <2>2 DEF Fresh, Alive
    <3>. QED
      BY <1>3, <1>7, <3>1 DEF TracksOwn, Alive
  <2>. QED
    BY <2>1, <2>2
<1>. QED
  BY <1>6, <1>7 DEF TracksOwn, Alive

(* A keep changes no process; that what it keeps runs the configuration to   *)
(* apply is what the handle says, and so it needs Remembers.                 *)
LEMMA KeepSettles ==
    ASSUME TypeInv, NEW n \in Names, EnsureKeep(n)
    PROVE  /\ Remembers => Settles(n)
           /\ TracksOwn => TracksOwn'
<1>1. /\ managed'[n] = [Refreshed(n) EXCEPT !.conf = rec.snap[n].conf]
      /\ \A m \in Names \ {n} : managed'[m] = managed[m]
      /\ UNCHANGED proc
  BY DEF EnsureKeep, TypeInv, TypeOK
<1>2. Refreshed(n) \in Entry /\ rec.snap[n].conf \in Confs
  BY RefreshedType, SnapType DEF TypeInv, EnsureKeep
<1>3. /\ managed'[n] \in Entry /\ managed'[n] # Unmanaged
      /\ managed'[n].conf = rec.snap[n].conf /\ managed'[n].pid = Refreshed(n).pid
  BY <1>1, <1>2, SentinelAssumption DEF Entry
<1>4. ASSUME Remembers, NEW p \in FindPIDByConf(n)
      PROVE  proc[p].conf = rec.snap[n].conf
  <2>1. managed[n] # Unmanaged /\ managed[n].conf = proc[p].conf
    BY <1>4 DEF Remembers
  <2>2. proc[p].conf \in Confs
    BY <1>4 DEF FindPIDByConf, TypeInv, TypeOK, Process
  <2>3. Refreshed(n).conf = managed[n].conf
    BY <2>1 DEF Refreshed, EntryOf
  <2>. QED
    BY <2>1, <2>2, <2>3, ConstantsAssumption DEF EnsureKeep, Keepable, NeedRestart
<1>5. Remembers => Settles(n)
  BY <1>1, <1>3, <1>4 DEF Settles, FindPIDByConf, Alive
<1>6. Alive(Refreshed(n).pid) /\ TracksOwn => proc[Refreshed(n).pid].name = n
  <2>1. CASE Alive(EntryOf(n).pid)
    BY <2>1, ConstantsAssumption DEF Refreshed, EntryOf, TracksOwn, Alive
  <2>2. CASE ~Alive(EntryOf(n).pid)
    BY <2>2, ConstantsAssumption DEF Refreshed, FindPIDByConf, Alive
  <2>. QED
    BY <2>1, <2>2
<1>7. TracksOwn => TracksOwn'
  BY <1>1, <1>3, <1>6 DEF TracksOwn, Alive
<1>. QED
  BY <1>5, <1>7

(* The five ends of EnsureInstance.                                          *)
LEMMA EnsureConfs ==
    ASSUME TypeInv, NEW n \in Names,
           \/ EnsureDisabled(n) \/ EnsureKeep(n) \/ EnsureStartFails(n)
           \/ \E q \in Procs :
                 EnsureStart(n, q) \/ EnsureStartSlow(n, q) \/ EnsureStartExits(n, q)
    PROVE  /\ TracksOwn => TracksOwn'
           /\ ConfInv => ConfInv'
<1>1. CASE EnsureDisabled(n)
  <2>1. Settles(n) /\ (TracksOwn => TracksOwn')
    BY <1>1, EmptiedSettles DEF EnsureDisabled, DisabledVictims
  <2>. QED
    BY <1>1, <2>1, SettlesConfInv DEF EnsureDisabled
<1>2. CASE EnsureKeep(n)
  <2>1. (Remembers => Settles(n)) /\ (TracksOwn => TracksOwn')
    BY <1>2, KeepSettles
  <2>. QED
    BY <1>2, <2>1, SettlesConfInv DEF EnsureKeep, ConfInv
<1>3. CASE EnsureStartFails(n)
  <2>1. Settles(n) /\ (TracksOwn => TracksOwn')
    BY <1>3, EmptiedSettles DEF EnsureStartFails, Starting, Replaced
  <2>. QED
    BY <1>3, <2>1, SettlesConfInv DEF EnsureStartFails, Starting
<1>4. ASSUME NEW q \in Procs,
             EnsureStart(n, q) \/ EnsureStartSlow(n, q) \/ EnsureStartExits(n, q)
      PROVE  (TracksOwn => TracksOwn') /\ (ConfInv => ConfInv')
  <2>. PICK outcome \in {"ready", "slow", "exited"} : Spawn(n, q, outcome)
    BY <1>4 DEF EnsureStart, EnsureStartSlow, EnsureStartExits
  <2>1. Applying(n) /\ Fresh(q) /\ UNCHANGED call
    BY <1>4 DEF EnsureStart, EnsureStartSlow, EnsureStartExits, Starting
  <2>2. Settles(n) /\ (TracksOwn => TracksOwn')
    BY <2>1, SpawnSettles
  <2>3. Ensured(n, outcome = "ready")
    BY DEF Spawn
  <2>. QED
    BY <2>1, <2>2, <2>3, SettlesConfInv
<1>. QED
  BY <1>1, <1>2, <1>3, <1>4

(* The run of the reconciler: it forgets only what it has just stopped.      *)
LEMMA ReconcilerConfs ==
    ASSUME TypeInv, ReconcilerStep
    PROVE  /\ TracksOwn => TracksOwn'
           /\ ConfInv => ConfInv'
<1>. USE DEF backendVars
<1>1. ASSUME UNCHANGED <<proc, managed>> PROVE Quiet
  BY <1>1 DEF Quiet, Alive
<1>2. ASSUME NEW n \in Names, Observe(n)
      PROVE  (TracksOwn => TracksOwn') /\ (ConfInv => ConfInv')
  <2>1. Quiet /\ rec' = [rec EXCEPT !.at = NoName] /\ UNCHANGED call /\ rec.phase = "apply"
    BY <1>1, <1>2 DEF Observe
  <2>. QED
    BY <2>1, QuietKeepsConfs DEF ConfInv, Applied, Swept, NoneDeletes, TypeInv, TypeOK, Run
<1>3. CASE ListLive
  <2>1. /\ Quiet /\ UNCHANGED call /\ rec.phase = "apply"
        /\ rec'.phase = "stop"
    BY <1>1, <1>3 DEF ListLive, TypeInv, TypeOK, Run
  <2>. QED
    BY <2>1, QuietKeepsConfs DEF ConfInv, Applied, Swept, NoneDeletes
<1>4. CASE RecEnd
  <2>1. Quiet /\ rec' = NoRun
    BY <1>1, <1>4 DEF RecEnd
  <2>2. NoneDeletes => NoneDeletes'
    BY <1>4 DEF RecEnd, NoneDeletes, Idle, TypeInv, TypeOK
  <2>. QED
    BY <2>1, <2>2, QuietKeepsConfs DEF ConfInv, Applied, Swept, NoRun
<1>5. ASSUME NEW n \in Names, SweepStop(n)
      PROVE  (TracksOwn => TracksOwn') /\ (ConfInv => ConfInv')
  <2>1. Quiet
    BY <1>5, StopIsQuiet DEF SweepStop
  <2>2. rec'.phase = "forget" /\ rec'.at = n /\ UNCHANGED call
    BY <1>5 DEF SweepStop, TypeInv, TypeOK, Run
  <2>3. Remembers => FindPIDByConf(n)' = {}
    <3>. SUFFICES ASSUME Remembers, NEW p \in FindPIDByConf(n)' PROVE FALSE
      OBVIOUS
    <3>1. p \in FindPIDByConf(n) /\ p \in Procs /\ proc'[p] # Free
      BY <2>1, QuietKeepsConfs DEF FindPIDByConf
    <3>2. managed[n] # Unmanaged /\ managed[n].conf = proc[p].conf
      BY <3>1 DEF Remembers
    <3>3. proc[p].conf \in Confs
      BY <3>1 DEF FindPIDByConf, TypeInv, TypeOK, Process
    <3>4. p \in StopVictims(n)
      BY <3>1, <3>2, <3>3, ConstantsAssumption DEF StopVictims, EntryOf
    <3>. QED
      BY <1>5, <3>1, <3>2, <3>4 DEF SweepStop, StopInstance, Killing
  <2>. QED
    BY <2>1, <2>2, <2>3, QuietKeepsConfs DEF ConfInv, Applied, Swept, NoneDeletes
<1>6. ASSUME NEW n \in Names, SweepForget(n)
      PROVE  (TracksOwn => TracksOwn') /\ (ConfInv => ConfInv')
  <2>1. /\ managed'[n] = Unmanaged /\ \A m \in Names \ {n} : managed'[m] = managed[m]
        /\ UNCHANGED <<proc, call>> /\ rec'.phase = "stop" /\ rec.phase = "forget" /\ rec.at = n
    BY <1>6 DEF SweepForget, Forget, TypeInv, TypeOK, Run
  <2>2. TracksOwn => TracksOwn'
    BY <2>1 DEF TracksOwn, Alive
  <2>3. ConfInv => Remembers'
    BY <2>1 DEF ConfInv, Swept, Remembers, FindPIDByConf
  <2>. QED
    BY <2>1, <2>2, <2>3 DEF ConfInv, Applied, Swept, NoneDeletes
<1>. QED
  BY <1>2, <1>3, <1>4, <1>5, <1>6, EnsureConfs DEF ReconcilerStep

(* The handlers.  Without a delete none of them removes a handle.            *)
LEMMA NoneBeginsToDelete ==
    ASSUME TypeInv, NothingIsForgotten, NoneDeletes, NEW h \in Requests,
           HandlerStep(h) \/ Serve(h)
    PROVE  NoneDeletes'
<1>1. ASSUME NEW op, NEW pc \in PCs \ {"forget"}, NEW n, NEW copy,
             \/ Goto(h, op, pc, n, copy) \/ Advance(h, pc) \/ Finish(h)
             \/ UNCHANGED call
      PROVE  NoneDeletes'
  BY <1>1 DEF Goto, Advance, Finish, Idle, NoneDeletes, TypeInv, TypeOK, Call
<1>. USE <1>1 DEF PCs
<1>2. ASSUME NEW conf \in Confs, CreateIssue(h, conf) PROVE NoneDeletes'
  BY <1>2 DEF CreateIssue
<1>3. CASE UpdateWrite(h) \/ RestartStop(h) \/ RestartWrite(h) \/ RestartEnable(h)
  BY <1>3 DEF UpdateWrite, RestartStop, RestartWrite, RestartEnable
<1>4. CASE DeleteForget(h)
  BY <1>4 DEF DeleteForget, At, NoneDeletes
<1>5. CASE DeleteRow(h) \/ RecBegin(h) \/ Reconcile(h) \/ Cancel(h)
  BY <1>5 DEF DeleteRow, RecBegin, Reconcile, Cancel
<1>6. ASSUME NEW n \in Names, NEW new \in Row, Create(h, n, new) PROVE NoneDeletes'
  BY <1>6 DEF Create
<1>7. ASSUME NEW n \in Names, NEW new \in Row, NEW op \in {"update", "enable"},
             UpdateRead(h, n, op, new)
      PROVE  NoneDeletes'
  BY <1>7 DEF UpdateRead
<1>8. ASSUME NEW n \in Names, NEW op \in {"up", "down"}, SetEnabled(h, op, n)
      PROVE  NoneDeletes'
  BY <1>8 DEF SetEnabled
<1>9. ASSUME NEW n \in Names, RestartRead(h, n) \/ DeleteStop(h, n) PROVE NoneDeletes'
  BY <1>9 DEF RestartRead, DeleteStop, Accept, NothingIsForgotten
<1>. QED
  BY <1>2, <1>3, <1>4, <1>5, <1>6, <1>7, <1>8, <1>9 DEF HandlerStep, Serve

(* So a handler's step is a quiet one, or begins a reconcile.                *)
LEMMA HandlerConfs ==
    ASSUME TypeInv, NEW h \in Requests, HandlerStep(h) \/ Serve(h)
    PROVE  /\ TracksOwn => TracksOwn'
           /\ NothingIsForgotten /\ ConfInv => ConfInv'
<1>. USE DEF backendVars
<1>1. ASSUME UNCHANGED <<proc, managed>> PROVE Quiet
  BY <1>1 DEF Quiet, Alive
<1>2. CASE DeleteForget(h)
  <2>1. /\ call[h].pc = "forget" /\ UNCHANGED proc
        /\ \A m \in Names : managed'[m] \in {Unmanaged, managed[m]}
    BY <1>2 DEF DeleteForget, At, Forget, TypeInv, TypeOK
  <2>. QED
    BY <2>1 DEF TracksOwn, Alive, ConfInv, NoneDeletes
<1>3. CASE \E o \in Requests : RecBegin(o)
  <2>1. Quiet /\ UNCHANGED call /\ rec'.phase = "apply" /\ rec'.at = NoName
    BY <1>1, <1>3 DEF RecBegin
  <2>. QED
    BY <2>1, QuietKeepsConfs DEF ConfInv, Applied, Swept, NoneDeletes
<1>4. CASE Quiet /\ UNCHANGED rec
  BY <1>4, QuietKeepsConfs, QuietStep, NoneBeginsToDelete DEF ConfInv
<1>5. CASE HandlerStep(h)
  <2>1. CASE RestartStop(h)
    <3>1. call[h].name \in Names
      BY <2>1 DEF RestartStop, At, TypeInv, CallOK
    <3>. QED
      BY <1>4, <2>1, <3>1, StopIsQuiet DEF RestartStop
  <2>2. ASSUME NEW conf \in Confs, CreateIssue(h, conf) PROVE Quiet /\ UNCHANGED rec
    BY <1>1, <2>2 DEF CreateIssue
  <2>3. CASE UpdateWrite(h) \/ RestartWrite(h) \/ RestartEnable(h) \/ DeleteRow(h)
    BY <1>1, <1>4, <2>3 DEF UpdateWrite, RestartWrite, RestartEnable, DeleteRow
  <2>. QED
    BY <1>2, <1>3, <1>4, <1>5, <2>1, <2>2, <2>3 DEF HandlerStep
<1>6. CASE Serve(h)
  <2>1. ASSUME NEW n \in Names, NEW new \in Row, NEW op,
               Create(h, n, new) \/ UpdateRead(h, n, op, new) \/ SetEnabled(h, op, n)
                  \/ RestartRead(h, n)
        PROVE  Quiet /\ UNCHANGED rec
    BY <1>1, <2>1 DEF Create, UpdateRead, SetEnabled, RestartRead
  <2>2. ASSUME NEW n \in Names, DeleteStop(h, n) PROVE Quiet /\ UNCHANGED rec
    BY <2>2, StopIsQuiet DEF DeleteStop
  <2>3. CASE Reconcile(h) \/ Cancel(h)
    BY <1>1, <1>4, <2>3 DEF Reconcile, Cancel
  <2>4. CASE \E n \in Names, new \in Row :
                Create(h, n, new) \/ \E op \in {"update", "enable"} : UpdateRead(h, n, op, new)
    BY <1>4, <2>1, <2>4
  <2>5. CASE \E n \in Names, op \in {"up", "down"} : SetEnabled(h, op, n)
    BY <1>1, <1>4, <2>5 DEF SetEnabled
  <2>6. CASE \E n \in Names : RestartRead(h, n) \/ DeleteStop(h, n)
    BY <1>1, <1>4, <2>2, <2>6 DEF RestartRead
  <2>. QED
    BY <1>6, <2>3, <2>4, <2>5, <2>6 DEF Serve
<1>. QED
  BY <1>5, <1>6

(* Processes, failures, and the crash that NothingIsForgotten excludes.      *)
LEMMA DisturbConfs ==
    ASSUME TypeInv, Disturb
    PROVE  /\ TracksOwn => TracksOwn'
           /\ NothingIsForgotten /\ ConfInv => ConfInv'
<1>. USE DEF backendVars
<1>1. ASSUME NEW p \in Procs, BecomeReady(p) \/ Hang(p) \/ Exit(p)
      PROVE  (TracksOwn => TracksOwn') /\ (ConfInv => ConfInv')
  <2>1. UNCHANGED <<rec, call>>
    BY <1>1 DEF BecomeReady, Hang, Exit
  <2>. QED
    BY <1>1, <2>1, ProcessIsQuiet, QuietKeepsConfs, QuietStep DEF ConfInv, NoneDeletes
<1>2. ASSUME NEW n \in Names, Break(n) \/ Repair(n)
      PROVE  (TracksOwn => TracksOwn') /\ (ConfInv => ConfInv')
  <2>1. UNCHANGED <<proc, managed, rec, call>>
    BY <1>2 DEF Break, Repair
  <2>2. Quiet
    BY <2>1 DEF Quiet, Alive
  <2>. QED
    BY <2>1, <2>2, QuietKeepsConfs, QuietStep DEF ConfInv, NoneDeletes
<1>3. ASSUME NEW n \in Names, SkipInstance(n)
      PROVE  (TracksOwn => TracksOwn') /\ (ConfInv => ConfInv')
  <2>1. /\ rec'.snap = rec.snap /\ rec'.at = rec.at /\ rec'.phase = rec.phase
        /\ UNCHANGED <<proc, managed, call>>
    BY <1>3 DEF SkipInstance, TypeInv, TypeOK, Run
  <2>2. Quiet
    BY <2>1 DEF Quiet, Alive
  <2>. QED
    BY <2>1, <2>2, QuietKeepsConfs DEF ConfInv, Applied, Swept, NoneDeletes
<1>4. CASE Crash
  <2>1. \A n \in Names : managed'[n] = Unmanaged
    BY <1>4 DEF Crash
  <2>2. ~NothingIsForgotten
    BY <1>4 DEF Crash, NothingIsForgotten, TypeInv, TypeOK
  <2>. QED
    BY <2>1, <2>2 DEF TracksOwn
<1>. QED
  BY <1>1, <1>2, <1>3, <1>4, EnsureConfs DEF Disturb

(* Every step.                                                               *)
LEMMA NextConfs ==
    ASSUME TypeInv, [Next]_vars
    PROVE  /\ TracksOwn => TracksOwn'
           /\ NothingIsForgotten /\ ConfInv => ConfInv'
<1>1. ASSUME UNCHANGED <<proc, managed, rec, call>>
      PROVE  (TracksOwn => TracksOwn') /\ (ConfInv => ConfInv')
  <2>1. Quiet
    BY <1>1 DEF Quiet, Alive
  <2>. QED
    BY <1>1, <2>1, QuietKeepsConfs, QuietStep DEF ConfInv, NoneDeletes
<1>2. CASE UNCHANGED vars
  BY <1>1, <1>2 DEF vars, backendVars
<1>3. CASE RecBegin(Ticker)
  <2>1. UNCHANGED <<proc, managed, call>> /\ rec'.phase = "apply" /\ rec'.at = NoName
    BY <1>3 DEF RecBegin, backendVars
  <2>2. Quiet
    BY <2>1 DEF Quiet, Alive
  <2>. QED
    BY <2>1, <2>2, QuietKeepsConfs DEF ConfInv, Applied, Swept, NoneDeletes
<1>4. ASSUME NEW p \in Procs, Reap(p)
      PROVE  (TracksOwn => TracksOwn') /\ (ConfInv => ConfInv')
  <2>1. UNCHANGED <<rec, call>>
    BY <1>4 DEF Reap
  <2>. QED
    BY <1>4, <2>1, ReapIsQuiet, QuietKeepsConfs, QuietStep DEF ConfInv, NoneDeletes
<1>. QED
  BY <1>2, <1>3, <1>4, ReconcilerConfs, HandlerConfs, DisturbConfs DEF Next

(* TracksOwn holds whatever crashes and is deleted, ConfInv without either.  *)
LEMMA HandleInvariance == Spec => [](TypeInv /\ ProcInv /\ TracksOwn)
<1>1. TypeInv /\ TracksOwn /\ [Next]_vars => TracksOwn'
  BY NextConfs
<1>. QED
  BY <1>1, Invariance, InitConfInv, PTL DEF Spec

LEMMA ConfInvariance ==
    ASSUME NothingIsForgotten
    PROVE  Spec => []ConfInv
<1>1. TypeInv /\ ConfInv /\ [Next]_vars => ConfInv'
  BY NextConfs
<1>. QED
  BY <1>1, Invariance, InitConfInv, PTL DEF Spec

(* When applyInstance has succeeded, what runs for the instance runs the     *)
(* configuration just applied, as long as the daemon does not crash and no   *)
(* instance is deleted: a process that is adopted keeps its configuration.   *)
THEOREM AppliedConfIsRun ==
    ASSUME NothingIsForgotten
    PROVE  Spec => []AppliedConfRuns
<1>1. TypeInv /\ ConfInv => AppliedConfRuns
  <2>. SUFFICES ASSUME TypeInv, ConfInv, NEW p \in Procs, Alive(p), rec.at = proc[p].name,
                       rec.phase = "apply"
                PROVE  proc[p].conf = rec.snap[rec.at].conf
    BY DEF AppliedConfRuns
  <2>1. rec.at \in Names /\ p \in FindPIDByConf(rec.at)
    BY DEF TypeInv, TypeOK, Process, Alive, FindPIDByConf
  <2>2. rec.at # NoName
    BY <2>1, ConstantsAssumption
  <2>. QED
    BY <2>1, <2>2 DEF ConfInv, Remembers, Applied
<1>. QED
  BY <1>1, Invariance, ConfInvariance, PTL

(* A handle whose configuration is not the one of the process makes the next *)
(* reconcile restart it.                                                     *)
Unspoiled ==
    \A n \in Names : \A p \in FindPIDByConf(n) :
        managed[n] # Unmanaged => managed[n].conf \in {NoConf, proc[p].conf}

(* What EnsureInstance kills for an instance runs for that instance.         *)
LEMMA KillsOwn ==
    ASSUME TypeInv, TracksOwn, NEW n \in Names, NEW p \in Procs, Alive(p),
           p \in DisabledVictims(n) \cup Replaced(n)
    PROVE  proc[p].name = n
<1>1. EntryOf(n).pid = p => proc[p].name = n
  BY ConstantsAssumption DEF EntryOf, TracksOwn
<1>2. Refreshed(n).pid = p => proc[p].name = n
  BY <1>1, ConstantsAssumption DEF Refreshed, FindPIDByConf
<1>. QED
  BY <1>1, <1>2 DEF DisabledVictims, StopVictims, Replaced, FindPIDByConf

(* EnsureInstance finds a healthy process and has no reason to restart it.   *)
LEMMA HealthyIsKeepable ==
    ASSUME TypeInv, ProcInv, TracksOwn, Unspoiled, NEW n \in Names, NEW p \in Procs, Alive(p),
           proc[p].name = n, proc[p].ready, proc[p].conf = rec.snap[n].conf
    PROVE  Keepable(n)
<1>1. p \in FindPIDByConf(n) /\ \A q \in FindPIDByConf(n) : q = p
  BY DEF FindPIDByConf, Alive, ProcInv, AtMostOneProcess
<1>2. Refreshed(n).pid = p
  <2>1. CASE Alive(EntryOf(n).pid)
    <3>1. EntryOf(n).pid \in FindPIDByConf(n)
      BY <2>1, ConstantsAssumption DEF EntryOf, TracksOwn, FindPIDByConf, Alive
    <3>. QED
      BY <1>1, <2>1, <3>1 DEF Refreshed
  <2>2. CASE ~Alive(EntryOf(n).pid)
    BY <1>1, <2>2 DEF Refreshed
  <2>. QED
    BY <2>1, <2>2
<1>3. Refreshed(n).conf \in {NoConf, proc[p].conf}
  BY <1>1 DEF Refreshed, EntryOf, Unspoiled
<1>. QED
  BY <1>2, <1>3, ConstantsAssumption DEF Keepable, NeedRestart

(* KeepsHealthy of one process.                                              *)
SparesHealthy(p) ==
    (Alive(p) /\ proc[p].ready /\ rec.phase = "apply" /\ rec.todo # rec'.todo
        /\ rec.snap[proc[p].name] = [enabled |-> TRUE, conf |-> proc[p].conf])
    => proc'[p] = proc[p]

(* What EnsureInstance kills is not healthy, or another instance's.          *)
LEMMA EnsureSpares ==
    ASSUME TypeInv, ProcInv, TracksOwn, Unspoiled, NEW p \in Procs, NEW n \in Names,
           \/ EnsureDisabled(n) \/ EnsureKeep(n) \/ EnsureStartFails(n)
           \/ \E q \in Procs :
                 EnsureStart(n, q) \/ EnsureStartSlow(n, q) \/ EnsureStartExits(n, q)
    PROVE  SparesHealthy(p)
<1>. SUFFICES ASSUME Alive(p), proc[p].ready,
                     rec.snap[proc[p].name] = [enabled |-> TRUE, conf |-> proc[p].conf]
              PROVE  proc'[p] = proc[p]
  BY DEF SparesHealthy
<1>1. proc[p].name = n => rec.snap[n].enabled /\ Keepable(n)
  BY HealthyIsKeepable
<1>2. CASE EnsureKeep(n)
  BY <1>2 DEF EnsureKeep
<1>3. CASE EnsureDisabled(n)
  <2>1. p \notin DisabledVictims(n)
    BY <1>1, <1>3, KillsOwn DEF EnsureDisabled
  <2>. QED
    BY <1>3, <2>1 DEF EnsureDisabled, Killing
<1>4. CASE EnsureStartFails(n)
  <2>1. p \notin Replaced(n)
    BY <1>1, <1>4, KillsOwn DEF EnsureStartFails, Starting
  <2>. QED
    BY <1>4, <2>1 DEF EnsureStartFails, Killing
<1>5. ASSUME NEW q \in Procs,
             EnsureStart(n, q) \/ EnsureStartSlow(n, q) \/ EnsureStartExits(n, q)
      PROVE  proc'[p] = proc[p]
  <2>. PICK outcome \in {"ready", "slow", "exited"} : Spawn(n, q, outcome)
    BY <1>5 DEF EnsureStart, EnsureStartSlow, EnsureStartExits
  <2>1. p \notin Replaced(n) /\ p # q
    BY <1>1, <1>5, KillsOwn
    DEF EnsureStart, EnsureStartSlow, EnsureStartExits, Starting, Fresh, Alive
  <2>. QED
    BY <2>1 DEF Spawn, Killing
<1>. QED
  BY <1>2, <1>3, <1>4, <1>5

(* No other step of a reconcile stops a process while it applies rows.       *)
LEMMA NextSpares ==
    ASSUME TypeInv, ProcInv, TracksOwn, Unspoiled, NEW p \in Procs, [Next]_vars
    PROVE  SparesHealthy(p)
<1>. USE DEF backendVars
<1>1. CASE rec'.todo = rec.todo \/ rec.phase # "apply" \/ UNCHANGED proc
  BY <1>1 DEF SparesHealthy
<1>2. CASE UNCHANGED vars
  BY <1>1, <1>2 DEF vars
<1>3. ASSUME NEW o, RecBegin(o) PROVE UNCHANGED proc
  BY <1>3 DEF RecBegin
<1>4. CASE ReconcilerStep
  <2>1. ASSUME NEW n \in Names, Observe(n) \/ SweepStop(n) \/ SweepForget(n)
        PROVE  SparesHealthy(p)
    BY <1>1, <2>1 DEF Observe, SweepStop, SweepForget
  <2>2. CASE ListLive \/ RecEnd
    BY <1>1, <2>2 DEF ListLive, RecEnd
  <2>. QED
    BY <1>4, <2>1, <2>2, EnsureSpares DEF ReconcilerStep
<1>5. ASSUME NEW h \in Requests, HandlerStep(h) \/ Serve(h)
      PROVE  UNCHANGED rec \/ UNCHANGED proc
  BY <1>3, <1>5
  DEF HandlerStep, Serve, CreateIssue, UpdateWrite, RestartStop, RestartWrite, RestartEnable,
      DeleteForget, DeleteRow, Create, UpdateRead, SetEnabled, RestartRead, DeleteStop,
      Reconcile, Cancel
<1>6. ASSUME NEW q \in Procs, Reap(q) PROVE UNCHANGED proc
  BY <1>6 DEF Reap
<1>7. CASE Disturb
  <2>1. ASSUME NEW q \in Procs, BecomeReady(q) \/ Hang(q) \/ Exit(q) PROVE UNCHANGED rec
    BY <2>1 DEF BecomeReady, Hang, Exit
  <2>2. ASSUME NEW n \in Names, Break(n) \/ Repair(n) \/ SkipInstance(n)
        PROVE  UNCHANGED proc
    BY <2>2 DEF Break, Repair, SkipInstance
  <2>3. CASE Crash
    BY <1>1, <2>3 DEF Crash
  <2>. QED
    BY <1>1, <1>7, <2>1, <2>2, <2>3, EnsureSpares DEF Disturb
<1>. QED
  BY <1>1, <1>2, <1>3, <1>4, <1>5, <1>6, <1>7 DEF Next

(* A reconcile leaves a process alone that answers management and runs the   *)
(* configuration to apply, provided that handles are not forgotten, or that  *)
(* there is only one configuration: a handle that has adopted a process of   *)
(* another configuration restarts it when the row changes back to that one.  *)
THEOREM HealthyIsKept ==
    ASSUME NothingIsForgotten \/ \A c, d \in Confs : c = d
    PROVE  Spec => KeepsHealthy
<1>1. TypeInv /\ ConfInv => Unspoiled
  BY DEF ConfInv, Remembers, Unspoiled
<1>2. ASSUME \A c, d \in Confs : c = d, TypeInv PROVE Unspoiled
  <2>. SUFFICES ASSUME NEW n \in Names, NEW p \in FindPIDByConf(n), managed[n] # Unmanaged
                PROVE  managed[n].conf \in {NoConf, proc[p].conf}
    BY DEF Unspoiled
  <2>1. proc[p].conf \in Confs /\ managed[n].conf \in Confs \cup {NoConf}
    BY <1>2 DEF FindPIDByConf, TypeInv, TypeOK, Process, Entry
  <2>. QED
    BY <1>2, <2>1
<1>3. TypeInv /\ ProcInv /\ TracksOwn /\ Unspoiled /\ [Next]_vars
        => \A p \in Procs : SparesHealthy(p)
  BY NextSpares
<1>4. (\A p \in Procs : SparesHealthy(p)) <=>
      \A p \in Procs :
          (Alive(p) /\ proc[p].ready /\ rec.phase = "apply"
            /\ rec.todo # rec'.todo
            /\ rec.snap[proc[p].name] = [enabled |-> TRUE, conf |-> proc[p].conf])
          => proc'[p] = proc[p]
  BY DEF SparesHealthy
<1>5. CASE NothingIsForgotten
  <2>1. Spec => [](TypeInv /\ ProcInv /\ TracksOwn) /\ []ConfInv
    BY <1>5, HandleInvariance, ConfInvariance
  <2>. QED
    BY <1>1, <1>3, <1>4, <2>1, PTL DEF Spec, KeepsHealthy
<1>6. CASE \A c, d \in Confs : c = d
  <2>1. TypeInv => Unspoiled
    BY <1>2, <1>6
  <2>2. Spec => [](TypeInv /\ ProcInv /\ TracksOwn)
    BY HandleInvariance
  <2>. QED
    BY <1>3, <1>4, <2>1, <2>2, PTL DEF Spec, KeepsHealthy
<1>. QED
  BY <1>5, <1>6
===============================================================================
