------------------------------ MODULE ClientProofs -----------------------------
(***************************************************************************)
(* Theorems about what clients may do: Peers, who is connected, and        *)
(* ProfileTokens, who downloads a profile.                                 *)
(*                                                                         *)
(* Peers: a reconcile that has written `disable` for a peer keeps it out.  *)
(* Nobody else writes CCD files while the reconcile runs, so the peer      *)
(* cannot connect again, and the sessions Status saw are killed one by     *)
(* one.  The rest of the state, which the API handlers change under the    *)
(* reconcile, does not matter for that.                                    *)
(*                                                                         *)
(* ProfileTokens: a use is in one of three places.  It is still to be      *)
(* counted (the request is at "count"), it is counted and its profile      *)
(* still to be rendered (at "render"), or it is served.  The check bounds  *)
(* the first two together with use_count, and use_count bounds the last    *)
(* two.                                                                    *)
(***************************************************************************)
EXTENDS Peers, ProfileTokens, FiniteSetTheorems, TLAPS

RunType ==
    [owner : Requests \cup {Ticker, Nobody},
     pc : {"idle", "policy", "status", "sample", "failed"},
     snap : [CNs -> {NoPeer} \cup Peer], todo : SUBSET CNs,
     barred : SUBSET CNs, live : SUBSET CNs, spared : SUBSET CNs]

CallType ==
    [pc : {"idle", "set", "kill", "write", "issue", "sync"}, op : PeerCalls,
     cn : CNs \cup {NoCN}, copy : {NoPeer} \cup Peer, was : BOOLEAN]

(* What a handler holds between two of its operations.                       *)
CallsNamed ==
    \A h \in Requests :
        call[h].pc \in {"set", "kill", "write", "issue"} =>
            call[h].cn \in CNs /\ call[h].copy # NoPeer

(* A reconcile looks only at peers that its snapshot knows.                  *)
TodoKnown == run.pc # "idle" => \A c \in run.todo : run.snap[c] # NoPeer

(* A peer is barred by the CCD file that the reconcile has written for it,   *)
(* from WriteCCD to the end of the run.                                      *)
BarredByFile ==
    \A c \in run.barred :
        run.pc \in {"status", "sample"} =>
            /\ run.snap[c] # NoPeer /\ run.snap[c].suspended
            /\ ccd[c] = "disable"

(* No barred peer has a session that Status did not see.                     *)
BarredSeen ==
    \A c \in run.barred : run.pc = "sample" => (c \in run.live \/ c \notin connected)

NothingBarredYet == run.pc \in {"idle", "policy"} => run.barred = {}

Inv == TypeOK /\ CallsNamed /\ TodoKnown
BarredInv == NothingBarredYet /\ BarredByFile /\ BarredSeen /\ BarredIsOut

(* A row stays a row when its flag is set.                                   *)
LEMMA SetKeepsRows ==
    ASSUME TypeOK, NEW c \in CNs, NEW id, NEW value \in BOOLEAN
    PROVE  /\ SetClientSuspended(c, id, value) \in [CNs -> {NoPeer} \cup Peer]
           /\ \A d \in CNs : peer[d] = NoPeer <=> SetClientSuspended(c, id, value)[d] = NoPeer
<1> USE PeerSentinel
<1>1. CASE peer[c] # NoPeer /\ peer[c].id = id
  <2>1. peer[c] \in Peer
    BY <1>1 DEF TypeOK
  <2>2. [peer[c] EXCEPT !.suspended = value] \in Peer
    BY <2>1 DEF Peer
  <2>3. SetClientSuspended(c, id, value)
           = [peer EXCEPT ![c] = [peer[c] EXCEPT !.suspended = value]]
    BY <1>1 DEF SetClientSuspended
  <2> QED
    BY <1>1, <2>2, <2>3 DEF TypeOK
<1>2. CASE ~(peer[c] # NoPeer /\ peer[c].id = id)
  BY <1>2 DEF SetClientSuspended, TypeOK
<1> QED
  BY <1>1, <1>2

(* So it does when a copy of it is written back.                             *)
LEMMA UpdateKeepsRows ==
    ASSUME TypeOK, NEW c \in CNs, peer[c] # NoPeer, NEW copy \in Peer
    PROVE  UpdateClient(c, copy) \in [CNs -> {NoPeer} \cup Peer]
<1>1. peer[c] \in Peer
  BY DEF TypeOK
<1>2. [peer[c] EXCEPT !.suspended = copy.suspended, !.limited = copy.limited] \in Peer
  BY <1>1 DEF Peer
<1>3. UpdateClient(c, copy) =
         [peer EXCEPT ![c] = [peer[c] EXCEPT !.suspended = copy.suspended, !.limited = copy.limited]]
  BY DEF UpdateClient, TypeOK
<1> QED
  BY <1>2, <1>3 DEF TypeOK

LEMMA FilesAreTyped ==
    CCDFiles \in [CNs -> {"none", "allow", "disable"}]
BY DEF CCDFiles, RenderCCD

LEMMA IdleIsTyped == Idle \in CallType /\ Idle.pc = "idle"
BY DEF Idle, CallType, PeerCalls

LEMMA NoRunIsTyped == NoRun \in RunType
BY DEF NoRun, RunType

LEMMA RunStepKeepsInv ==
    ASSUME Inv, RunStep
    PROVE  Inv'
<1> USE PeersAssumption, PeerSentinel
<1>1. TypeOK /\ run \in RunType /\ call \in [Requests -> CallType]
  BY DEF Inv, TypeOK, RunType, CallType
<1>2. ASSUME NEW c \in CNs, ApplyPolicy(c)
      PROVE  Inv'
  <2>1. run.snap[c] # NoPeer /\ run.snap \in [CNs -> {NoPeer} \cup Peer]
    BY <1>1, <1>2 DEF Inv, TodoKnown, ApplyPolicy, RunType
  <2>2. [run.snap[c] EXCEPT !.suspended = TRUE] \in Peer
    BY <2>1 DEF Peer
  <2> DEFINE marked == [run.snap EXCEPT ![c] = [run.snap[c] EXCEPT !.suspended = TRUE]]
  <2>3. /\ marked \in [CNs -> {NoPeer} \cup Peer]
        /\ \A d \in CNs : marked[d] = NoPeer <=> run.snap[d] = NoPeer
    BY <2>1, <2>2
  <2>4. peer' \in [CNs -> {NoPeer} \cup Peer]
    <3>1. SetClientSuspended(c, run.snap[c].id, TRUE) \in [CNs -> {NoPeer} \cup Peer]
      BY <1>1, SetKeepsRows
    <3> QED
      BY <1>1, <1>2, <3>1 DEF ApplyPolicy, TypeOK
  <2>5. \/ run' = [run EXCEPT !.todo = @ \ {c}, !.snap = marked]
        \/ run' = [run EXCEPT !.todo = @ \ {c}]
    BY <1>2 DEF ApplyPolicy
  <2> HIDE DEF marked
  <2>6. /\ run' \in RunType
        /\ run'.pc = run.pc /\ run'.todo = run.todo \ {c} /\ run'.snap \in {marked, run.snap}
    <3>1. CASE run' = [run EXCEPT !.todo = @ \ {c}, !.snap = marked]
      BY <1>1, <2>3, <3>1 DEF RunType
    <3>2. CASE run' = [run EXCEPT !.todo = @ \ {c}]
      BY <1>1, <3>2 DEF RunType
    <3> QED
      BY <2>5, <3>1, <3>2
  <2>7. TodoKnown'
    <3>1. run.todo \subseteq CNs
      BY <1>1 DEF RunType
    <3> QED
      BY <2>3, <2>6, <3>1 DEF Inv, TodoKnown
  <2> QED
    BY <1>1, <1>2, <2>4, <2>6, <2>7 DEF Inv, TypeOK, RunType, CallsNamed, ApplyPolicy, counters
<1>3. ASSUME NEW c \in CNs, Sample(c)
      PROVE  Inv'
  <2>1. peer' \in [CNs -> {NoPeer} \cup Peer]
    <3>1. SetClientSuspended(c, run.snap[c].id, TRUE) \in [CNs -> {NoPeer} \cup Peer]
      BY <1>1, SetKeepsRows
    <3> QED
      BY <1>1, <1>3, <3>1 DEF Sample, TypeOK
  <2>2. run' \in RunType /\ TodoKnown'
    <3>1. CASE run' = [run EXCEPT !.todo = run.todo \ {c}]
      BY <1>1, <3>1 DEF RunType, Inv, TodoKnown
    <3>2. CASE run' = [run EXCEPT !.todo = run.todo \ {c}, !.spared = run.spared \cup {c}]
      BY <1>1, <3>2 DEF RunType, Inv, TodoKnown
    <3> QED
      BY <1>3, <3>1, <3>2 DEF Sample
  <2>3. connected' \subseteq CNs /\ failures' \in 0..MaxFailures
    BY <1>1, <1>3 DEF Sample, TypeOK, ManagementFails, ManagementAnswers
  <2> QED
    BY <1>1, <1>3, <2>1, <2>2, <2>3 DEF Inv, TypeOK, RunType, CallsNamed, Sample
<1>4. CASE WriteCCD
  <2>1. run' \in RunType /\ TodoKnown'
    BY <1>1, <1>4 DEF WriteCCD, RunType, Inv, TodoKnown
  <2> QED
    BY <1>1, <1>4, <2>1, FilesAreTyped DEF Inv, TypeOK, RunType, CallsNamed, WriteCCD, counters
<1>5. CASE EnsureFails
  <2>1. run' \in RunType /\ TodoKnown'
    BY <1>1, <1>5 DEF EnsureFails, RunType, Inv, TodoKnown
  <2>2. failures' \in 0..MaxFailures
    BY <1>1, <1>5 DEF EnsureFails, TypeOK, ManagementFails
  <2> QED
    BY <1>1, <1>5, <2>1, <2>2, FilesAreTyped DEF Inv, TypeOK, RunType, CallsNamed, EnsureFails
<1>6. CASE Status
  <2>1. connected \in SUBSET CNs
    BY <1>1 DEF TypeOK
  <2>2. run' \in RunType /\ TodoKnown'
    <3> DEFINE all == {c \in CNs : run.snap[c] # NoPeer}
    <3>1. CASE run' = [run EXCEPT !.pc = "sample", !.live = connected, !.todo = all]
      BY <1>1, <2>1, <3>1 DEF RunType, TodoKnown
    <3>2. CASE run' = [run EXCEPT !.pc = "failed"]
      BY <1>1, <1>6, <3>2 DEF RunType, Inv, TodoKnown, Status
    <3> QED
      BY <1>6, <3>1, <3>2 DEF Status
  <2>3. failures' \in 0..MaxFailures
    BY <1>1, <1>6 DEF Status, TypeOK, ManagementFails, ManagementAnswers
  <2> QED
    BY <1>1, <1>6, <2>2, <2>3 DEF Inv, TypeOK, RunType, CallsNamed, Status
<1>7. CASE RunEnd
  <2>1. run' \in RunType /\ TodoKnown'
    BY <1>7, NoRunIsTyped DEF RunEnd, NoRun, TodoKnown
  <2>2. call' \in [Requests -> CallType] /\ CallsNamed'
    BY <1>1, <1>7, IdleIsTyped DEF RunEnd, Inv, CallsNamed
  <2> QED
    BY <1>1, <1>7, <2>1, <2>2 DEF Inv, TypeOK, RunType, CallType, RunEnd, counters
<1> QED
  BY <1>2, <1>3, <1>4, <1>5, <1>6, <1>7 DEF RunStep

LEMMA RunBeginKeepsInv ==
    ASSUME Inv, NEW o \in Requests \cup {Ticker}, RunBegin(o)
    PROVE  Inv'
<1>1. peer \in [CNs -> {NoPeer} \cup Peer]
  BY DEF Inv, TypeOK
<1>2. run' \in RunType /\ TodoKnown'
  BY <1>1 DEF RunBegin, NoRun, RunType, TodoKnown
<1> QED
  BY <1>2 DEF Inv, TypeOK, RunType, CallsNamed, RunBegin, counters

(* What every step of a handler leaves alone, and what it may do to calls.   *)
LEMMA CallKeepsInv ==
    ASSUME Inv, NEW h \in Requests, NEW to \in CallType,
           call' = [call EXCEPT ![h] = to],
           to.pc \in {"set", "kill", "write", "issue"} => to.cn \in CNs /\ to.copy # NoPeer,
           peer' \in [CNs -> {NoPeer} \cup Peer], connected' \subseteq CNs,
           calls' \in 0..MaxCalls, failures' \in 0..MaxFailures,
           UNCHANGED <<passed, ccd, run>>
    PROVE  Inv'
<1>1. call' \in [Requests -> CallType] /\ CallsNamed'
  BY DEF Inv, TypeOK, CallType, CallsNamed
<1> QED
  BY <1>1 DEF Inv, TypeOK, CallType, TodoKnown

LEMMA ReadsKeepInv ==
    ASSUME Inv, NEW h \in Requests, NEW c \in CNs,
           \/ \E op \in {"suspend", "resume"} : SuspendRead(h, c, op)
           \/ \E op \in {"patch", "patchSuspended"}, new \in BOOLEAN : PatchRead(h, c, op, new)
           \/ Delete(h, c)
    PROVE  Inv'
<1> USE PeersAssumption, PeerSentinel
<1>1. /\ TypeOK /\ call \in [Requests -> CallType]
      /\ peer \in [CNs -> {NoPeer} \cup Peer] /\ connected \subseteq CNs
      /\ calls \in 0..MaxCalls /\ failures \in 0..MaxFailures
  BY DEF Inv, TypeOK, CallType
<1>2. ASSUME NEW op \in {"suspend", "resume"}, SuspendRead(h, c, op)
      PROVE  Inv'
  <2> DEFINE to == [pc |-> "set", op |-> op, cn |-> c, copy |-> peer[c], was |-> peer[c].suspended]
  <2>1. peer[c] \in Peer /\ calls' \in 0..MaxCalls
    BY <1>1, <1>2 DEF SuspendRead, Accept
  <2>2. to \in CallType /\ to.pc = "set" /\ to.cn \in CNs /\ to.copy # NoPeer
    BY <2>1 DEF CallType, PeerCalls, Peer
  <2>3. /\ call' = [call EXCEPT ![h] = to]
        /\ UNCHANGED <<peer, passed, ccd, connected, run, failures>>
    BY <1>2 DEF SuspendRead
  <2> HIDE DEF to
  <2> QED
    BY <1>1, <2>1, <2>2, <2>3, CallKeepsInv
<1>3. ASSUME NEW op \in {"patch", "patchSuspended"}, NEW new \in BOOLEAN, PatchRead(h, c, op, new)
      PROVE  Inv'
  <2> DEFINE copy == IF op = "patch" THEN [peer[c] EXCEPT !.limited = new]
                     ELSE [peer[c] EXCEPT !.suspended = new]
             to == [pc |-> "write", op |-> op, cn |-> c, was |-> peer[c].suspended, copy |-> copy]
  <2>1. peer[c] \in Peer /\ calls' \in 0..MaxCalls
    BY <1>1, <1>3 DEF PatchRead, Accept
  <2>2. copy \in Peer
    BY <2>1 DEF Peer
  <2>3. /\ call' = [call EXCEPT ![h] = to]
        /\ UNCHANGED <<peer, passed, ccd, connected, run, failures>>
    BY <1>3 DEF PatchRead
  <2>4. peer[c].suspended \in BOOLEAN
    BY <2>1 DEF Peer
  <2> HIDE DEF copy
  <2>5. to \in CallType /\ to.pc = "write" /\ to.cn \in CNs /\ to.copy # NoPeer
    BY <2>2, <2>4 DEF CallType, PeerCalls
  <2> HIDE DEF to
  <2> QED
    BY <1>1, <2>1, <2>3, <2>5, CallKeepsInv
<1>4. CASE Delete(h, c)
  <2> DEFINE to == [Idle EXCEPT !.pc = "sync", !.op = "delete", !.cn = c]
  <2>1. to \in CallType /\ to.pc = "sync"
    BY DEF CallType, PeerCalls, Idle
  <2>2. /\ call' = [call EXCEPT ![h] = to]
        /\ UNCHANGED <<passed, ccd, connected, run, failures>>
        /\ peer' \in [CNs -> {NoPeer} \cup Peer]
        /\ calls' \in 0..MaxCalls
    BY <1>1, <1>4 DEF Delete, Accept
  <2> HIDE DEF to
  <2> QED
    BY <1>1, <2>1, <2>2, CallKeepsInv
<1> QED
  BY <1>2, <1>3, <1>4

LEMMA CancelKeepsInv ==
    ASSUME Inv, NEW h \in Requests, Cancel(h)
    PROVE  Inv'
<1>1. /\ call' = [call EXCEPT ![h] = Idle]
      /\ UNCHANGED <<peer, passed, ccd, connected, run, counters>>
  BY DEF Cancel, Finish
<1>2. /\ peer \in [CNs -> {NoPeer} \cup Peer] /\ connected \subseteq CNs
      /\ calls \in 0..MaxCalls /\ failures \in 0..MaxFailures
  BY DEF Inv, TypeOK
<1> QED
  BY <1>1, <1>2, IdleIsTyped, CallKeepsInv DEF counters

LEMMA CreateKeepsInv ==
    ASSUME Inv, NEW h \in Requests, NEW c \in CNs,
           NEW suspended \in BOOLEAN, NEW limited \in BOOLEAN,
           Create(h, c, suspended, limited)
    PROVE  Inv'
<1> USE PeersAssumption, PeerSentinel
<1> DEFINE new == [id |-> calls + 1, suspended |-> suspended, limited |-> limited]
<1>1. /\ TypeOK /\ call \in [Requests -> CallType]
      /\ peer \in [CNs -> {NoPeer} \cup Peer] /\ connected \subseteq CNs
      /\ calls \in 0..MaxCalls /\ failures \in 0..MaxFailures
  BY DEF Inv, TypeOK, CallType
<1>2. calls + 1 \in 0..MaxCalls /\ calls' = calls + 1
  BY <1>1 DEF Create, Accept
<1>3. new \in Peer
  BY <1>2 DEF Peer
<1>4. /\ peer' = [peer EXCEPT ![c] = new]
      /\ UNCHANGED <<passed, ccd, connected, run, failures>>
  BY DEF Create
<1>5. PICK pc \in {"issue", "sync"} :
         call' = [call EXCEPT ![h] =
                    [pc |-> pc, op |-> "create", cn |-> c, copy |-> new, was |-> FALSE]]
  BY DEF Create
<1> HIDE DEF new
<1> DEFINE to == [pc |-> pc, op |-> "create", cn |-> c, copy |-> new, was |-> FALSE]
<1>6. to \in CallType /\ to.cn \in CNs /\ to.copy # NoPeer
  BY <1>3 DEF CallType, PeerCalls
<1>7. call' = [call EXCEPT ![h] = to] /\ peer' \in [CNs -> {NoPeer} \cup Peer]
  BY <1>1, <1>3, <1>4, <1>5
<1> HIDE DEF to
<1> QED
  BY <1>1, <1>2, <1>4, <1>6, <1>7, CallKeepsInv

LEMMA HandlerStepKeepsInv ==
    ASSUME Inv, NEW h \in Requests, HandlerStep(h)
    PROVE  Inv'
<1> USE PeersAssumption, PeerSentinel
<1> DEFINE c == call[h].cn
<1>1. /\ TypeOK /\ call \in [Requests -> CallType] /\ call[h] \in CallType
      /\ peer \in [CNs -> {NoPeer} \cup Peer] /\ connected \subseteq CNs
      /\ calls \in 0..MaxCalls /\ failures \in 0..MaxFailures
  BY DEF Inv, TypeOK, CallType
<1>2. ASSUME NEW pc \in {"kill", "sync"}, call[h].pc \in {"set", "kill", "write", "issue"}
      PROVE  /\ [call[h] EXCEPT !.pc = pc] \in CallType
             /\ [call[h] EXCEPT !.pc = pc].cn \in CNs
             /\ [call[h] EXCEPT !.pc = pc].copy # NoPeer
  BY <1>1, <1>2 DEF CallType, Inv, CallsNamed
<1>3. ASSUME NEW pc, Advance(h, pc) PROVE call' = [call EXCEPT ![h] = [call[h] EXCEPT !.pc = pc]]
  BY <1>3 DEF Advance
<1>4. call[h].pc \in {"set", "kill", "write", "issue"} => c \in CNs /\ call[h].copy \in Peer
  BY <1>1 DEF CallType, Inv, CallsNamed
<1>5. CASE SuspendSet(h)
  <2> DEFINE pc == IF call[h].op = "suspend" THEN "kill" ELSE "sync"
  <2>1. call[h].pc = "set" /\ pc \in {"kill", "sync"} /\ (call[h].op = "suspend") \in BOOLEAN
    BY <1>5 DEF SuspendSet, At
  <2>2. peer' \in [CNs -> {NoPeer} \cup Peer]
    <3>1. SetClientSuspended(c, call[h].copy.id, call[h].op = "suspend") \in [CNs -> {NoPeer} \cup Peer]
      BY <1>1, <1>4, <2>1, SetKeepsRows
    <3> QED
      BY <1>5, <3>1 DEF SuspendSet
  <2>3. Advance(h, pc) /\ UNCHANGED <<passed, ccd, connected, run, calls, failures>>
    BY <1>5 DEF SuspendSet, counters
  <2> HIDE DEF pc, c
  <2> QED
    BY <1>1, <1>2, <1>3, <2>1, <2>2, <2>3, CallKeepsInv
<1>6. CASE Kill(h)
  <2>1. /\ call[h].pc = "kill" /\ Advance(h, "sync")
        /\ UNCHANGED <<peer, passed, ccd, run, calls>>
    BY <1>6 DEF Kill, At
  <2>2. connected' \subseteq CNs /\ failures' \in 0..MaxFailures
    BY <1>1, <1>6 DEF Kill, ManagementAnswers, ManagementFails
  <2> QED
    BY <1>1, <1>2, <1>3, <2>1, <2>2, CallKeepsInv
<1>7. CASE PatchWrite(h)
  <2>1. /\ call[h].pc = "write" /\ UNCHANGED <<passed, ccd, connected, run, calls, failures>>
    BY <1>7 DEF PatchWrite, At, counters
  <2>2. CASE peer[c] = NoPeer /\ Finish(h) /\ UNCHANGED peer
    BY <1>1, <2>1, <2>2, IdleIsTyped, CallKeepsInv DEF Finish
  <2> DEFINE pc == IF ~call[h].was /\ call[h].copy.suspended THEN "kill" ELSE "sync"
  <2>3. CASE peer[c] # NoPeer /\ peer' = UpdateClient(c, call[h].copy) /\ Advance(h, pc)
    <3>1. pc \in {"kill", "sync"}
      OBVIOUS
    <3>2. peer' \in [CNs -> {NoPeer} \cup Peer]
      BY <1>1, <1>4, <2>1, <2>3, UpdateKeepsRows
    <3>3. Advance(h, pc)
      BY <2>3
    <3> HIDE DEF pc
    <3> QED
      BY <1>1, <1>2, <1>3, <2>1, <3>1, <3>2, <3>3, CallKeepsInv
  <2> QED
    BY <1>7, <2>2, <2>3 DEF PatchWrite
<1>8. CASE Issue(h)
  <2>1. /\ call[h].pc = "issue" /\ UNCHANGED <<passed, ccd, connected, run, calls>>
    BY <1>8 DEF Issue, At
  <2>2. CASE /\ peer' = IF peer[c] # NoPeer THEN UpdateClient(c, call[h].copy) ELSE peer
             /\ Advance(h, "sync")
             /\ UNCHANGED failures
    <3>1. peer' \in [CNs -> {NoPeer} \cup Peer]
      BY <1>1, <1>4, <2>1, <2>2, UpdateKeepsRows
    <3> QED
      BY <1>1, <1>2, <1>3, <2>1, <2>2, <3>1, CallKeepsInv
  <2>3. CASE /\ failures < MaxFailures /\ failures' = failures + 1
             /\ peer' = [peer EXCEPT ![c] = NoPeer]
             /\ Finish(h)
    <3>1. peer' \in [CNs -> {NoPeer} \cup Peer]
      BY <1>1, <2>3
    <3>2. failures' \in 0..MaxFailures
      BY <1>1, <2>3
    <3> QED
      BY <1>1, <2>1, <2>3, <3>1, <3>2, IdleIsTyped, CallKeepsInv DEF Finish
  <2> QED
    BY <1>8, <2>2, <2>3 DEF Issue
<1> QED
  BY <1>5, <1>6, <1>7, <1>8, RunBeginKeepsInv DEF HandlerStep

LEMMA UsersKeepInv ==
    ASSUME Inv, NEW c \in CNs, Connect(c) \/ Disconnect(c) \/ Pass(c)
    PROVE  Inv'
<1>1. CASE Connect(c)
  BY <1>1 DEF Inv, TypeOK, CallsNamed, TodoKnown, Connect, counters
<1>2. CASE Disconnect(c)
  BY <1>2 DEF Inv, TypeOK, CallsNamed, TodoKnown, Disconnect, counters
<1>3. CASE Pass(c)
  BY <1>3 DEF Inv, TypeOK, CallsNamed, TodoKnown, Pass, counters
<1> QED
  BY <1>1, <1>2, <1>3

LEMMA InitInv == Init => Inv
<1> SUFFICES ASSUME Init PROVE Inv
  OBVIOUS
<1>1. [id : {0}, suspended : BOOLEAN, limited : BOOLEAN] \subseteq Peer
  BY PeersAssumption DEF Peer
<1>2. run \in RunType /\ call \in [Requests -> CallType]
  BY NoRunIsTyped, IdleIsTyped DEF Init
<1>3. TypeOK
  BY <1>1, <1>2, PeersAssumption DEF Init, TypeOK, RunType, CallType
<1> QED
  BY <1>3 DEF Init, Inv, CallsNamed, TodoKnown, Idle, NoRun

LEMMA NextKeepsInv ==
    ASSUME Inv, [Next]_vars
    PROVE  Inv'
<1>1. CASE UNCHANGED vars
  BY <1>1 DEF vars, counters, Inv, TypeOK, CallsNamed, TodoKnown
<1>2. CASE RunBegin(Ticker)
  BY <1>2, RunBeginKeepsInv
<1>3. CASE RunStep
  BY <1>3, RunStepKeepsInv
<1>4. ASSUME NEW h \in Requests, HandlerStep(h)
      PROVE  Inv'
  BY <1>4, HandlerStepKeepsInv
<1>5. ASSUME NEW h \in Requests, Serve(h)
      PROVE  Inv'
  BY <1>5, ReadsKeepInv, CreateKeepsInv, CancelKeepsInv DEF Serve
<1>6. ASSUME NEW c \in CNs, Connect(c) \/ Disconnect(c) \/ Pass(c)
      PROVE  Inv'
  BY <1>6, UsersKeepInv
<1> QED
  BY <1>1, <1>2, <1>3, <1>4, <1>5, <1>6 DEF Next

(* Handlers and users leave the run and the CCD files alone, and nobody      *)
(* connects whom a file disables.                                            *)
LEMMA OthersKeepBarredInv ==
    ASSUME Inv, BarredInv, UNCHANGED <<run, ccd>>,
           \A c \in connected' : c \in connected \/ ccd[c] = "allow"
    PROVE  BarredInv'
BY DEF Inv, TypeOK, BarredInv, NothingBarredYet, BarredByFile, BarredSeen, BarredIsOut

LEMMA RunStepKeepsBarredInv ==
    ASSUME Inv, BarredInv, RunStep
    PROVE  BarredInv'
<1> USE DEF BarredInv, NothingBarredYet, BarredByFile, BarredSeen, BarredIsOut
<1>1. TypeOK /\ run \in RunType
  BY DEF Inv, TypeOK, RunType
<1>2. ASSUME NEW c \in CNs, ApplyPolicy(c)
      PROVE  BarredInv'
  <2>1. /\ run.pc = "policy" /\ run'.pc = "policy" /\ run'.barred = run.barred
    BY <1>1, <1>2 DEF ApplyPolicy, RunType
  <2> QED
    BY <2>1
<1>3. ASSUME NEW c \in CNs, Sample(c)
      PROVE  BarredInv'
  <2>1. /\ run.pc = "sample" /\ run'.pc = "sample" /\ c \in run.todo
        /\ run'.barred = run.barred /\ run'.live = run.live /\ run'.snap = run.snap
        /\ run'.todo = run.todo \ {c} /\ run.spared \subseteq run'.spared
        /\ ccd' = ccd /\ connected' \subseteq connected
    <3>1. CASE run' = [run EXCEPT !.todo = run.todo \ {c}]
      BY <1>1, <1>3, <3>1 DEF Sample, RunType
    <3>2. CASE run' = [run EXCEPT !.todo = run.todo \ {c}, !.spared = run.spared \cup {c}]
      BY <1>1, <1>3, <3>2 DEF Sample, RunType
    <3> QED
      BY <1>3, <3>1, <3>2 DEF Sample
  <2>2. c \in run.barred => (c \in run'.spared \/ c \notin connected')
    <3>1. SUFFICES ASSUME c \in run.barred, c \notin run'.spared PROVE c \notin connected'
      OBVIOUS
    <3>2. LateSuspended(c) /\ (c \in run.live \/ c \notin connected)
      BY <2>1, <3>1 DEF LateSuspended
    <3>3. CASE c \notin connected
      BY <2>1, <3>3
    <3>4. CASE MustKill(c)
      <4>1. CASE run' = [run EXCEPT !.todo = @ \ {c}, !.spared = @ \cup {c}]
        <5>1. run'.spared = run.spared \cup {c}
          BY <1>1, <4>1 DEF RunType
        <5> QED
          BY <3>1, <5>1
      <4>2. CASE connected' = connected \ {c}
        BY <4>2
      <4> QED
        BY <1>3, <3>4, <4>1, <4>2 DEF Sample
    <3> QED
      BY <3>2, <3>3, <3>4 DEF MustKill
  <2> QED
    BY <2>1, <2>2
<1>4. CASE WriteCCD
  <2> DEFINE out == {c \in CNs : run.snap[c] # NoPeer /\ run.snap[c].suspended}
  <2>1. /\ run'.pc = "status" /\ run'.barred = out /\ run'.snap = run.snap
    BY <1>1, <1>4 DEF WriteCCD, RunType
  <2>2. \A c \in out : ccd'[c] = "disable"
    BY <1>4 DEF WriteCCD, CCDFiles, RenderCCD
  <2> QED
    BY <2>1, <2>2
<1>5. CASE EnsureFails
  <2>1. run'.pc = "failed"
    BY <1>1, <1>5 DEF EnsureFails, RunType
  <2> QED
    BY <2>1
<1>6. CASE Status
  <2> DEFINE all == {c \in CNs : run.snap[c] # NoPeer}
  <2>1. CASE run' = [run EXCEPT !.pc = "sample", !.live = connected, !.todo = all]
    <3>1. /\ run.pc = "status" /\ UNCHANGED <<ccd, connected>>
          /\ run'.pc = "sample" /\ run'.live = connected /\ run'.todo = all
          /\ run'.barred = run.barred /\ run'.snap = run.snap
      BY <1>1, <1>6, <2>1 DEF Status, RunType
    <3>2. run.barred \subseteq all
      BY <1>1, <3>1 DEF RunType
    <3> QED
      BY <3>1, <3>2
  <2>2. CASE run' = [run EXCEPT !.pc = "failed"]
    <3>1. run'.pc = "failed"
      BY <1>1, <2>2 DEF RunType
    <3> QED
      BY <3>1
  <2> QED
    BY <1>6, <2>1, <2>2 DEF Status
<1>7. CASE RunEnd
  <2>1. run'.pc = "idle" /\ run'.barred = {}
    BY <1>7 DEF RunEnd, NoRun
  <2> QED
    BY <2>1
<1> QED
  BY <1>2, <1>3, <1>4, <1>5, <1>6, <1>7 DEF RunStep

LEMMA NextKeepsBarredInv ==
    ASSUME Inv, BarredInv, [Next]_vars
    PROVE  BarredInv'
<1>1. CASE UNCHANGED vars
  BY <1>1, OthersKeepBarredInv DEF vars
<1>2. ASSUME NEW o \in Requests \cup {Ticker}, RunBegin(o)
      PROVE  BarredInv'
  <2>1. run'.pc = "policy" /\ run'.barred = {}
    BY <1>2 DEF RunBegin, NoRun
  <2> QED
    BY <2>1 DEF BarredInv, NothingBarredYet, BarredByFile, BarredSeen, BarredIsOut
<1>3. CASE RunStep
  BY <1>3, RunStepKeepsBarredInv
<1>4. ASSUME NEW h \in Requests, SuspendSet(h) \/ Kill(h) \/ PatchWrite(h) \/ Issue(h) \/ Serve(h)
      PROVE  BarredInv'
  <2>1. UNCHANGED <<run, ccd>> /\ connected' \subseteq connected
    BY <1>4
    DEF SuspendSet, Kill, PatchWrite, Issue, Serve, SuspendRead, PatchRead, Create, Delete, Cancel
  <2> QED
    BY <2>1, OthersKeepBarredInv
<1>5. ASSUME NEW c \in CNs, Connect(c) \/ Disconnect(c) \/ Pass(c)
      PROVE  BarredInv'
  <2>1. UNCHANGED <<run, ccd>> /\ \A d \in connected' : d \in connected \/ ccd[d] = "allow"
    BY <1>5 DEF Connect, Disconnect, Pass
  <2> QED
    BY <2>1, OthersKeepBarredInv
<1> QED
  BY <1>1, <1>2, <1>3, <1>4, <1>5 DEF Next, HandlerStep

LEMMA InvHolds == Spec => []Inv
<1>1. Init => Inv
  BY InitInv
<1>2. Inv /\ [Next]_vars => Inv'
  BY NextKeepsInv
<1> QED
  BY <1>1, <1>2, PTL DEF Spec

(* Every variable keeps its type.                                            *)
THEOREM TypeCorrect == Spec => []TypeOK
<1>1. Inv => TypeOK
  BY DEF Inv
<1> QED
  BY <1>1, InvHolds, PTL

(* A reconcile that gets past a peer it has written `disable` for, and whose *)
(* kill did not fail, leaves it without a session: however many handlers     *)
(* change rows meanwhile and whenever the peer reconnects.                   *)
THEOREM SuspendedPeersAreOut == Spec => []BarredIsOut
<1>1. Init => BarredInv
  BY DEF Init, NoRun, BarredInv, NothingBarredYet, BarredByFile, BarredSeen, BarredIsOut
<1>2. Inv /\ BarredInv /\ [Next]_vars => BarredInv'
  BY NextKeepsBarredInv
<1>3. BarredInv => BarredIsOut
  BY DEF BarredInv
<1> QED
  BY <1>1, <1>2, <1>3, InvHolds, PTL DEF Spec

(* Setting the flag by id changes one row at most, the one that is named.    *)
LEMMA OnlyThatRow ==
    ASSUME TypeOK, NEW c \in CNs, NEW id
    PROVE  \A d \in CNs : \/ SetClientSuspended(c, id, TRUE)[d] = peer[d]
                          \/ d = c /\ peer[c].id = id
BY DEF SetClientSuspended, TypeOK

(* The reconciler suspends by the id it has judged: a row that replaced the  *)
(* one in its snapshot keeps its flag.                                       *)
THEOREM JudgedRowsOnly == Spec => SuspendsJudgedRow
<1> DEFINE Judged ==
      \A c \in CNs :
          (peer[c] # NoPeer /\ peer'[c] # NoPeer /\ run # run'
             /\ peer'[c].suspended # peer[c].suspended)
          => peer[c].id = run.snap[c].id
<1>1. ASSUME Inv, [Next]_vars
      PROVE  Judged \/ UNCHANGED vars
  <2>1. CASE UNCHANGED run \/ UNCHANGED peer
    BY <2>1
  <2>2. ASSUME NEW c \in CNs, ApplyPolicy(c) \/ Sample(c)
        PROVE  Judged
    <3> DEFINE set == SetClientSuspended(c, run.snap[c].id, TRUE)
    <3>1. peer' = peer \/ peer' = set
      BY <2>2 DEF ApplyPolicy, Sample
    <3>2. TypeOK
      BY <1>1 DEF Inv
    <3>3. \A d \in CNs : set[d] = peer[d] \/ (d = c /\ peer[c].id = run.snap[c].id)
      BY <3>2, OnlyThatRow
    <3> HIDE DEF set
    <3> QED
      BY <3>1, <3>3
  <2> QED
    BY <1>1, <2>1, <2>2
    DEF Next, vars, RunBegin, RunStep, WriteCCD, EnsureFails, Status, RunEnd, HandlerStep, Serve,
        SuspendSet, Kill, PatchWrite, Issue, SuspendRead, PatchRead, Create, Delete, Cancel,
        Connect, Disconnect, Pass
<1> QED
  BY <1>1, InvHolds, PTL DEF Spec, SuspendsJudgedRow

------------------------------------------------------------------------------
(* ProfileTokens                                                             *)

(* The requests for a link at a place.                                       *)
Held(pc, t) == {r \in Downloads : request[r].pc = pc /\ request[r].token = t}

(* A request gets past its first step only with a drawn token.               *)
TokensDrawn ==
    /\ \A r \in Downloads : request[r].pc # "idle" => request[r].token \in minted
    /\ \A t \in Tokens \ minted : link[t] = NoLink /\ served[t] = 0

(* Every profile served or about to be rendered has been counted.            *)
Accounted ==
    \A t \in Tokens :
        link[t] # NoLink => served[t] + Cardinality(Held("render", t)) <= link[t].uses

(* The last check that passed saw a use left, and at most all requests have  *)
(* passed one since.                                                         *)
Admitted ==
    \A t \in Tokens :
        (link[t] # NoLink /\ link[t].max > 0) =>
            link[t].uses + Cardinality(Held("count", t))
                <= link[t].max + Cardinality(Downloads) - 1

TokensInv == TokensTypeOK /\ TokensDrawn /\ Accounted /\ Admitted

LEMMA HeldIsFinite ==
    ASSUME NEW pc, NEW t
    PROVE  /\ IsFiniteSet(Held(pc, t)) /\ Cardinality(Held(pc, t)) \in Nat
           /\ Cardinality(Held(pc, t)) <= Cardinality(Downloads)
           /\ Cardinality(Downloads) \in Nat
<1>1. Held(pc, t) \in SUBSET Downloads
  BY DEF Held
<1> QED
  BY <1>1, TokensAssumption, FS_Subset, FS_CardinalityType

(* Only r moves: the place it enters gains at most one request.              *)
LEMMA CountEntered ==
    ASSUME NEW pc, NEW t, NEW r \in Downloads, NEW to,
           TokensTypeOK, request' = [request EXCEPT ![r] = to],
           to.pc = pc, to.token = t
    PROVE  /\ Cardinality(Held(pc, t)') \in Nat
           /\ Cardinality(Held(pc, t)') <= Cardinality(Held(pc, t)) + 1
<1>1. IsFiniteSet(Held(pc, t)) /\ Cardinality(Held(pc, t)) \in Nat
  BY HeldIsFinite
<1>2. Held(pc, t)' = Held(pc, t) \cup {r}
  BY DEF Held, TokensTypeOK
<1>3. Cardinality(Held(pc, t) \cup {r}) =
         IF r \in Held(pc, t) THEN Cardinality(Held(pc, t)) ELSE Cardinality(Held(pc, t)) + 1
  BY <1>1, FS_AddElement
<1> QED
  BY <1>1, <1>2, <1>3

(* Every other place does not grow, and the one it leaves shrinks.           *)
LEMMA CountLeft ==
    ASSUME NEW pc, NEW t, NEW r \in Downloads, NEW to,
           TokensTypeOK, request' = [request EXCEPT ![r] = to],
           ~(to.pc = pc /\ to.token = t)
    PROVE  /\ Cardinality(Held(pc, t)') \in Nat
           /\ Cardinality(Held(pc, t)') <= Cardinality(Held(pc, t))
           /\ r \in Held(pc, t) => Cardinality(Held(pc, t)') = Cardinality(Held(pc, t)) - 1
<1>1. IsFiniteSet(Held(pc, t)) /\ Cardinality(Held(pc, t)) \in Nat
  BY HeldIsFinite
<1>2. Held(pc, t)' = Held(pc, t) \ {r}
  BY DEF Held, TokensTypeOK
<1>3. /\ IsFiniteSet(Held(pc, t) \ {r})
      /\ Cardinality(Held(pc, t) \ {r}) =
            IF r \in Held(pc, t) THEN Cardinality(Held(pc, t)) - 1 ELSE Cardinality(Held(pc, t))
  BY <1>1, FS_RemoveElement
<1>4. Cardinality(Held(pc, t) \ {r}) \in Nat
  BY <1>3, FS_CardinalityType
<1> QED
  BY <1>1, <1>2, <1>3, <1>4

(* Calls of the administrator leave the requests and what was served alone,  *)
(* and never lower the uses or raise the limit of a link.                    *)
LEMMA AdministratorKeepsInv ==
    ASSUME TokensInv,
           \/ CreateClient \/ DeleteClient \/ ChangeMaterial
           \/ \E t \in Tokens : Revoke(t) \/ Expire(t)
    PROVE  TokensInv'
<1> USE TokensAssumption, LinkSentinel
<1>1. TokensTypeOK'
  <2>1. CASE CreateClient
    BY <2>1 DEF TokensInv, TokensTypeOK, CreateClient
  <2>2. CASE DeleteClient
    BY <2>2 DEF TokensInv, TokensTypeOK, DeleteClient
  <2>3. CASE ChangeMaterial
    BY <2>3 DEF TokensInv, TokensTypeOK, ChangeMaterial
  <2>4. ASSUME NEW t \in Tokens, Revoke(t) \/ Expire(t) PROVE TokensTypeOK'
    <3>1. link[t] \in Link
      BY <2>4 DEF TokensInv, TokensTypeOK, Revoke, Expire
    <3>2. [link[t] EXCEPT !.revoked = TRUE] \in Link /\ [link[t] EXCEPT !.expired = TRUE] \in Link
      BY <3>1 DEF Link
    <3>3. link' \in [Tokens -> Link \cup {NoLink}]
      BY <2>4, <3>2 DEF TokensInv, TokensTypeOK, Revoke, Expire
    <3>4. UNCHANGED <<client, clients, material, minted, request, served>>
      BY <2>4 DEF Revoke, Expire
    <3> QED
      BY <3>3, <3>4 DEF TokensInv, TokensTypeOK
  <2> QED
    BY <2>1, <2>2, <2>3, <2>4
<1>2. /\ UNCHANGED <<request, served, minted>>
      /\ \A t \in Tokens : link'[t] # NoLink =>
            link[t] # NoLink /\ link'[t].uses = link[t].uses /\ link'[t].max = link[t].max
  <2>1. CASE CreateClient \/ DeleteClient \/ ChangeMaterial
    BY <2>1 DEF CreateClient, DeleteClient, ChangeMaterial
  <2>2. ASSUME NEW t \in Tokens, Revoke(t) \/ Expire(t)
        PROVE  /\ UNCHANGED <<request, served, minted>>
               /\ \A u \in Tokens : link'[u] # NoLink =>
                     link[u] # NoLink /\ link'[u].uses = link[u].uses /\ link'[u].max = link[u].max
    <3>1. link[t] \in Link /\ link \in [Tokens -> Link \cup {NoLink}]
      BY <2>2 DEF TokensInv, TokensTypeOK, Revoke, Expire
    <3> QED
      BY <2>2, <3>1 DEF Revoke, Expire, Link
  <2> QED
    BY <2>1, <2>2
<1>3. \A pc, t : Held(pc, t)' = Held(pc, t)
  BY <1>2 DEF Held
<1>4. TokensDrawn'
  BY <1>2 DEF TokensInv, TokensDrawn
<1>5. Accounted'
  BY <1>2, <1>3 DEF TokensInv, Accounted
<1>6. Admitted'
  BY <1>2, <1>3 DEF TokensInv, Admitted
<1> QED
  BY <1>1, <1>4, <1>5, <1>6 DEF TokensInv

LEMMA MintKeepsInv ==
    ASSUME TokensInv, NEW m \in Tokens, NEW max \in Limits, Mint(m, max)
    PROVE  TokensInv'
<1> USE TokensAssumption, LinkSentinel
<1> DEFINE new == [max |-> max, uses |-> 0, revoked |-> FALSE, expired |-> FALSE]
<1>1. new \in Link
  BY DEF Link
<1>2. TokensTypeOK'
  BY <1>1 DEF TokensInv, TokensTypeOK, Mint
<1>3. /\ link'[m] = new /\ served' = served /\ request' = request
      /\ \A t \in Tokens \ {m} : link'[t] = link[t]
      /\ m \notin minted /\ minted' = minted \cup {m} /\ served[m] = 0
  BY DEF TokensInv, TokensTypeOK, TokensDrawn, Mint
<1>4. \A pc, t : Held(pc, t)' = Held(pc, t)
  BY <1>3 DEF Held
<1>5. \A pc \in {"count", "render"} : Held(pc, m) = {}
  BY <1>3 DEF TokensInv, TokensDrawn, Held
<1>6. TokensDrawn'
  BY <1>3 DEF TokensInv, TokensDrawn
<1>7. Cardinality({}) = 0 /\ Cardinality(Downloads) \in Nat
  BY FS_EmptySet, FS_CardinalityType
<1>8. Accounted'
  <2>1. SUFFICES ASSUME NEW t \in Tokens, link'[t] # NoLink
                 PROVE  served[t] + Cardinality(Held("render", t)) <= link'[t].uses
    BY <1>3, <1>4 DEF Accounted
  <2>2. CASE t = m
    BY <1>3, <1>5, <1>7, <2>2
  <2>3. CASE t # m
    BY <1>3, <2>1, <2>3 DEF TokensInv, Accounted
  <2> QED
    BY <2>2, <2>3
<1>9. Admitted'
  <2>1. SUFFICES ASSUME NEW t \in Tokens, link'[t] # NoLink, link'[t].max > 0
                 PROVE  link'[t].uses + Cardinality(Held("count", t))
                            <= link'[t].max + Cardinality(Downloads) - 1
    BY <1>3, <1>4 DEF Admitted
  <2>2. CASE t = m
    <3>1. link'[t] = new /\ max \in Nat /\ max > 0
      BY <1>3, <2>1, <2>2
    <3>2. Cardinality(Held("count", t)) = 0
      BY <1>5, <1>7, <2>2
    <3> QED
      BY <1>7, <3>1, <3>2
  <2>3. CASE t # m
    BY <1>3, <2>1, <2>3 DEF TokensInv, Admitted
  <2> QED
    BY <2>2, <2>3
<1> QED
  BY <1>2, <1>6, <1>8, <1>9 DEF TokensInv

(* A step of one request that changes neither links nor what was served, and *)
(* at most lets it pass the check of a link with a use left.                 *)
LEMMA MoveKeepsInv ==
    ASSUME TokensInv, NEW r \in Downloads, NEW to, TokensTypeOK',
           request' = [request EXCEPT ![r] = to],
           UNCHANGED <<link, served, minted>>,
           to.pc # "idle" => to.token \in minted,
           to.pc # "render",
           to.pc = "count" => Valid(link[to.token])
    PROVE  TokensInv'
<1>1. TokensTypeOK
  BY DEF TokensInv
<1>2. TokensDrawn'
  BY DEF TokensInv, TokensTypeOK, TokensDrawn
<1>3. \A pc, t : Cardinality(Held(pc, t)) \in Nat
  BY HeldIsFinite
<1>4. Accounted'
  <2>1. SUFFICES ASSUME NEW t \in Tokens, link[t] # NoLink
                 PROVE  served[t] + Cardinality(Held("render", t)') <= link[t].uses
    BY DEF Accounted
  <2>2. Cardinality(Held("render", t)') <= Cardinality(Held("render", t))
        /\ Cardinality(Held("render", t)') \in Nat
    BY <1>1, CountLeft
  <2>3. served[t] + Cardinality(Held("render", t)) <= link[t].uses
    BY <2>1 DEF TokensInv, Accounted
  <2>4. served[t] \in Nat /\ link[t].uses \in Nat
    BY <1>1, <2>1 DEF TokensTypeOK, Link
  <2> QED
    BY <1>3, <2>2, <2>3, <2>4
<1>5. Admitted'
  <2>1. SUFFICES ASSUME NEW t \in Tokens, link[t] # NoLink, link[t].max > 0
                 PROVE  link[t].uses + Cardinality(Held("count", t)')
                            <= link[t].max + Cardinality(Downloads) - 1
    BY DEF Admitted
  <2>2. link[t].uses \in Nat /\ link[t].max \in Nat
    BY <1>1, <2>1, TokensAssumption DEF TokensTypeOK, Link
  <2>3. Cardinality(Downloads) \in Nat
    BY HeldIsFinite
  <2>4. CASE to.pc = "count" /\ to.token = t
    <3>1. link[t].uses < link[t].max
      BY <2>1, <2>4 DEF Valid
    <3>2. Held("count", t)' \in SUBSET Downloads
      BY DEF Held
    <3>3. Cardinality(Held("count", t)') \in Nat
          /\ Cardinality(Held("count", t)') <= Cardinality(Downloads)
      BY <3>2, TokensAssumption, FS_Subset, FS_CardinalityType
    <3> QED
      BY <2>2, <2>3, <3>1, <3>3
  <2>5. CASE ~(to.pc = "count" /\ to.token = t)
    <3>1. Cardinality(Held("count", t)') <= Cardinality(Held("count", t))
          /\ Cardinality(Held("count", t)') \in Nat
      BY <1>1, <2>5, CountLeft
    <3>2. link[t].uses + Cardinality(Held("count", t)) <= link[t].max + Cardinality(Downloads) - 1
      BY <2>1 DEF TokensInv, Admitted
    <3> QED
      BY <1>3, <2>2, <2>3, <3>1, <3>2
  <2> QED
    BY <2>4, <2>5
<1> QED
  BY <1>2, <1>4, <1>5 DEF TokensInv

LEMMA CountKeepsInv ==
    ASSUME TokensInv, NEW r \in Downloads, Count(r)
    PROVE  TokensInv'
<1> USE TokensAssumption, LinkSentinel
<1> DEFINE u == request[r].token
           to == [request[r] EXCEPT !.pc = "render"]
<1>1. /\ TokensTypeOK /\ u \in Tokens /\ u \in minted
      /\ request[r].pc = "count"
      /\ request' = [request EXCEPT ![r] = to]
      /\ to.pc = "render" /\ to.token = u
      /\ UNCHANGED <<client, clients, material, minted, served>>
      /\ link' = Counted(u)
  BY DEF TokensInv, TokensTypeOK, TokensDrawn, Count
<1>2. to \in [pc : {"idle", "check", "count", "render"},
              token : Tokens \cup {NoToken}, live : BOOLEAN]
  BY <1>1 DEF TokensTypeOK
<1>3. link \in [Tokens -> Link \cup {NoLink}]
  BY <1>1 DEF TokensTypeOK
<1>4. /\ \A t \in Tokens \ {u} : link'[t] = link[t]
      /\ link[u] = NoLink => link'[u] = NoLink
      /\ link[u] # NoLink => /\ link[u] \in Link
                             /\ link'[u] = [link[u] EXCEPT !.uses = link[u].uses + 1]
  BY <1>1, <1>3 DEF Counted
<1>5. ASSUME link[u] # NoLink
      PROVE  /\ link[u].uses \in Nat /\ link[u].max \in Nat /\ link'[u] \in Link
             /\ link'[u].uses = link[u].uses + 1 /\ link'[u].max = link[u].max
  BY <1>4, <1>5 DEF Link
<1>6. TokensTypeOK'
  <2>1. link' \in [Tokens -> Link \cup {NoLink}]
    <3>1. DOMAIN link' = Tokens /\ link' = [t \in DOMAIN link' |-> link'[t]]
      BY <1>1, <1>3 DEF Counted
    <3>2. \A t \in Tokens : link'[t] \in Link \cup {NoLink}
      BY <1>3, <1>4, <1>5
    <3> QED
      BY <3>1, <3>2
  <2>2. request' \in [Downloads -> [pc : {"idle", "check", "count", "render"},
                                   token : Tokens \cup {NoToken}, live : BOOLEAN]]
    BY <1>1, <1>2 DEF TokensTypeOK
  <2> QED
    BY <1>1, <2>1, <2>2 DEF TokensTypeOK
<1>7. TokensDrawn'
  BY <1>1, <1>4 DEF TokensInv, TokensTypeOK, TokensDrawn
<1>8. \A pc, t : Cardinality(Held(pc, t)) \in Nat
  BY HeldIsFinite
<1> HIDE DEF to
<1>9. Accounted'
  <2>1. SUFFICES ASSUME NEW t \in Tokens, link'[t] # NoLink
                 PROVE  served[t] + Cardinality(Held("render", t)') <= link'[t].uses
    BY <1>1 DEF Accounted
  <2>2. link[t] # NoLink /\ served[t] \in Nat /\ link[t].uses \in Nat
    BY <1>1, <1>4, <2>1 DEF TokensTypeOK, Link
  <2>3. served[t] + Cardinality(Held("render", t)) <= link[t].uses
    BY <2>2 DEF TokensInv, Accounted
  <2>4. CASE t = u
    <3>1. Cardinality(Held("render", t)') <= Cardinality(Held("render", t)) + 1
          /\ Cardinality(Held("render", t)') \in Nat
      BY <1>1, <2>4, CountEntered
    <3> QED
      BY <1>5, <1>8, <2>2, <2>3, <2>4, <3>1
  <2>5. CASE t # u
    <3>1. Cardinality(Held("render", t)') <= Cardinality(Held("render", t))
          /\ Cardinality(Held("render", t)') \in Nat
      BY <1>1, <2>5, CountLeft
    <3> QED
      BY <1>4, <1>8, <2>2, <2>3, <2>5, <3>1
  <2> QED
    BY <2>4, <2>5
<1>10. Admitted'
  <2>1. SUFFICES ASSUME NEW t \in Tokens, link'[t] # NoLink, link'[t].max > 0
                 PROVE  link'[t].uses + Cardinality(Held("count", t)')
                            <= link'[t].max + Cardinality(Downloads) - 1
    BY <1>1 DEF Admitted
  <2>2. link[t] # NoLink /\ link[t].uses \in Nat /\ link[t].max \in Nat /\ link'[t].max = link[t].max
    BY <1>1, <1>4, <1>5, <2>1 DEF TokensTypeOK, Link
  <2>3. link[t].uses + Cardinality(Held("count", t)) <= link[t].max + Cardinality(Downloads) - 1
    BY <2>1, <2>2 DEF TokensInv, Admitted
  <2>4. Cardinality(Downloads) \in Nat
    BY HeldIsFinite
  <2>5. CASE t = u
    <3>1. r \in Held("count", t)
      BY <1>1, <2>5 DEF Held
    <3>2. Cardinality(Held("count", t)') = Cardinality(Held("count", t)) - 1
      BY <1>1, <3>1, CountLeft
    <3> QED
      BY <1>5, <1>8, <2>2, <2>3, <2>4, <2>5, <3>2
  <2>6. CASE t # u
    <3>1. Cardinality(Held("count", t)') <= Cardinality(Held("count", t))
          /\ Cardinality(Held("count", t)') \in Nat
      BY <1>1, <2>6, CountLeft
    <3> QED
      BY <1>4, <1>8, <2>2, <2>3, <2>4, <2>6, <3>1
  <2> QED
    BY <2>5, <2>6
<1> QED
  BY <1>6, <1>7, <1>9, <1>10 DEF TokensInv

LEMMA RenderKeepsInv ==
    ASSUME TokensInv, NEW r \in Downloads, Render(r)
    PROVE  TokensInv'
<1> DEFINE u == request[r].token
<1>1. /\ TokensTypeOK /\ u \in Tokens /\ u \in minted
      /\ request[r].pc = "render"
      /\ request' = [request EXCEPT ![r] = NoDownload]
      /\ NoDownload.pc = "idle"
      /\ UNCHANGED <<client, clients, material, link, minted>>
      /\ served' \in {served, [served EXCEPT ![u] = @ + 1]}
  BY DEF TokensInv, TokensTypeOK, TokensDrawn, Render, NoDownload
<1>2. TokensTypeOK'
  BY <1>1 DEF TokensTypeOK, NoDownload
<1>3. TokensDrawn'
  BY <1>1 DEF TokensInv, TokensTypeOK, TokensDrawn
<1>4. Accounted'
  <2>1. SUFFICES ASSUME NEW t \in Tokens, link[t] # NoLink
                 PROVE  served'[t] + Cardinality(Held("render", t)') <= link[t].uses
    BY <1>1 DEF Accounted
  <2>2. served[t] \in Nat /\ link[t].uses \in Nat
    BY <1>1, <2>1 DEF TokensTypeOK, Link
  <2>3. served[t] + Cardinality(Held("render", t)) <= link[t].uses
    BY <2>1 DEF TokensInv, Accounted
  <2>4. Cardinality(Held("render", t)) \in Nat
    BY HeldIsFinite
  <2>5. /\ Cardinality(Held("render", t)') \in Nat
        /\ Cardinality(Held("render", t)') <= Cardinality(Held("render", t))
        /\ r \in Held("render", t) => Cardinality(Held("render", t)') = Cardinality(Held("render", t)) - 1
    BY <1>1, CountLeft
  <2>6. CASE t = u
    <3>1. r \in Held("render", t)
      BY <1>1, <2>6 DEF Held
    <3>2. served'[t] \in {served[t], served[t] + 1}
      BY <1>1, <2>6 DEF TokensTypeOK
    <3> QED
      BY <2>2, <2>3, <2>4, <2>5, <3>1, <3>2
  <2>7. CASE t # u
    <3>1. served'[t] = served[t]
      BY <1>1, <2>7 DEF TokensTypeOK
    <3> QED
      BY <2>2, <2>3, <2>4, <2>5, <3>1
  <2> QED
    BY <2>6, <2>7
<1>5. Admitted'
  <2>1. SUFFICES ASSUME NEW t \in Tokens, link[t] # NoLink, link[t].max > 0
                 PROVE  link[t].uses + Cardinality(Held("count", t)')
                            <= link[t].max + Cardinality(Downloads) - 1
    BY <1>1 DEF Admitted
  <2>2. link[t].uses \in Nat /\ link[t].max \in Nat
    BY <1>1, <2>1, TokensAssumption DEF TokensTypeOK, Link
  <2>3. link[t].uses + Cardinality(Held("count", t)) <= link[t].max + Cardinality(Downloads) - 1
    BY <2>1 DEF TokensInv, Admitted
  <2>4. Cardinality(Held("count", t)) \in Nat /\ Cardinality(Downloads) \in Nat
    BY HeldIsFinite
  <2>5. /\ Cardinality(Held("count", t)') \in Nat
        /\ Cardinality(Held("count", t)') <= Cardinality(Held("count", t))
    BY <1>1, CountLeft
  <2> QED
    BY <2>2, <2>3, <2>4, <2>5
<1> QED
  BY <1>2, <1>3, <1>4, <1>5 DEF TokensInv

LEMMA DownloadKeepsInv ==
    ASSUME TokensInv, NEW r \in Downloads, Download(r)
    PROVE  TokensInv'
<1>1. ASSUME NEW t \in Tokens, Arrive(r, t) PROVE TokensInv'
  <2> DEFINE to == [pc |-> "check", token |-> t,
                    live |-> link[t] # NoLink /\ ~link[t].revoked /\ ~link[t].expired]
  <2>1. /\ request' = [request EXCEPT ![r] = to]
        /\ UNCHANGED <<link, served, minted>> /\ t \in minted
    BY <1>1 DEF Arrive
  <2>2. to \in [pc : {"idle", "check", "count", "render"},
                token : Tokens \cup {NoToken}, live : BOOLEAN]
    <3>1. (link[t] # NoLink /\ ~link[t].revoked /\ ~link[t].expired) \in BOOLEAN
      OBVIOUS
    <3> QED
      BY <3>1
  <2>3. TokensTypeOK'
    BY <1>1, <2>1, <2>2 DEF TokensInv, TokensTypeOK, Arrive
  <2>4. to.pc = "check" /\ to.token = t
    OBVIOUS
  <2> HIDE DEF to
  <2> QED
    BY <2>1, <2>3, <2>4, MoveKeepsInv
<1>2. CASE Check(r)
  <2> DEFINE to == IF Valid(link[request[r].token])
                   THEN [request[r] EXCEPT !.pc = "count"] ELSE NoDownload
  <2>1. /\ request' = [request EXCEPT ![r] = to]
        /\ UNCHANGED <<client, clients, material, link, minted, served>>
    BY <1>2 DEF Check
  <2>2. /\ request[r] \in [pc : {"idle", "check", "count", "render"},
                           token : Tokens \cup {NoToken}, live : BOOLEAN]
        /\ request[r].pc = "check" /\ request[r].token \in minted
    BY <1>2 DEF TokensInv, TokensTypeOK, TokensDrawn, Check
  <2>3. /\ to \in [pc : {"idle", "check", "count", "render"},
                   token : Tokens \cup {NoToken}, live : BOOLEAN]
        /\ to.pc # "idle" => to.token \in minted
        /\ to.pc # "render"
        /\ to.pc = "count" => Valid(link[to.token])
    BY <2>2 DEF NoDownload
  <2> HIDE DEF to
  <2>4. TokensTypeOK'
    BY <2>1, <2>3 DEF TokensInv, TokensTypeOK
  <2> QED
    BY <2>1, <2>3, <2>4, MoveKeepsInv
<1>3. CASE Abort(r)
  <2>1. /\ request' = [request EXCEPT ![r] = NoDownload]
        /\ UNCHANGED <<client, clients, material, link, minted, served>>
    BY <1>3 DEF Abort
  <2>2. NoDownload.pc = "idle"
    BY DEF NoDownload
  <2>3. TokensTypeOK'
    BY <2>1 DEF TokensInv, TokensTypeOK, NoDownload
  <2> QED
    BY <2>1, <2>2, <2>3, MoveKeepsInv
<1> QED
  BY <1>1, <1>2, <1>3, CountKeepsInv, RenderKeepsInv DEF Download

LEMMA TokensInitInv == TokensInit => TokensInv
<1> SUFFICES ASSUME TokensInit PROVE TokensInv
  OBVIOUS
<1>1. TokensTypeOK
  BY TokensAssumption DEF TokensInit, TokensTypeOK, NoDownload
<1>2. TokensDrawn /\ \A t \in Tokens : link[t] = NoLink
  BY DEF TokensInit, TokensDrawn, NoDownload
<1> QED
  BY <1>1, <1>2 DEF TokensInv, Accounted, Admitted

LEMMA TokensNextKeepsInv ==
    ASSUME TokensInv, [TokensNext]_tokensVars
    PROVE  TokensInv'
<1>1. CASE UNCHANGED tokensVars
  BY <1>1 DEF tokensVars, TokensInv, TokensTypeOK, TokensDrawn, Accounted, Admitted, Held
<1>2. CASE TokensNext
  BY <1>2, AdministratorKeepsInv, MintKeepsInv, DownloadKeepsInv DEF TokensNext
<1> QED
  BY <1>1, <1>2

LEMMA InvBoundsDownloads ==
    ASSUME TokensInv
    PROVE  CountsEveryDownload /\ BoundedOveruse
<1>1. ASSUME NEW t \in Tokens, link[t] # NoLink
      PROVE  /\ served[t] <= link[t].uses
             /\ link[t].max > 0 => served[t] <= link[t].max + Cardinality(Downloads) - 1
  <2>1. /\ Cardinality(Held("render", t)) \in Nat /\ Cardinality(Held("count", t)) \in Nat
        /\ Cardinality(Downloads) \in Nat
    BY HeldIsFinite
  <2>2. served[t] \in Nat /\ link[t].uses \in Nat /\ link[t].max \in Nat
    BY <1>1, TokensAssumption DEF TokensInv, TokensTypeOK, Link
  <2>3. served[t] + Cardinality(Held("render", t)) <= link[t].uses
    BY <1>1 DEF TokensInv, Accounted
  <2>4. link[t].max > 0 => link[t].uses + Cardinality(Held("count", t))
                              <= link[t].max + Cardinality(Downloads) - 1
    BY <1>1 DEF TokensInv, Admitted
  <2> QED
    BY <2>1, <2>2, <2>3, <2>4
<1> QED
  BY <1>1 DEF CountsEveryDownload, BoundedOveruse

LEMMA TokensInvHolds == TokensSpec => []TokensInv
<1>1. TokensInit => TokensInv
  BY TokensInitInv
<1>2. TokensInv /\ [TokensNext]_tokensVars => TokensInv'
  BY TokensNextKeepsInv
<1> QED
  BY <1>1, <1>2, PTL DEF TokensSpec

(* A link that is dead stays dead: nothing revives a row, and a token is      *)
(* never drawn twice.  So what a request learns at its check is what it would *)
(* have learnt when it arrived, if the link was dead then.                    *)
Dead(t) == link[t] = NoLink \/ link[t].revoked \/ link[t].expired

ChecksSeeDeath ==
    \A r \in Downloads :
        (request[r].pc = "check" /\ ~request[r].live) => Dead(request[r].token)

DeathInv == ChecksSeeDeath /\ DeadLinksServeNothing

LEMMA DeadStaysDead ==
    ASSUME TokensInv, [TokensNext]_tokensVars, NEW t \in minted, Dead(t)
    PROVE  Dead(t)'
<1> USE TokensAssumption, LinkSentinel
<1>1. t \in Tokens /\ link \in [Tokens -> Link \cup {NoLink}]
  BY DEF TokensInv, TokensTypeOK
<1>2. CASE UNCHANGED link
  BY <1>2 DEF Dead
<1>3. CASE DeleteClient
  BY <1>1, <1>3 DEF Dead, DeleteClient
<1>4. ASSUME NEW u \in Tokens, Revoke(u) \/ Expire(u)
      PROVE  Dead(t)'
  <2>1. link[u] \in Link
    BY <1>1, <1>4 DEF Revoke, Expire
  <2>2. /\ u # t => link'[t] = link[t]
        /\ u = t => link'[t].revoked \/ link'[t].expired
    BY <1>1, <1>4, <2>1 DEF Revoke, Expire, Link
  <2> QED
    BY <2>2 DEF Dead
<1>5. ASSUME NEW u \in Tokens, NEW max \in Limits, Mint(u, max)
      PROVE  Dead(t)'
  BY <1>1, <1>5 DEF Dead, Mint
<1>6. ASSUME NEW r \in Downloads, Count(r)
      PROVE  Dead(t)'
  <2> DEFINE u == request[r].token
  <2>1. link' = Counted(u)
    BY <1>6 DEF Count
  <2>2. CASE link[u] = NoLink \/ u # t
    BY <1>1, <2>1, <2>2 DEF Dead, Counted
  <2>3. CASE link[u] # NoLink /\ u = t
    <3>1. link[t] \in Link /\ link[t] # NoLink
      BY <1>1, <2>3
    <3>2. link'[t] = [link[t] EXCEPT !.uses = link[t].uses + 1]
      BY <1>1, <2>1, <2>3 DEF Counted
    <3>3. link'[t].revoked = link[t].revoked /\ link'[t].expired = link[t].expired
      BY <3>1, <3>2 DEF Link
    <3> QED
      BY <3>1, <3>3 DEF Dead
  <2> QED
    BY <2>2, <2>3
<1> QED
  BY <1>2, <1>3, <1>4, <1>5, <1>6
  DEF TokensNext, tokensVars, CreateClient, ChangeMaterial, Download, Arrive, Check, Render, Abort

LEMMA NextKeepsDeathInv ==
    ASSUME TokensInv, DeathInv, [TokensNext]_tokensVars
    PROVE  DeathInv'
<1>1. TokensTypeOK /\ ChecksSeeDeath /\ DeadLinksServeNothing
  BY DEF TokensInv, DeathInv
<1>2. CASE UNCHANGED request
  BY <1>2, DeadStaysDead DEF TokensInv, TokensDrawn, DeathInv, ChecksSeeDeath, DeadLinksServeNothing
<1>3. ASSUME NEW r \in Downloads, Download(r)
      PROVE  DeathInv'
  <2>1. \A q \in Downloads \ {r} : request'[q] = request[q]
    BY <1>1, <1>3 DEF TokensTypeOK, Download, Arrive, Check, Count, Render, Abort
  <2> DEFINE Good ==
        /\ (request[r].pc = "check" /\ ~request[r].live) => Dead(request[r].token)
        /\ request[r].pc \in {"count", "render"} => request[r].live
  <2>2. Good'
    <3>1. CASE Render(r) \/ Abort(r)
      BY <1>1, <3>1 DEF TokensTypeOK, Render, Abort, NoDownload
    <3>2. CASE Count(r)
      BY <1>1, <3>2 DEF TokensTypeOK, Count, DeadLinksServeNothing
    <3>3. CASE Check(r)
      BY <1>1, <3>3 DEF TokensTypeOK, Check, NoDownload, Valid, Dead, ChecksSeeDeath
    <3>4. ASSUME NEW t \in Tokens, Arrive(r, t)
          PROVE  Good'
      BY <1>1, <3>4 DEF TokensTypeOK, Arrive, Dead
    <3> QED
      BY <1>3, <3>1, <3>2, <3>3, <3>4 DEF Download
  <2>3. \A q \in Downloads \ {r} :
            request[q].pc # "idle" /\ Dead(request[q].token) => Dead(request[q].token)'
    <3>1. ASSUME NEW q \in Downloads \ {r}, request[q].pc # "idle", Dead(request[q].token)
          PROVE  Dead(request[q].token)'
      <4> DEFINE t == request[q].token
      <4>1. t \in minted /\ t' = t
        BY <2>1, <3>1 DEF TokensInv, TokensDrawn
      <4>2. ASSUME NEW u \in minted, Dead(u) PROVE Dead(u)'
        BY <4>2, DeadStaysDead
      <4> QED
        BY <3>1, <4>1, <4>2 DEF Dead
    <3> QED
      BY <3>1
  <2> QED
    BY <1>1, <2>1, <2>2, <2>3 DEF DeathInv, ChecksSeeDeath, DeadLinksServeNothing
<1> QED
  BY <1>2, <1>3
  DEF TokensNext, tokensVars, CreateClient, DeleteClient, ChangeMaterial, Revoke, Expire, Mint

(* A request that arrives when its link is revoked, expired or gone counts    *)
(* no use and renders nothing, whatever the administrator and the other       *)
(* requests do between its check and its statements.                          *)
THEOREM DeadLinksAreRefused == TokensSpec => []DeadLinksServeNothing
<1>1. TokensInit => DeathInv
  BY DEF TokensInit, NoDownload, DeathInv, ChecksSeeDeath, DeadLinksServeNothing
<1>2. TokensInv /\ DeathInv /\ [TokensNext]_tokensVars => DeathInv'
  BY NextKeepsDeathInv
<1>3. DeathInv => DeadLinksServeNothing
  BY DEF DeathInv
<1> QED
  BY <1>1, <1>2, <1>3, TokensInvHolds, PTL DEF TokensSpec

(* For any number of links and requests, no download escapes use_count.      *)
THEOREM EveryDownloadCounted == TokensSpec => []CountsEveryDownload
<1>1. TokensInv => CountsEveryDownload
  BY InvBoundsDownloads
<1> QED
  BY <1>1, TokensInvHolds, PTL

(* With R requests at a time a limit of n lets through at most n + R - 1.    *)
THEOREM OveruseIsBounded == TokensSpec => []BoundedOveruse
<1>1. TokensInv => BoundedOveruse
  BY InvBoundsDownloads
<1> QED
  BY <1>1, TokensInvHolds, PTL
===============================================================================
