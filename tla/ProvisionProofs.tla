--------------------------- MODULE ProvisionProofs ---------------------------
(***************************************************************************)
(* What Provision.tla promises, for every number of handlers, requests,    *)
(* networks, ports and processes: the types, that what the daemon chooses  *)
(* is free, and that a take-over signals openvpn only and never leaves the *)
(* instance beside the process it takes over.                              *)
(***************************************************************************)
EXTENDS Provision, WellFoundedInduction, TLAPS

------------------------------------------------------------------------------
(* What the handlers hold: nothing, a request for an instance, with what was *)
(* prepared for it once that is known, or a request for a client.            *)
Early == {"materialize", "context"}
Waiting == {"inspect", "check", "term", "poll", "kill", "reap"}
Late == {"insert", "issue", "wire", "reconcile", "enable", "final"} \cup Waiting
New == [name : Names, port : {None} \cup Ports, net : {NoNet} \cup Nets, auto : BOOLEAN]
InstanceCall(pcs, news) ==
    [pc : pcs, req : Asked, new : news, tag : 1..MaxCalls, keys : 0..MaxCalls, sure : BOOLEAN,
     seen : {NoRow} \cup Seen, gen : 0..MaxGen]
ClientCall ==
    [pc : {"insertClient", "issueClient"}, cn : CNs, ip : Addresses, auto : BOOLEAN, sure : BOOLEAN]
Call == {Idle} \cup InstanceCall(Early, {None}) \cup InstanceCall(Late, New) \cup ClientCall

(* The process that a row takes over has ended, or its pid is another's.     *)
QuitIn(processes, o) ==
    ~(o.pid \in Pids /\ processes[o.pid].kind # "none" /\ processes[o.pid].gen = o.gen)
Quit(o) == QuitIn(proc, o)

(* A row was made by a request that was served; the process it takes over is *)
(* one there was; and it is enabled, or runs, when that process is gone, or  *)
(* when someone else brought it up.                                          *)
Runs(n) == rows[n].enabled \/ n \in managed
RowOK(n) ==
    LET r == rows[n] IN
    /\ r.tag <= served
    /\ r.over.pid \in Pids => r.over.gen <= proc[r.over.pid].gen
    /\ Runs(n) /\ ~r.up => Quit(r.over)
RowsOK == \A n \in Rows : RowOK(n)

(* Every request of an instance has a number of its own, and no row before   *)
(* it makes one.                                                             *)
OfInstance(c) == calls[c].pc \in Early \cup Late
TagsOK ==
    \A c \in Calls : OfInstance(c) =>
        /\ calls[c].tag <= served
        /\ \A d \in Calls : OfInstance(d) /\ calls[d].tag = calls[c].tag => d = c
        /\ calls[c].pc \in Early \cup {"insert"} => \A n \in Rows : rows[n].tag # calls[c].tag

(* The row of a take-over does not run before its end, but by someone        *)
(* else, and names the process that is stopped until that is gone.           *)
TakesOver(k) == k.pc \in Waiting \/ (k.pc \in {"issue", "wire", "reconcile"} /\ k.req.takeover)
OwnRowOK(c) ==
    LET k == calls[c] r == rows[Over(c)] IN
    k.pc \in Late /\ Own(c) =>
        /\ TakesOver(k) => ~Runs(Over(c)) \/ r.up
        /\ k.pc \in Waiting \ {"inspect"} => r.over.pid = k.req.pid
        /\ k.pc = "enable" => Quit(r.over)
OwnRowsOK == \A c \in Calls : OwnRowOK(c)

(* The process that a take-over is about to signal was openvpn at the last   *)
(* look; while it is the same process it is nothing else.                    *)
LookOK(c) ==
    LET k == calls[c] p == k.req.pid IN
    /\ k.pc \in Waiting \ {"inspect"} => p \in Pids
    /\ k.pc \in {"term", "kill"} =>
         k.gen <= proc[p].gen /\ (k.gen = proc[p].gen => proc[p].kind # "other")
LooksOK == \A c \in Calls : LookOK(c)

(* What was prepared from what is there still fits.                          *)
FitOK(c) ==
    /\ calls[c].pc = "insert" /\ calls[c].sure => InstanceFits(calls[c].new)
    /\ calls[c].pc = "insertClient" /\ calls[c].sure /\ calls[c].auto =>
         calls[c].ip \in (2..(PoolTop - 1)) \ Used
FitsOK == \A c \in Calls : FitOK(c)

CallsTyped == calls \in [Calls -> Call]
RunsMade == managed \subseteq Rows
Inv == /\ TypeOK /\ CallsTyped /\ RunsMade
       /\ RowsOK /\ TagsOK /\ OwnRowsOK /\ LooksOK /\ FitsOK

------------------------------------------------------------------------------
(* Choosing                                                                  *)

(* Min is the least member of a set of numbers that has one.                 *)
LEMMA MinIsLeast ==
    ASSUME NEW S \in SUBSET Nat, S # {}
    PROVE  Min(S) \in S /\ \A y \in S : Min(S) =< y
<1>1. PICK x \in S : \A y \in S : ~(<<y, x>> \in OpToRel(<, Nat))
  BY NatLessThanWellFounded, WFMin, Zenon
<1>2. ASSUME NEW y \in S
      PROVE  x =< y
  <2>1. ~(y < x)
    BY <1>1 DEF OpToRel
  <2> QED
    BY <2>1
<1> QED
  BY <1>2 DEF Min

(* The least address of a block is its first.                                *)
LEMMA MinOfBlock ==
    ASSUME NEW lo \in Int, NEW hi \in Int, lo <= hi
    PROVE  Min(lo..hi) = lo
<1>1. lo \in lo..hi /\ \A y \in lo..hi : lo =< y
  OBVIOUS
<1>2. \A x \in lo..hi : (\A y \in lo..hi : x =< y) => x = lo
  OBVIOUS
<1> QED
  BY <1>1, <1>2 DEF Min

(* Networks that do not overlap, as the first address of neither is in the   *)
(* other, have no address in common.                                         *)
LEMMA ApartIsDisjoint ==
    ASSUME NEW a \in Nets, NEW b \in Nets, ~Overlap(a, b)
    PROVE  a \cap b = {}
<1>1. PICK la, ha \in a : a = la..ha
  BY ProvisionAssumption
<1>2. PICK lb, hb \in b : b = lb..hb
  BY ProvisionAssumption
<1>3. {la, ha, lb, hb} \subseteq Int /\ la <= ha /\ lb <= hb
  BY <1>1, <1>2, ProvisionAssumption
<1>4. Min(a) = la /\ Min(b) = lb
  BY <1>1, <1>2, <1>3, MinOfBlock
<1>5. lb \notin la..ha /\ la \notin lb..hb
  BY <1>1, <1>2, <1>4 DEF Overlap
<1> QED
  BY <1>1, <1>2, <1>3, <1>5

(* A port that is chosen is one of the span, and free unless none is.        *)
LEMMA NextPortIsFree ==
    ASSUME NEW used
    PROVE  /\ NextPort(used) \in 1..PortSpan
           /\ NextPort(used) \notin used \/ 1..PortSpan \subseteq used
<1> DEFINE free == (1..PortSpan) \ used
<1>1. PortSpan \in Nat \ {0}
  BY ProvisionAssumption DEF Ports
<1>2. free # {} => Min(free) \in free
  BY <1>1, MinIsLeast
<1> QED
  BY <1>1, <1>2 DEF NextPort

(* A network that is chosen is one of those that are tried.                  *)
LEMMA NextServerNetworkIsKnown ==
    ASSUME NEW nets
    PROVE  NextServerNetwork(nets) \in Nets
<1> DEFINE free == {i \in DOMAIN AutoNetworks : Free(AutoNetworks[i], nets)}
<1>1. DOMAIN AutoNetworks \subseteq Nat /\ 1 \in DOMAIN AutoNetworks
  <2> DEFINE known == Nets
  <2>1. AutoNetworks \in Seq(known) /\ Len(AutoNetworks) >= 1
    BY ProvisionAssumption
  <2> HIDE DEF known
  <2>2. DOMAIN AutoNetworks = 1..Len(AutoNetworks) /\ Len(AutoNetworks) \in Nat
    BY <2>1
  <2> QED
    BY <2>1, <2>2
<1>2. free \subseteq Nat /\ free \subseteq DOMAIN AutoNetworks
  BY <1>1
<1>3. free # {} => Min(free) \in free
  BY <1>2, MinIsLeast
<1>4. (IF free # {} THEN Min(free) ELSE 1) \in DOMAIN AutoNetworks
  BY <1>1, <1>2, <1>3
<1> QED
  BY <1>4 DEF NextServerNetwork, Nets

(* An address that is chosen is a host's and free.                           *)
LEMMA AllocatedIsFree ==
    ASSUME NEW used, NEW a \in AllocateNextHost(used)
    PROVE  a \in (2..(PoolTop - 1)) \ used /\ a \in Addresses
<1> DEFINE free == (2..(PoolTop - 1)) \ used
<1>1. PoolTop \in Nat
  BY ProvisionAssumption
<1>2. free \in SUBSET Nat /\ free # {} /\ a = Min(free)
  BY <1>1 DEF AllocateNextHost
<1>3. a \in free
  BY <1>2, MinIsLeast
<1> QED
  BY <1>1, <1>3 DEF Addresses

------------------------------------------------------------------------------
(* What a step leaves as it was                                              *)

(* A process ends, or a new one has its pid.                                 *)
ProcMoves ==
    \A p \in Pids :
        /\ proc'[p].gen >= proc[p].gen
        /\ proc'[p].gen = proc[p].gen => proc'[p].kind \in {proc[p].kind, "none"}
        /\ proc'[p].gen # proc[p].gen => proc[p].kind = "none"

(* A handler that does not move, but may find what it read stale.            *)
StaysPut(d) ==
    \/ calls'[d] = calls[d]
    \/ /\ calls[d].pc \in {"insert", "insertClient"}
       /\ calls'[d] = [calls[d] EXCEPT !.sure = FALSE]

(* A handler of an instance is still that request's, and does not go back.   *)
Advances(d) ==
    OfInstance(d)' =>
        /\ OfInstance(d) /\ calls'[d].tag = calls[d].tag
        /\ calls'[d].pc \in Early \cup {"insert"} => calls[d].pc \in Early \cup {"insert"}

(* The row of the request t, if it is there, was there.                      *)
KeptFor(t) ==
    \A n \in Rows' :
        rows'[n].tag = t =>
            /\ n \in Rows /\ rows[n].tag = t /\ rows'[n].over = rows[n].over
            /\ ~Runs(n) \/ rows[n].up => ~Runs(n)' \/ rows'[n].up

(* No row is made.                                                           *)
NoneMade == \A n \in Rows' : n \in Rows /\ rows'[n].tag = rows[n].tag

(* The same rows have the same ports and networks.                           *)
SamePlaces ==
    /\ Rows' = Rows
    /\ \A n \in Rows : rows'[n].port = rows[n].port /\ rows'[n].net = rows[n].net

(* A row in Rows is a Row, whatever NoRow is.                                *)
LEMMA RowsAreRows ==
    ASSUME TypeOK, NEW n \in Rows
    PROVE  n \in Names /\ rows[n] \in Row
  BY DEF TypeOK, Rows

(* The bounds are numbers.                                                   *)
LEMMA Bounds ==
    {NameTop, PortTop, PoolTop, MaxGen, MaxCalls, MaxPatches, PortSpan} \subseteq Nat
  BY ProvisionAssumption

(* No process has the pid of none.                                           *)
LEMMA NoPidIsNone == NoPid \notin Pids
<1>1. Pids \subseteq Nat \ {0} /\ NoPid = 0
  BY ProvisionAssumption
<1> QED
  BY <1>1

(* The counters and the ages of the processes are numbers.                   *)
LEMMA Counted ==
    ASSUME TypeOK
    PROVE  /\ served \in Nat /\ patched \in Nat
           /\ \A p \in Pids : proc[p].gen \in Nat /\ proc[p].gen <= MaxGen
                             /\ proc[p].kind \in {"none", "openvpn", "other"}
  BY Bounds DEF TypeOK

(* They are after a step as well.                                            *)
LEMMA CountedAfter ==
    ASSUME TypeOK'
    PROVE  /\ served' \in Nat /\ patched' \in Nat
           /\ \A p \in Pids : proc'[p].gen \in Nat /\ proc'[p].gen <= MaxGen
                             /\ proc'[p].kind \in {"none", "openvpn", "other"}
  BY Bounds DEF TypeOK

(* What a row is made of.                                                    *)
LEMMA RowFields ==
    ASSUME NEW r \in Row
    PROVE  /\ r.over.pid \in {NoPid} \cup Pids /\ r.over.gen \in Nat /\ r.tag \in Nat
           /\ r.enabled \in BOOLEAN /\ r.up \in BOOLEAN
  BY Bounds DEF Row

(* What a request of an instance is made of.                                 *)
LEMMA InstanceCallFields ==
    ASSUME NEW pcs, NEW news, NEW k \in InstanceCall(pcs, news)
    PROVE  /\ k.pc \in pcs /\ k.req \in Asked /\ k.new \in news /\ k.tag \in 1..MaxCalls
           /\ k.keys \in 0..MaxCalls /\ k.gen \in 0..MaxGen /\ k.sure \in BOOLEAN
           /\ k.seen \in {NoRow} \cup Seen
  BY DEF InstanceCall

(* The calls of instances have their fields.                                 *)
LEMMA CallFields ==
    ASSUME CallsTyped, NEW c \in Calls, OfInstance(c)
    PROVE  /\ calls[c].req \in Asked /\ calls[c].tag \in 1..MaxCalls
           /\ calls[c].keys \in 0..MaxCalls /\ calls[c].gen \in 0..MaxGen
           /\ calls[c].sure \in BOOLEAN
           /\ \/ calls[c].pc \in Early /\ calls[c] \in InstanceCall(Early, {None})
              \/ calls[c].pc \in Late /\ calls[c] \in InstanceCall(Late, New) /\ calls[c].new \in New
<1> DEFINE k == calls[c]
<1>1. k \in {Idle} \cup InstanceCall(Early, {None}) \cup InstanceCall(Late, New) \cup ClientCall
  BY DEF CallsTyped, Call
<1>2. k.pc \in Early \cup Late
  BY DEF OfInstance
<1>3. k \notin {Idle} \cup ClientCall
  BY <1>2 DEF Idle, ClientCall, Early, Late, Waiting
<1>4. CASE k \in InstanceCall(Early, {None})
  <2>1. /\ k.req \in Asked /\ k.tag \in 1..MaxCalls /\ k.keys \in 0..MaxCalls
        /\ k.gen \in 0..MaxGen /\ k.sure \in BOOLEAN /\ k.pc \in Early
    <3> HIDE DEF k
    <3> QED
      BY <1>4, InstanceCallFields
  <2> QED
    BY <1>4, <2>1
<1>5. CASE k \in InstanceCall(Late, New)
  <2>1. /\ k.req \in Asked /\ k.tag \in 1..MaxCalls /\ k.keys \in 0..MaxCalls
        /\ k.gen \in 0..MaxGen /\ k.sure \in BOOLEAN /\ k.pc \in Late /\ k.new \in New
    <3> HIDE DEF k
    <3> QED
      BY <1>5, InstanceCallFields
  <2> QED
    BY <1>5, <2>1
<1> QED
  BY <1>1, <1>3, <1>4, <1>5

(* The calls of clients have theirs.                                         *)
LEMMA ClientCallFields ==
    ASSUME CallsTyped, NEW c \in Calls, calls[c].pc \in {"insertClient", "issueClient"}
    PROVE  calls[c] \in ClientCall
<1> DEFINE k == calls[c]
<1>1. k \in {Idle} \cup InstanceCall(Early, {None}) \cup InstanceCall(Late, New) \cup ClientCall
  BY DEF CallsTyped, Call
<1>2. k \notin {Idle} \cup InstanceCall(Early, {None}) \cup InstanceCall(Late, New)
  BY DEF Idle, InstanceCall, Early, Late, Waiting
<1> QED
  BY <1>1, <1>2

(* Setting sure to FALSE keeps a handler's type and the rest of it.          *)
LEMMA PutStill ==
    ASSUME CallsTyped, NEW d \in Calls, StaysPut(d)
    PROVE  /\ calls'[d] \in Call /\ calls'[d].pc = calls[d].pc
           /\ calls[d].pc # "idle" =>
                calls'[d] = calls[d] \/ calls'[d].sure = FALSE
           /\ OfInstance(d) => /\ calls'[d].req = calls[d].req /\ calls'[d].tag = calls[d].tag
                               /\ calls'[d].new = calls[d].new /\ calls'[d].gen = calls[d].gen
<1>1. CASE calls'[d] = calls[d]
  BY <1>1 DEF CallsTyped
<1>2. CASE calls[d].pc = "insert" /\ calls'[d] = [calls[d] EXCEPT !.sure = FALSE]
  <2>1. OfInstance(d) /\ calls[d].pc \in Late /\ calls[d].pc \notin Early
    BY <1>2 DEF OfInstance, Early, Late, Waiting
  <2>2. calls[d] \in InstanceCall(Late, New)
    BY <2>1, CallFields
  <2>3. calls'[d] \in InstanceCall(Late, New) /\ calls'[d].pc = calls[d].pc
        /\ calls'[d].req = calls[d].req /\ calls'[d].tag = calls[d].tag
        /\ calls'[d].new = calls[d].new /\ calls'[d].gen = calls[d].gen /\ calls'[d].sure = FALSE
    BY <1>2, <2>2 DEF InstanceCall
  <2> QED
    BY <2>3 DEF Call
<1>3. CASE calls[d].pc = "insertClient" /\ calls'[d] = [calls[d] EXCEPT !.sure = FALSE]
  <2>1. calls[d] \in ClientCall
    BY <1>3, ClientCallFields
  <2>2. calls'[d] \in ClientCall /\ calls'[d].pc = calls[d].pc /\ calls'[d].sure = FALSE
    BY <1>3, <2>1 DEF ClientCall
  <2>3. ~OfInstance(d)
    BY <1>3 DEF OfInstance, Early, Late, Waiting
  <2> QED
    BY <2>2, <2>3 DEF Call
<1> QED
  BY <1>1, <1>2, <1>3 DEF StaysPut

(* What stays put advances.                                                  *)
LEMMA PutAdvances ==
    ASSUME CallsTyped, NEW d \in Calls, StaysPut(d)
    PROVE  Advances(d)
  BY PutStill DEF Advances, OfInstance

(* A process that is gone does not come back: its pid is another's then.     *)
LEMMA QuitStays ==
    ASSUME TypeOK, TypeOK', ProcMoves, NEW o, o.pid \in {NoPid} \cup Pids, o.gen \in Nat,
           o.pid \in Pids => o.gen <= proc[o.pid].gen, QuitIn(proc, o)
    PROVE  QuitIn(proc', o)
<1>1. CASE o.pid \notin Pids
  BY <1>1 DEF QuitIn
<1>2. CASE o.pid \in Pids
  <2>1. proc[o.pid].gen \in Nat /\ proc'[o.pid].gen \in Nat
    BY <1>2, Counted, CountedAfter
  <2>2. CASE proc'[o.pid].gen = o.gen
    BY <1>2, <2>1, <2>2 DEF QuitIn, ProcMoves
  <2> QED
    BY <2>2 DEF QuitIn
<1> QED
  BY <1>1, <1>2

(* A row that keeps its process, and runs only if it did, stays right.       *)
LEMMA RowStays ==
    ASSUME TypeOK, TypeOK', ProcMoves, served <= served', NEW n \in Rows, RowOK(n), n \in Rows',
           rows'[n].tag = rows[n].tag, rows'[n].over = rows[n].over,
           Runs(n)' /\ ~rows'[n].up => Runs(n) /\ ~rows[n].up
    PROVE  RowOK(n)'
<1> DEFINE o == rows[n].over
<1>1. o.pid \in {NoPid} \cup Pids /\ o.gen \in Nat /\ rows[n].tag \in Nat
  BY RowsAreRows, RowFields
<1>2. served \in Nat /\ served' \in Nat
  BY Counted, CountedAfter
<1>3. rows'[n].tag <= served'
  BY <1>1, <1>2 DEF RowOK
<1>4. o.pid \in Pids => o.gen <= proc[o.pid].gen
  BY DEF RowOK
<1>5. o.pid \in Pids => o.gen <= proc'[o.pid].gen
  <2>1. o.pid \in Pids => proc[o.pid].gen \in Nat /\ proc'[o.pid].gen \in Nat
    BY Counted, CountedAfter
  <2> QED
    BY <1>1, <1>4, <2>1 DEF ProcMoves
<1>6. QuitIn(proc, o) => QuitIn(proc', o)
  BY <1>1, <1>4, QuitStays
<1>7. Runs(n)' /\ ~rows'[n].up => QuitIn(proc', o)
  BY <1>6 DEF RowOK, Quit
<1> QED
  BY <1>3, <1>5, <1>7 DEF RowOK, Quit, Alive

(* A handler that does not move is still right about its row.                *)
LEMMA OwnRowStays ==
    ASSUME TypeOK, TypeOK', CallsTyped, RowsOK, ProcMoves, NEW d \in Calls, StaysPut(d),
           OfInstance(d) => KeptFor(calls[d].tag), OwnRowOK(d)
    PROVE  OwnRowOK(d)'
<1> SUFFICES ASSUME calls'[d].pc \in Late, Own(d)'
             PROVE  /\ TakesOver(calls'[d]) => ~Runs(Over(d))' \/ rows'[Over(d)'].up
                    /\ calls'[d].pc \in Waiting \ {"inspect"} =>
                         rows'[Over(d)'].over.pid = calls'[d].req.pid
                    /\ calls'[d].pc = "enable" => Quit(rows[Over(d)].over)'
  BY DEF OwnRowOK
<1>1. calls'[d].pc = calls[d].pc /\ calls[d].pc \in Late /\ OfInstance(d)
  BY PutStill DEF OfInstance
<1>2. calls'[d].req = calls[d].req /\ calls'[d].tag = calls[d].tag /\ calls'[d].new = calls[d].new
  BY <1>1, PutStill
<1> DEFINE n == Over(d)
<1>3. Over(d)' = n /\ n \in Rows' /\ rows'[n].tag = calls[d].tag
  BY <1>2 DEF Own, Over
<1>4. n \in Rows /\ rows[n].tag = calls[d].tag /\ rows'[n].over = rows[n].over
      /\ (~Runs(n) \/ rows[n].up => ~Runs(n)' \/ rows'[n].up)
  BY <1>1, <1>3 DEF KeptFor
<1>5. Own(d)
  BY <1>4 DEF Own
<1>6. TakesOver(calls'[d]) <=> TakesOver(calls[d])
  BY <1>1, <1>2 DEF TakesOver
<1>7. calls[d].pc = "enable" => QuitIn(proc', rows[n].over)
  <2> DEFINE o == rows[n].over
  <2>1. o.pid \in {NoPid} \cup Pids /\ o.gen \in Nat
    BY <1>4, RowsAreRows, RowFields
  <2>2. o.pid \in Pids => o.gen <= proc[o.pid].gen
    BY <1>4 DEF RowsOK, RowOK
  <2>3. calls[d].pc = "enable" => QuitIn(proc, o)
    BY <1>1, <1>5 DEF OwnRowOK, Quit
  <2>4. QuitIn(proc, o) => QuitIn(proc', o)
    BY <2>1, <2>2, QuitStays
  <2> QED
    BY <2>3, <2>4
<1> QED
  BY <1>1, <1>2, <1>3, <1>4, <1>5, <1>6, <1>7 DEF OwnRowOK, Quit, Alive

(* A handler that does not move is still right about the process it signals. *)
LEMMA LookStays ==
    ASSUME TypeOK, TypeOK', CallsTyped, ProcMoves, NEW d \in Calls, StaysPut(d), LookOK(d)
    PROVE  LookOK(d)'
<1> SUFFICES ASSUME calls'[d].pc \in Waiting \ {"inspect"}
             PROVE  LookOK(d)'
  BY DEF LookOK, Waiting
<1>1. calls'[d].pc = calls[d].pc /\ OfInstance(d)
  BY PutStill DEF OfInstance, Late
<1>2. calls'[d].req = calls[d].req /\ calls'[d].gen = calls[d].gen
  BY <1>1, PutStill
<1> DEFINE p == calls[d].req.pid
<1>3. p \in Pids
  BY <1>1 DEF LookOK
<1>4. calls[d].gen \in Nat /\ proc[p].gen \in Nat /\ proc'[p].gen \in Nat
  BY <1>1, <1>3, CallFields, Bounds, Counted, CountedAfter
<1>5. CASE calls[d].pc \in {"term", "kill"}
  <2>1. calls[d].gen <= proc[p].gen /\ (calls[d].gen = proc[p].gen => proc[p].kind # "other")
    BY <1>5 DEF LookOK
  <2>2. calls[d].gen <= proc'[p].gen /\ (calls[d].gen = proc'[p].gen => proc'[p].kind # "other")
    BY <1>3, <1>4, <2>1 DEF ProcMoves
  <2> QED
    BY <1>1, <1>2, <1>3, <2>2 DEF LookOK
<1>6. CASE calls[d].pc \notin {"term", "kill"}
  BY <1>1, <1>2, <1>3, <1>6 DEF LookOK
<1> QED
  BY <1>5, <1>6

(* The numbers of the requests stay their own.                               *)
LEMMA TagsStay ==
    ASSUME TypeOK, TypeOK', CallsTyped, TagsOK, served <= served', NoneMade,
           \A d \in Calls : Advances(d)
    PROVE  TagsOK'
<1> SUFFICES ASSUME NEW c \in Calls, OfInstance(c)'
             PROVE  /\ calls'[c].tag <= served'
                    /\ \A d \in Calls : OfInstance(d)' /\ calls'[d].tag = calls'[c].tag => d = c
                    /\ calls'[c].pc \in Early \cup {"insert"} =>
                         \A n \in Rows' : rows'[n].tag # calls'[c].tag
  BY DEF TagsOK
<1>1. OfInstance(c) /\ calls'[c].tag = calls[c].tag
      /\ (calls'[c].pc \in Early \cup {"insert"} => calls[c].pc \in Early \cup {"insert"})
  BY DEF Advances
<1>2. calls'[c].tag <= served'
  <2>1. calls[c].tag \in Nat /\ served \in Nat /\ served' \in Nat
    BY <1>1, CallFields, Bounds, Counted, CountedAfter
  <2> QED
    BY <1>1, <2>1 DEF TagsOK
<1>3. \A d \in Calls : OfInstance(d)' /\ calls'[d].tag = calls'[c].tag => d = c
  BY <1>1 DEF Advances, TagsOK
<1>4. calls'[c].pc \in Early \cup {"insert"} => \A n \in Rows' : rows'[n].tag # calls'[c].tag
  BY <1>1 DEF NoneMade, TagsOK
<1> QED
  BY <1>2, <1>3, <1>4

(* What was prepared still fits when no port or network changed.             *)
LEMMA FitStays ==
    ASSUME NEW p, SamePlaces, InstanceFits(p)
    PROVE  InstanceFits(p)'
<1>1. {rows'[x].port : x \in Rows'} = {rows[x].port : x \in Rows}
  BY DEF SamePlaces
<1> QED
  BY <1>1 DEF InstanceFits, SamePlaces

(* A handler that does not move keeps what it prepared, or knows it is stale. *)
LEMMA FitsStay ==
    ASSUME CallsTyped, NEW d \in Calls, StaysPut(d), FitOK(d),
           SamePlaces \/ (calls'[d].pc = "insert" => calls'[d].sure = FALSE),
           Used' \subseteq Used \/ (calls'[d].pc = "insertClient" => calls'[d].sure = FALSE)
    PROVE  FitOK(d)'
<1>1. CASE calls'[d] = calls[d]
  <2>1. calls[d].pc = "insert" /\ calls[d].sure => InstanceFits(calls[d].new)'
    <3> SUFFICES ASSUME calls[d].pc = "insert", calls[d].sure
                 PROVE  InstanceFits(calls[d].new)'
      OBVIOUS
    <3>1. InstanceFits(calls[d].new) /\ SamePlaces
      BY <1>1 DEF FitOK
    <3> QED
      BY <1>1, <3>1, FitStays DEF InstanceFits
  <2>2. calls[d].pc = "insertClient" /\ calls[d].sure /\ calls[d].auto =>
          calls[d].ip \in (2..(PoolTop - 1)) \ Used'
    BY <1>1 DEF FitOK
  <2> QED
    BY <1>1, <2>1, <2>2 DEF FitOK
<1>2. CASE calls'[d] # calls[d]
  <2>1. calls'[d].sure = FALSE
    <3>1. calls[d].pc # "idle"
      BY <1>2 DEF StaysPut
    <3> QED
      BY <1>2, <3>1, PutStill
  <2> QED
    BY <2>1 DEF FitOK
<1> QED
  BY <1>1, <1>2

(* The invariant after a step, when what moves is right about itself.        *)
LEMMA StepKeepsInv ==
    ASSUME Inv, TypeOK', CallsTyped', RunsMade', RowsOK', TagsOK', ProcMoves,
           NEW S \in SUBSET Calls,
           \A d \in Calls \ S : StaysPut(d) /\ (OfInstance(d) => KeptFor(calls[d].tag)),
           SamePlaces \/ \A d \in Calls \ S : calls'[d].pc = "insert" => calls'[d].sure = FALSE,
           Used' \subseteq Used
             \/ \A d \in Calls \ S : calls'[d].pc = "insertClient" => calls'[d].sure = FALSE,
           \A c \in S : OwnRowOK(c)' /\ LookOK(c)' /\ FitOK(c)'
    PROVE  Inv'
<1>1. ASSUME NEW d \in Calls \ S
      PROVE  OwnRowOK(d)' /\ LookOK(d)' /\ FitOK(d)'
  <2>1. OwnRowOK(d)'
    BY OwnRowStays DEF Inv, OwnRowsOK
  <2>2. LookOK(d)'
    BY LookStays DEF Inv, LooksOK
  <2>3. FitOK(d)'
    BY FitsStay DEF Inv, FitsOK
  <2> QED
    BY <2>1, <2>2, <2>3
<1>2. OwnRowsOK' /\ LooksOK' /\ FitsOK'
  BY <1>1 DEF OwnRowsOK, LooksOK, FitsOK
<1> QED
  BY <1>2 DEF Inv

(* Rows that nobody writes stay right.                                       *)
LEMMA SameRowsStay ==
    ASSUME Inv, TypeOK', rows' = rows, managed' \in {managed, Enabled}, ProcMoves,
           served <= served'
    PROVE  RowsOK' /\ NoneMade /\ SamePlaces /\ \A t : KeptFor(t)
<1>1. Rows' = Rows
  BY DEF Rows
<1>2. \A n \in Rows : Runs(n)' => Runs(n)
  BY DEF Runs, Enabled
<1>3. NoneMade /\ SamePlaces /\ \A t : KeptFor(t)
  BY <1>1, <1>2 DEF NoneMade, SamePlaces, KeptFor
<1>4. ASSUME NEW n \in Rows
      PROVE  RowOK(n)'
  BY <1>1, <1>2, RowStays DEF Inv, RowsOK
<1> QED
  BY <1>1, <1>3, <1>4 DEF RowsOK

(* Where no process changes, none comes back.                                *)
LEMMA SameProcsMove ==
    ASSUME TypeOK, proc' = proc
    PROVE  ProcMoves
  BY Counted DEF ProcMoves

(* A process that exits does not come back.                                  *)
LEMMA DeathMoves ==
    ASSUME TypeOK, NEW p \in Pids, Dies(p)
    PROVE  ProcMoves /\ proc' \in [Pids -> [kind : {"none", "openvpn", "other"}, gen : 0..MaxGen]]
<1>1. proc' = [proc EXCEPT ![p].kind = "none"]
      /\ proc \in [Pids -> [kind : {"none", "openvpn", "other"}, gen : 0..MaxGen]]
  BY DEF Dies, TypeOK
<1>2. proc' \in [Pids -> [kind : {"none", "openvpn", "other"}, gen : 0..MaxGen]]
  BY <1>1
<1>3. \A q \in Pids : proc'[q].gen = proc[q].gen /\ proc'[q].kind \in {proc[q].kind, "none"}
  BY <1>1
<1>4. \A q \in Pids : proc[q].gen \in Nat
  BY Counted
<1> QED
  BY <1>2, <1>3, <1>4 DEF ProcMoves

(* The handler c goes on with k.                                             *)
LEMMA CallMoves ==
    ASSUME CallsTyped, NEW c \in Calls, NEW k \in Call, calls' = [calls EXCEPT ![c] = k]
    PROVE  /\ CallsTyped' /\ calls'[c] = k
           /\ \A d \in Calls \ {c} : calls'[d] = calls[d] /\ StaysPut(d) /\ Advances(d)
  BY DEF CallsTyped, StaysPut, Advances, OfInstance

(* A handler that ends has nothing left to be right about.                   *)
LEMMA EndIsClean ==
    ASSUME CallsTyped, NEW c \in Calls, End(c)
    PROVE  /\ CallsTyped' /\ \A d \in Calls \ {c} : calls'[d] = calls[d] /\ StaysPut(d)
           /\ \A d \in Calls : Advances(d)
           /\ OwnRowOK(c)' /\ LookOK(c)' /\ FitOK(c)'
<1>1. Idle \in Call
  BY DEF Call
<1>2. /\ CallsTyped' /\ calls'[c] = Idle
      /\ \A d \in Calls \ {c} : calls'[d] = calls[d] /\ StaysPut(d) /\ Advances(d)
  BY <1>1, CallMoves DEF End
<1>3. calls'[c].pc = "idle"
  BY <1>2 DEF Idle
<1>4. Advances(c) /\ OwnRowOK(c)' /\ LookOK(c)' /\ FitOK(c)'
  BY <1>3 DEF Advances, OfInstance, OwnRowOK, LookOK, FitOK, Early, Late, Waiting
<1> QED
  BY <1>2, <1>4

(* A handler that goes on after its insert keeps what it holds.              *)
LEMMA GoIsTyped ==
    ASSUME CallsTyped, NEW c \in Calls, calls[c].pc \in Late, NEW x \in Late \ {"insert"}, Go(c, x)
    PROVE  /\ CallsTyped' /\ \A d \in Calls \ {c} : calls'[d] = calls[d] /\ StaysPut(d)
           /\ \A d \in Calls : Advances(d)
           /\ calls'[c].pc = x /\ calls'[c].req = calls[c].req /\ calls'[c].new = calls[c].new
           /\ calls'[c].tag = calls[c].tag /\ calls'[c].gen = calls[c].gen /\ FitOK(c)'
<1> DEFINE k == [calls[c] EXCEPT !.pc = x]
<1>1. OfInstance(c) /\ calls[c].pc \notin Early
  BY DEF OfInstance, Early, Late, Waiting
<1>2. calls[c] \in InstanceCall(Late, New)
  BY <1>1, CallFields
<1>3. k \in InstanceCall(Late, New) /\ k.pc = x /\ k.req = calls[c].req /\ k.new = calls[c].new
      /\ k.tag = calls[c].tag /\ k.gen = calls[c].gen
  BY <1>2 DEF InstanceCall
<1>4. k \in Call /\ calls' = [calls EXCEPT ![c] = k]
  BY <1>3 DEF Call, Go
<1> HIDE DEF k
<1>5. /\ CallsTyped' /\ calls'[c] = k
      /\ \A d \in Calls \ {c} : calls'[d] = calls[d] /\ StaysPut(d) /\ Advances(d)
  BY <1>4, CallMoves
<1>6. Advances(c) /\ FitOK(c)'
  BY <1>1, <1>3, <1>5 DEF Advances, OfInstance, FitOK, Early, Late, Waiting
<1> QED
  BY <1>3, <1>5, <1>6

(* The same when it notes the process it looks at.                           *)
LEMMA LookIsTyped ==
    ASSUME CallsTyped, NEW c \in Calls, calls[c].pc \in Late, NEW x \in Late \ {"insert"},
           NEW g \in 0..MaxGen, calls' = [calls EXCEPT ![c].pc = x, ![c].gen = g]
    PROVE  /\ CallsTyped' /\ \A d \in Calls \ {c} : calls'[d] = calls[d] /\ StaysPut(d)
           /\ \A d \in Calls : Advances(d)
           /\ calls'[c].pc = x /\ calls'[c].req = calls[c].req /\ calls'[c].new = calls[c].new
           /\ calls'[c].tag = calls[c].tag /\ calls'[c].gen = g /\ FitOK(c)'
<1> DEFINE k == [calls[c] EXCEPT !.pc = x, !.gen = g]
<1>1. OfInstance(c) /\ calls[c].pc \notin Early
  BY DEF OfInstance, Early, Late, Waiting
<1>2. calls[c] \in InstanceCall(Late, New)
  BY <1>1, CallFields
<1>3. k \in InstanceCall(Late, New) /\ k.pc = x /\ k.req = calls[c].req /\ k.new = calls[c].new
      /\ k.tag = calls[c].tag /\ k.gen = g
  BY <1>2 DEF InstanceCall
<1>4. k \in Call /\ calls' = [calls EXCEPT ![c] = k]
  BY <1>3 DEF Call, CallsTyped
<1> HIDE DEF k
<1>5. /\ CallsTyped' /\ calls'[c] = k
      /\ \A d \in Calls \ {c} : calls'[d] = calls[d] /\ StaysPut(d) /\ Advances(d)
  BY <1>4, CallMoves
<1>6. Advances(c) /\ FitOK(c)'
  BY <1>1, <1>3, <1>5 DEF Advances, OfInstance, FitOK, Early, Late, Waiting
<1> QED
  BY <1>3, <1>5, <1>6

(* A step that writes no row keeps the invariant when the handler that moves *)
(* is right.                                                                 *)
LEMMA QuietStep ==
    ASSUME Inv, TypeOK', CallsTyped', RunsMade', rows' = rows, managed' \in {managed, Enabled},
           served' \in {served, served + 1}, ProcMoves, Used' \subseteq Used, NEW c \in Calls,
           \A d \in Calls \ {c} : StaysPut(d), \A d \in Calls : Advances(d),
           OwnRowOK(c)', LookOK(c)', FitOK(c)'
    PROVE  Inv'
<1>1. served <= served'
  BY Counted DEF Inv
<1>2. RowsOK' /\ NoneMade /\ SamePlaces /\ \A t : KeptFor(t)
  BY <1>1, SameRowsStay
<1>3. TagsOK'
  BY <1>1, <1>2, TagsStay DEF Inv
<1> DEFINE S == {c}
<1>4. S \in SUBSET Calls
      /\ (\A d \in Calls \ S : StaysPut(d) /\ (OfInstance(d) => KeptFor(calls[d].tag)))
      /\ \A d \in S : OwnRowOK(d)' /\ LookOK(d)' /\ FitOK(d)'
  BY <1>2
<1> HIDE DEF S
<1> QED
  BY <1>2, <1>3, <1>4, StepKeepsInv

(* Ending quietly keeps the invariant.                                       *)
LEMMA QuietEnd ==
    ASSUME Inv, TypeOK', RunsMade', rows' = rows, managed' \in {managed, Enabled},
           served' = served, proc' = proc, Used' \subseteq Used, NEW c \in Calls, End(c)
    PROVE  Inv'
<1>1. ProcMoves
  BY SameProcsMove DEF Inv
<1>2. /\ CallsTyped' /\ (\A d \in Calls \ {c} : calls'[d] = calls[d] /\ StaysPut(d))
      /\ \A d \in Calls : Advances(d)
      /\ OwnRowOK(c)' /\ LookOK(c)' /\ FitOK(c)'
  BY EndIsClean DEF Inv
<1> QED
  BY <1>1, <1>2, QuietStep

------------------------------------------------------------------------------
(* The handlers of instances, up to their insert                             *)

(* A request that begins has a number that no other has.                     *)
LEMMA BeginKeeps ==
    ASSUME Inv, NEW c \in Calls, NEW req \in Requests, Begin(c, req)
    PROVE  Inv'
<1> DEFINE k == [pc |-> IF req.inline THEN "materialize" ELSE "context", req |-> req, new |-> None,
                 tag |-> served', keys |-> None, sure |-> FALSE, seen |-> NoRow, gen |-> None]
<1>1. served \in Nat /\ served < MaxCalls /\ MaxCalls \in Nat /\ MaxGen \in Nat
  BY Counted, Bounds DEF Begin, Inv
<1>2. served' = served + 1 /\ served' \in 1..MaxCalls
  BY <1>1 DEF Begin
<1>3. req \in Asked
  BY ProvisionAssumption
<1>4. k \in InstanceCall(Early, {None}) /\ k.pc \in Early /\ k.tag = served'
  BY <1>1, <1>2, <1>3 DEF InstanceCall, Early, None
<1>5. calls' = [calls EXCEPT ![c] = k] /\ k \in Call
  BY <1>4 DEF Begin, Call
<1>6. UNCHANGED <<rows, material, clients, proc, managed, patch, patched>>
  BY DEF Begin
<1> HIDE DEF k
<1>7. /\ CallsTyped' /\ calls'[c] = k
      /\ \A d \in Calls \ {c} : calls'[d] = calls[d] /\ StaysPut(d) /\ Advances(d)
  BY <1>5, CallMoves DEF Inv
<1>8. TypeOK'
  BY <1>1, <1>2, <1>6 DEF Inv, TypeOK
<1>9. ProcMoves
  BY <1>6, SameProcsMove DEF Inv
<1>10. RowsOK' /\ NoneMade /\ SamePlaces /\ \A t : KeptFor(t)
  BY <1>1, <1>2, <1>6, <1>8, <1>9, SameRowsStay
<1>11. TagsOK'
  <2>1. \A d \in Calls \ {c} : OfInstance(d)' => OfInstance(d) /\ calls'[d].tag = calls[d].tag
    BY <1>7 DEF OfInstance
  <2>2. \A d \in Calls : OfInstance(d) => calls[d].tag \in Nat /\ calls[d].tag <= served
    BY CallFields DEF Inv, TagsOK
  <2>3. \A n \in Rows : rows[n].tag \in Nat /\ rows[n].tag <= served
    BY RowsAreRows, RowFields DEF Inv, RowsOK, RowOK
  <2>4. Rows' = Rows /\ rows' = rows
    BY <1>6 DEF Rows
  <2> SUFFICES ASSUME NEW d \in Calls, OfInstance(d)'
               PROVE  /\ calls'[d].tag <= served'
                      /\ \A e \in Calls : OfInstance(e)' /\ calls'[e].tag = calls'[d].tag => e = d
                      /\ calls'[d].pc \in Early \cup {"insert"} =>
                           \A n \in Rows' : rows'[n].tag # calls'[d].tag
    BY DEF TagsOK
  <2>5. CASE d = c
    <3>1. calls'[c].tag = served + 1
      BY <1>2, <1>4, <1>7
    <3>2. \A e \in Calls \ {c} : OfInstance(e)' => calls'[e].tag # served + 1
      BY <1>1, <2>1, <2>2
    <3>3. \A n \in Rows' : rows'[n].tag # served + 1
      BY <1>1, <2>3, <2>4
    <3> QED
      BY <1>1, <1>2, <2>5, <3>1, <3>2, <3>3
  <2>6. CASE d # c
    <3>1. OfInstance(d) /\ calls'[d] = calls[d] /\ calls[d].tag \in Nat /\ calls[d].tag <= served
      BY <1>7, <2>1, <2>2, <2>6
    <3>2. calls'[d].tag <= served'
      BY <1>1, <1>2, <3>1
    <3>3. ASSUME NEW e \in Calls, OfInstance(e)', calls'[e].tag = calls'[d].tag
          PROVE  e = d
      <4>1. e # c
        BY <1>1, <1>2, <1>4, <1>7, <3>1, <3>3
      <4> QED
        BY <2>1, <3>1, <3>3, <4>1 DEF Inv, TagsOK
    <3>4. calls'[d].pc \in Early \cup {"insert"} => \A n \in Rows' : rows'[n].tag # calls'[d].tag
      BY <2>4, <3>1 DEF Inv, TagsOK
    <3> QED
      BY <3>2, <3>3, <3>4
  <2> QED
    BY <2>5, <2>6
<1>12. OwnRowOK(c)' /\ LookOK(c)' /\ FitOK(c)'
  BY <1>4, <1>7 DEF OwnRowOK, LookOK, FitOK, Early, Late, Waiting
<1>13. RunsMade' /\ Used' = Used
  BY <1>6 DEF Inv, RunsMade, Rows, Used
<1> DEFINE S == {c}
<1>14. S \in SUBSET Calls
       /\ (\A d \in Calls \ S : StaysPut(d) /\ (OfInstance(d) => KeptFor(calls[d].tag)))
       /\ \A d \in S : OwnRowOK(d)' /\ LookOK(d)' /\ FitOK(d)'
  BY <1>7, <1>10, <1>12
<1> HIDE DEF S
<1> QED
  BY <1>7, <1>8, <1>9, <1>10, <1>11, <1>13, <1>14, StepKeepsInv

(* An import that writes its keys.                                           *)
LEMMA MaterializeKeeps ==
    ASSUME Inv, NEW c \in Calls, Materialize(c)
    PROVE  Inv'
<1>1. PICK name \in Names :
        /\ material' = [material EXCEPT ![name] = calls[c].tag]
        /\ calls' = [calls EXCEPT ![c].pc = "context", ![c].req.name = name,
                                  ![c].keys = calls[c].tag]
  BY DEF Materialize
<1> DEFINE k == [calls[c] EXCEPT !.pc = "context", !.req.name = name, !.keys = calls[c].tag]
<1>2. calls[c].pc = "materialize" /\ OfInstance(c) /\ calls[c].pc \notin Late
  BY DEF Materialize, OfInstance, Early, Late, Waiting
<1>3. calls[c] \in InstanceCall(Early, {None})
  BY <1>2, CallFields DEF Inv
<1>4. calls[c].req \in Asked /\ calls[c].tag \in 0..MaxCalls
  BY <1>2, CallFields, Bounds DEF Inv
<1>5. [calls[c].req EXCEPT !.name = name] \in Asked
  BY <1>4 DEF Asked
<1>6. k = [calls[c] EXCEPT !.pc = "context", !.req = [calls[c].req EXCEPT !.name = name],
                           !.keys = calls[c].tag]
  BY <1>3 DEF InstanceCall
<1>7. k \in InstanceCall(Early, {None}) /\ k.pc = "context" /\ k.tag = calls[c].tag
  <2>1. "context" \in Early
    BY DEF Early
  <2> QED
    BY <1>3, <1>4, <1>5, <1>6, <2>1 DEF InstanceCall
<1>8. k \in Call /\ calls' = [calls EXCEPT ![c] = k]
  BY <1>1, <1>7 DEF Call, Inv, CallsTyped
<1>9. UNCHANGED <<rows, clients, proc, managed, served, patch, patched>>
  BY DEF Materialize
<1> HIDE DEF k
<1>10. /\ CallsTyped' /\ calls'[c] = k
       /\ \A d \in Calls \ {c} : calls'[d] = calls[d] /\ StaysPut(d) /\ Advances(d)
  BY <1>8, CallMoves DEF Inv
<1>11. TypeOK'
  BY <1>1, <1>4, <1>9 DEF Inv, TypeOK
<1>12. Advances(c) /\ OwnRowOK(c)' /\ LookOK(c)' /\ FitOK(c)'
  BY <1>2, <1>7, <1>10 DEF Advances, OfInstance, OwnRowOK, LookOK, FitOK, Early, Late, Waiting
<1>13. RunsMade' /\ Used' = Used
  BY <1>9 DEF Inv, RunsMade, Rows, Used
<1>14. ProcMoves
  BY <1>9, SameProcsMove DEF Inv
<1> QED
  BY <1>9, <1>10, <1>11, <1>12, <1>13, <1>14, QuietStep

(* What is prepared fits beside what is there.                               *)
LEMMA PreparedFits ==
    ASSUME Inv, NEW req \in Asked, NEW p \in Prepare(req, Context)
    PROVE  p \in New /\ InstanceFits(p)
<1> DEFINE port == IF req.port # Unset THEN req.port
                   ELSE IF req.client THEN None ELSE NextPort(Context.ports)
           net == IF req.client THEN req.net
                  ELSE IF req.net \in {Unset, NoNet} THEN NextServerNetwork(Context.nets)
                  ELSE req.net
<1>1. /\ p.name \in Names /\ p.port = port /\ p.net = net /\ p.auto = (req.port = Unset)
      /\ p = [name |-> p.name, port |-> p.port, net |-> p.net, auto |-> p.auto]
      /\ IF req.client THEN p.net = NoNet ELSE Free(p.net, Context.nets)
  BY DEF Prepare
<1>2. req.port \in {Unset} \cup Ports /\ req.net \in {Unset, NoNet} \cup Networks
      /\ req.client \in BOOLEAN
  BY DEF Asked
<1>3. NextPort(Context.ports) \in 1..PortSpan
      /\ (NextPort(Context.ports) \notin Context.ports \/ 1..PortSpan \subseteq Context.ports)
  BY NextPortIsFree
<1>4. PortSpan \in 1..PortTop /\ PortTop \in Nat
  BY ProvisionAssumption, Bounds DEF Ports
<1>5. port \in {None} \cup Ports
  BY <1>2, <1>3, <1>4 DEF Ports
<1>6. ~req.client => net \in Nets
  BY <1>2, NextServerNetworkIsKnown DEF Nets
<1>7. p \in New
  BY <1>1, <1>5, <1>6 DEF New
<1>8. ASSUME NEW m \in Rows
      PROVE  NoNet \in {p.net, rows[m].net} \/ p.net \cap rows[m].net = {}
  <2> SUFFICES ASSUME p.net # NoNet, rows[m].net # NoNet
               PROVE  p.net \cap rows[m].net = {}
    OBVIOUS
  <2>1. ~req.client /\ p.net \in Nets /\ Free(p.net, Context.nets)
    BY <1>1, <1>2, <1>6
  <2>2. rows[m].net \in Nets
    BY RowsAreRows DEF Inv, Row
  <2>3. rows[m].net \in Context.nets
    BY DEF Context
  <2>4. ~Overlap(p.net, rows[m].net)
    BY <2>1, <2>3 DEF Free
  <2> QED
    BY <2>1, <2>2, <2>4, ApartIsDisjoint
<1>9. ASSUME NEW m \in Rows, p.auto, p.port # None
      PROVE  p.port # rows[m].port \/ 1..PortSpan \subseteq {rows[x].port : x \in Rows}
  <2>1. p.port = NextPort(Context.ports)
    BY <1>1, <1>2, <1>9
  <2>2. Context.ports = {rows[n].port : n \in Rows} \ {None}
    BY DEF Context
  <2> QED
    BY <1>3, <1>9, <2>1, <2>2
<1> QED
  BY <1>7, <1>8, <1>9 DEF InstanceFits

(* What is taken is read and the request completed.                          *)
LEMMA ReadContextKeeps ==
    ASSUME Inv, NEW c \in Calls, ReadContext(c)
    PROVE  Inv'
<1>1. UNCHANGED <<rows, material, clients, proc, managed, served, patch, patched>>
      /\ calls[c].pc = "context"
  BY DEF ReadContext
<1>2. TypeOK' /\ RunsMade' /\ Used' = Used
  BY <1>1 DEF Inv, TypeOK, RunsMade, Rows, Used
<1>3. CASE End(c)
  BY <1>1, <1>2, <1>3, QuietEnd
<1>4. ASSUME NEW p \in Prepare(calls[c].req, Context),
             calls' = [calls EXCEPT ![c].pc = "insert", ![c].new = p, ![c].sure = TRUE]
      PROVE  Inv'
  <2> DEFINE k == [calls[c] EXCEPT !.pc = "insert", !.new = p, !.sure = TRUE]
  <2>1. OfInstance(c) /\ calls[c].pc \notin Late /\ calls[c].pc \in Early
    BY <1>1 DEF OfInstance, Early, Late, Waiting
  <2>2. calls[c] \in InstanceCall(Early, {None}) /\ calls[c].req \in Asked
    BY <2>1, CallFields DEF Inv
  <2>3. p \in New /\ InstanceFits(p)
    BY <1>4, <2>2, PreparedFits
  <2>4. k \in InstanceCall(Late, New) /\ k.pc = "insert" /\ k.new = p /\ k.tag = calls[c].tag
    <3>1. "insert" \in Late
      BY DEF Late
    <3> QED
      BY <2>2, <2>3, <3>1 DEF InstanceCall
  <2>5. k \in Call /\ calls' = [calls EXCEPT ![c] = k]
    BY <1>4, <2>4 DEF Call, Inv, CallsTyped
  <2> HIDE DEF k
  <2>6. /\ CallsTyped' /\ calls'[c] = k
        /\ \A d \in Calls \ {c} : calls'[d] = calls[d] /\ StaysPut(d) /\ Advances(d)
    BY <2>5, CallMoves DEF Inv
  <2>7. InstanceFits(p)'
    BY <1>1, <2>3 DEF InstanceFits, Rows
  <2>8. FitOK(c)'
    BY <2>4, <2>6, <2>7 DEF FitOK, InstanceFits
  <2>9. Advances(c) /\ OwnRowOK(c)' /\ LookOK(c)'
    BY <2>1, <2>4, <2>6 DEF Advances, OfInstance, OwnRowOK, LookOK, TakesOver, Early, Late, Waiting
  <2>10. ProcMoves
    BY <1>1, SameProcsMove DEF Inv
  <2> QED
    BY <1>1, <1>2, <2>6, <2>8, <2>9, <2>10, QuietStep
<1> QED
  BY <1>3, <1>4 DEF ReadContext

(* What others read goes stale: they keep their types and places.            *)
LEMMA StaleStaysPut ==
    ASSUME CallsTyped
    PROVE  /\ Stale \in [Calls -> Call]
           /\ \A d \in Calls : /\ Stale[d] = calls[d] \/ Stale[d] = [calls[d] EXCEPT !.sure = FALSE]
                               /\ calls[d].pc # "insert" => Stale[d] = calls[d]
                               /\ Stale[d].pc = calls[d].pc
                               /\ Stale[d].pc = "insert" => Stale[d].sure = FALSE
<1>1. ASSUME NEW d \in Calls, calls[d].pc = "insert"
      PROVE  /\ Stale[d] = [calls[d] EXCEPT !.sure = FALSE]
             /\ Stale[d] \in InstanceCall(Late, New) /\ Stale[d].pc = "insert" /\ Stale[d].sure = FALSE
  <2>1. Stale[d] = [calls[d] EXCEPT !.sure = FALSE]
    BY <1>1 DEF Stale
  <2>2. calls[d] \in InstanceCall(Late, New)
    BY <1>1, CallFields DEF OfInstance, Early, Late, Waiting
  <2> QED
    BY <1>1, <2>1, <2>2 DEF InstanceCall
<1>2. ASSUME NEW d \in Calls, calls[d].pc # "insert"
      PROVE  Stale[d] = calls[d] /\ Stale[d] \in Call
  BY <1>2 DEF Stale, CallsTyped
<1>3. \A d \in Calls : Stale[d] \in Call
  BY <1>1, <1>2 DEF Call
<1>4. Stale \in [Calls -> Call]
  BY <1>3 DEF Stale
<1> QED
  BY <1>1, <1>2, <1>4

(* A row of its own is inserted.                                             *)
LEMMA InsertKeeps ==
    ASSUME Inv, NEW c \in Calls, Insert(c)
    PROVE  Inv'
<1> DEFINE p == calls[c].new
           req == calls[c].req
           r == [port |-> p.port, net |-> p.net, enabled |-> StartsEnabled(req),
                 tag |-> calls[c].tag, keys |-> calls[c].keys, over |-> Nobody, up |-> FALSE]
           x == IF req.client \/ req.inline THEN "reconcile" ELSE "issue"
<1>1. UNCHANGED <<material, clients, proc, managed, served, patch, patched>>
      /\ calls[c].pc = "insert"
  BY DEF Insert
<1>2. OfInstance(c) /\ calls[c].pc \in Late /\ calls[c].pc \notin Early
  BY <1>1 DEF OfInstance, Early, Late, Waiting
<1>3. ProcMoves
  BY <1>1, SameProcsMove DEF Inv
<1>4. Used' = Used
  BY <1>1 DEF Used
<1>5. CASE End(c) /\ UNCHANGED rows
  <2>1. TypeOK' /\ RunsMade'
    BY <1>1, <1>5 DEF Inv, TypeOK, RunsMade, Rows
  <2> QED
    BY <1>1, <1>4, <1>5, <2>1, QuietEnd
<1>6. CASE /\ p.name \notin Rows
           /\ rows' = [rows EXCEPT ![p.name] = r]
           /\ calls' = [Stale EXCEPT ![c].pc = x]
  <2>1. calls[c] \in InstanceCall(Late, New) /\ p \in New /\ req \in Asked
        /\ calls[c].tag \in 1..MaxCalls /\ calls[c].keys \in 0..MaxCalls
    BY <1>2, CallFields DEF Inv
  <2>2. p.name \in Names /\ p.port \in {None} \cup Ports /\ p.net \in {NoNet} \cup Nets
    BY <2>1 DEF New
  <2>3. r \in Row
    <3>1. Nobody \in [pid : {NoPid} \cup Pids, gen : 0..MaxGen]
      BY Bounds DEF Nobody
    <3>2. StartsEnabled(req) \in BOOLEAN
      BY DEF StartsEnabled
    <3> QED
      BY <2>1, <2>2, <3>1, <3>2 DEF Row
  <2>4. r # NoRow
    BY <2>3, ProvisionAssumption
  <2>5. rows'[p.name] = r /\ \A n \in Names \ {p.name} : rows'[n] = rows[n]
    BY <1>6, <2>2 DEF Inv, TypeOK
  <2>6. Rows' = Rows \cup {p.name}
    BY <2>2, <2>4, <2>5 DEF Rows
  <2>7. /\ r.tag = calls[c].tag /\ r.over = Nobody /\ r.over.pid = NoPid /\ r.up = FALSE
        /\ r.enabled = ~req.takeover
    BY DEF Nobody, StartsEnabled
  <2> HIDE DEF r
  <2>8. TypeOK'
    BY <1>1, <1>6, <2>3 DEF Inv, TypeOK
  <2> DEFINE k == [Stale[c] EXCEPT !.pc = x]
  <2>9. Stale[c] \in InstanceCall(Late, New) /\ Stale[c].tag = calls[c].tag
        /\ Stale[c].new = p /\ Stale[c].req = req
    <3>1. Stale[c] = [calls[c] EXCEPT !.sure = FALSE]
      BY <1>1 DEF Stale
    <3> QED
      BY <2>1, <3>1 DEF InstanceCall
  <2>10. k \in InstanceCall(Late, New) /\ k.pc = x /\ k.tag = calls[c].tag /\ k.new = p /\ k.req = req
    <3>1. x \in Late
      BY DEF Late
    <3> HIDE DEF x
    <3> QED
      BY <2>9, <3>1 DEF InstanceCall
  <2>11. /\ CallsTyped' /\ calls'[c] = k
         /\ \A d \in Calls \ {c} : /\ calls'[d] = Stale[d] /\ StaysPut(d)
                                   /\ calls'[d].pc = "insert" => calls'[d].sure = FALSE
    <3>1. Stale \in [Calls -> Call] /\ k \in Call
      BY <2>10, StaleStaysPut DEF Inv, Call
    <3>2. calls' = [Stale EXCEPT ![c] = k]
      BY <1>6, <3>1
    <3>3. CallsTyped' /\ calls'[c] = k /\ \A d \in Calls \ {c} : calls'[d] = Stale[d]
      <4> HIDE DEF k
      <4> QED
        BY <3>1, <3>2 DEF CallsTyped
    <3>4. \A d \in Calls : /\ Stale[d] = calls[d] \/ Stale[d] = [calls[d] EXCEPT !.sure = FALSE]
                           /\ calls[d].pc # "insert" => Stale[d] = calls[d]
                           /\ Stale[d].pc = "insert" => Stale[d].sure = FALSE
      BY StaleStaysPut DEF Inv
    <3> QED
      BY <3>3, <3>4 DEF StaysPut
  <2>12. k.pc \in {"issue", "reconcile"}
    BY <2>10
  <2> HIDE DEF k
  <2>13. \A d \in Calls \ {c} :
           OfInstance(d)' => OfInstance(d) /\ calls'[d].tag = calls[d].tag /\ calls'[d].pc = calls[d].pc
    BY <2>11, PutStill DEF Inv, OfInstance
  <2>14. \A d \in Calls \ {c} : OfInstance(d) => calls[d].tag # calls[c].tag
    BY <1>2 DEF Inv, TagsOK
  <2>15. \A n \in Rows : rows'[n] = rows[n]
    BY <1>6, <2>5 DEF Rows
  <2>16. RowsOK'
    <3>1. \A n \in Rows : RowOK(n)'
      <4>1. served <= served'
        BY <1>1, Counted DEF Inv
      <4>2. \A n \in Rows : Runs(n)' => Runs(n)
        BY <1>1, <2>15 DEF Runs
      <4> QED
        BY <1>3, <2>6, <2>8, <2>15, <4>1, <4>2, RowStays DEF Inv, RowsOK
    <3>2. ASSUME NEW n \in {p.name}
          PROVE  RowOK(n)'
      <4>1. rows'[p.name].tag <= served'
        BY <1>1, <1>2, <2>5, <2>7 DEF Inv, TagsOK
      <4>2. rows'[p.name].over.pid \notin Pids
        BY <2>5, <2>7, NoPidIsNone
      <4> QED
        BY <4>1, <4>2 DEF RowOK, Quit, QuitIn
    <3> QED
      BY <2>6, <3>1, <3>2 DEF RowsOK
  <2>17. TagsOK'
    <3> SUFFICES ASSUME NEW d \in Calls, OfInstance(d)'
                 PROVE  /\ calls'[d].tag <= served'
                        /\ \A e \in Calls : OfInstance(e)' /\ calls'[e].tag = calls'[d].tag => e = d
                        /\ calls'[d].pc \in Early \cup {"insert"} =>
                             \A n \in Rows' : rows'[n].tag # calls'[d].tag
      BY DEF TagsOK
    <3>1. \A e \in Calls : OfInstance(e)' => OfInstance(e) /\ calls'[e].tag = calls[e].tag
      BY <1>2, <2>10, <2>11, <2>13
    <3>2. calls'[d].tag <= served'
          /\ \A e \in Calls : OfInstance(e)' /\ calls'[e].tag = calls'[d].tag => e = d
      BY <1>1, <3>1 DEF Inv, TagsOK
    <3>3. CASE d = c
      BY <2>11, <2>12, <3>2, <3>3 DEF Early
    <3>4. CASE d # c
      <4>1. calls'[d].pc \in Early \cup {"insert"} => \A n \in Rows : rows[n].tag # calls'[d].tag
        BY <2>13, <3>1, <3>4 DEF Inv, TagsOK
      <4>2. rows'[p.name].tag # calls'[d].tag
        BY <2>5, <2>7, <2>14, <3>1, <3>4
      <4> QED
        BY <2>6, <2>15, <3>2, <4>1, <4>2
    <3> QED
      BY <3>3, <3>4
  <2>18. \A d \in Calls \ {c} : OfInstance(d) => KeptFor(calls[d].tag)
    BY <1>1, <2>5, <2>6, <2>7, <2>14, <2>15 DEF KeptFor, Runs
  <2>19. RunsMade'
    BY <1>1, <2>6 DEF Inv, RunsMade
  <2>20. OwnRowOK(c)' /\ LookOK(c)' /\ FitOK(c)'
    <3>1. Over(c)' = p.name
      BY <2>10, <2>11 DEF Over
    <3>2. TakesOver(calls'[c]) => ~rows'[p.name].enabled
      BY <2>5, <2>7, <2>10, <2>11, <2>12 DEF TakesOver, Waiting
    <3>3. p.name \notin managed'
      BY <1>1, <1>6 DEF Inv, RunsMade
    <3>4. calls'[c].pc \in {"issue", "reconcile"}
      BY <2>11, <2>12
    <3> HIDE DEF p
    <3>5. OwnRowOK(c)'
      BY <3>1, <3>2, <3>3, <3>4 DEF OwnRowOK, Waiting, Runs
    <3>6. LookOK(c)' /\ FitOK(c)'
      BY <3>4 DEF LookOK, FitOK, Waiting
    <3> QED
      BY <3>5, <3>6
  <2> DEFINE S == {c}
  <2>21. S \in SUBSET Calls
         /\ (\A d \in Calls \ S : StaysPut(d) /\ (OfInstance(d) => KeptFor(calls[d].tag)))
         /\ (\A d \in Calls \ S : calls'[d].pc = "insert" => calls'[d].sure = FALSE)
         /\ \A d \in S : OwnRowOK(d)' /\ LookOK(d)' /\ FitOK(d)'
    BY <2>11, <2>18, <2>20
  <2> HIDE DEF S
  <2> QED
    BY <1>3, <1>4, <2>8, <2>11, <2>16, <2>17, <2>19, <2>21, StepKeepsInv
<1> QED
  BY <1>5, <1>6 DEF Insert

(* A handler that goes on and whose row is as it was is right about it when  *)
(* it was before, and the process is gone when the row is to be enabled.     *)
LEMMA OwnRowGoes ==
    ASSUME Inv, NEW c \in Calls, calls[c].pc \in Late, rows' = rows,
           managed' \in {managed, Enabled},
           calls'[c].req = calls[c].req, calls'[c].new = calls[c].new, calls'[c].tag = calls[c].tag,
           TakesOver(calls'[c]) => TakesOver(calls[c]),
           calls'[c].pc \in Waiting \ {"inspect"} => calls[c].pc \in Waiting \ {"inspect"},
           calls'[c].pc = "enable" /\ Own(c) => QuitIn(proc', rows[Over(c)].over)
    PROVE  OwnRowOK(c)'
<1>1. Over(c)' = Over(c) /\ (Own(c)' <=> Own(c))
  BY DEF Over, Own, Rows
<1>2. OwnRowOK(c)
  BY DEF Inv, OwnRowsOK
<1>3. rows'[Over(c)'] = rows[Over(c)]
  BY <1>1
<1>4. Own(c) => (Runs(Over(c))' => Runs(Over(c)))
  BY <1>1 DEF Runs, Enabled
<1> HIDE DEF Own, Over, TakesOver
<1> QED
  BY <1>1, <1>2, <1>3, <1>4 DEF OwnRowOK, Quit

(* A handler that goes on quietly keeps the invariant.                       *)
LEMMA QuietGo ==
    ASSUME Inv, TypeOK', RunsMade', rows' = rows, managed' \in {managed, Enabled},
           served' = served, ProcMoves, Used' \subseteq Used, NEW c \in Calls, calls[c].pc \in Late,
           NEW x \in Late \ {"insert"}, Go(c, x),
           TakesOver([pc |-> x, req |-> calls[c].req]) => TakesOver(calls[c]),
           x \in Waiting \ {"inspect"} => calls[c].pc \in Waiting \ {"inspect"},
           x = "enable" /\ Own(c) => QuitIn(proc', rows[Over(c)].over),
           x \notin {"term", "kill"}
    PROVE  Inv'
<1>1. /\ CallsTyped' /\ (\A d \in Calls \ {c} : calls'[d] = calls[d] /\ StaysPut(d))
      /\ \A d \in Calls : Advances(d)
      /\ calls'[c].pc = x /\ calls'[c].req = calls[c].req /\ calls'[c].new = calls[c].new
      /\ calls'[c].tag = calls[c].tag /\ calls'[c].gen = calls[c].gen /\ FitOK(c)'
  BY GoIsTyped DEF Inv
<1>2. TakesOver(calls'[c]) => TakesOver(calls[c])
  BY <1>1 DEF TakesOver
<1>3. OwnRowOK(c)'
  BY <1>1, <1>2, OwnRowGoes
<1>4. LookOK(c)'
  <2>1. LookOK(c)
    BY DEF Inv, LooksOK
  <2> QED
    BY <1>1, <2>1 DEF LookOK
<1> QED
  BY <1>1, <1>3, <1>4, QuietStep

(* Where no row, client or process changes, the types stay.                  *)
LEMMA SameTypes ==
    ASSUME Inv, rows' = rows, clients' = clients, material' = material,
           proc' \in [Pids -> [kind : {"none", "openvpn", "other"}, gen : 0..MaxGen]],
           served' = served, patch' = patch, patched' = patched, managed' \in {managed, Enabled}
    PROVE  TypeOK' /\ RunsMade' /\ Used' = Used
<1>1. Rows' = Rows /\ Enabled \subseteq Rows /\ Enabled \subseteq Names
  BY DEF Enabled, Rows
<1>2. Used' = Used
  BY DEF Used
<1> QED
  BY <1>1, <1>2 DEF Inv, TypeOK, RunsMade

(* What is read of a row, if there is one.                                   *)
LEMMA ColumnsAreSeen ==
    ASSUME TypeOK, NEW n \in Names
    PROVE  /\ Columns(n) \in {NoRow} \cup Seen
           /\ n \in Rows => Columns(n) \in Seen
<1>1. CASE n \in Rows
  <2>1. rows[n] \in Row
    BY <1>1, RowsAreRows
  <2>2. [port |-> rows[n].port, net |-> rows[n].net, keys |-> rows[n].keys,
         enabled |-> rows[n].enabled] \in Seen
    BY <2>1 DEF Row, Seen
  <2> QED
    BY <1>1, <2>2 DEF Columns, Rows
<1>2. CASE n \notin Rows
  BY <1>2 DEF Columns, Rows
<1> QED
  BY <1>1, <1>2

(* The certificate is issued, or it is not.                                  *)
LEMMA IssueKeeps ==
    ASSUME Inv, NEW c \in Calls, Issue(c) \/ IssueFails(c)
    PROVE  Inv'
<1>1. UNCHANGED <<rows, material, clients, proc, managed, served, patch, patched>>
      /\ calls[c].pc = "issue"
  BY DEF Issue, IssueFails
<1>2. TypeOK' /\ RunsMade' /\ Used' = Used
  BY <1>1, SameTypes DEF Inv, TypeOK
<1>3. CASE End(c)
  BY <1>1, <1>2, <1>3, QuietEnd
<1>4. CASE Issue(c)
  <2> DEFINE s == Columns(calls[c].new.name)
             k == [calls[c] EXCEPT !.pc = "wire", !.seen = s]
  <2>1. ProcMoves
    BY <1>1, SameProcsMove DEF Inv
  <2>2. calls[c].pc \in Late /\ "wire" \in Late \ {"insert"} /\ OfInstance(c)
        /\ calls[c].pc \notin Early
    BY <1>1 DEF Late, Waiting, OfInstance, Early
  <2>3. calls[c].new.name \in Names
    BY <2>2, CallFields DEF Inv, New
  <2>4. s \in {NoRow} \cup Seen
    BY <2>3, ColumnsAreSeen DEF Inv
  <2>5. calls' = [calls EXCEPT ![c] = k]
    BY <1>4 DEF Issue, Inv, CallsTyped
  <2> HIDE DEF s
  <2>6. k \in Call /\ k.pc = "wire" /\ k.req = calls[c].req
        /\ k.new = calls[c].new /\ k.tag = calls[c].tag /\ k.gen = calls[c].gen
    <3>1. calls[c] \in InstanceCall(Late, New)
      BY <2>2, CallFields DEF Inv
    <3>2. k \in InstanceCall(Late, New) /\ k.pc = "wire" /\ k.req = calls[c].req
          /\ k.new = calls[c].new /\ k.tag = calls[c].tag /\ k.gen = calls[c].gen
      BY <2>2, <2>4, <3>1 DEF InstanceCall
    <3> QED
      BY <3>2 DEF Call
  <2> HIDE DEF k
  <2>7. /\ CallsTyped' /\ calls'[c] = k
        /\ \A d \in Calls \ {c} : calls'[d] = calls[d] /\ StaysPut(d) /\ Advances(d)
    BY <2>5, <2>6, CallMoves DEF Inv
  <2>8. Advances(c) /\ LookOK(c)' /\ FitOK(c)'
    BY <2>2, <2>6, <2>7 DEF Advances, OfInstance, LookOK, FitOK, Early, Late, Waiting
  <2>9. TakesOver(calls'[c]) => TakesOver(calls[c])
    BY <1>1, <2>6, <2>7 DEF TakesOver, Waiting
  <2>10. OwnRowOK(c)'
    <3>1. calls'[c].pc \notin Waiting /\ calls'[c].pc # "enable"
      BY <2>6, <2>7 DEF Waiting
    <3> QED
      BY <1>1, <2>2, <2>6, <2>7, <2>9, <3>1, OwnRowGoes
  <2>11. \A d \in Calls : Advances(d)
    BY <2>7, <2>8
  <2> QED
    BY <1>1, <1>2, <2>1, <2>7, <2>8, <2>10, <2>11, QuietStep
<1> QED
  BY <1>3, <1>4 DEF IssueFails

(* A row that is written back keeps its request and the process it takes     *)
(* over; who enables it thereby has brought it up.                           *)
LEMMA RowWritten ==
    ASSUME Inv, NEW n \in Rows, NEW s \in Seen, rows' = [rows EXCEPT ![n] = Written(@, s)],
           managed' \in {managed, Enabled'}
    PROVE  /\ rows' \in [Names -> {NoRow} \cup Row] /\ Rows' = Rows
           /\ managed' \subseteq Rows /\ managed' \subseteq Names
           /\ \A m \in Rows : /\ rows'[m].tag = rows[m].tag /\ rows'[m].over = rows[m].over
                              /\ Runs(m)' /\ ~rows'[m].up => Runs(m) /\ ~rows[m].up
           /\ ~Moved(rows[n], s) => SamePlaces
           /\ NoneMade /\ \A t : KeptFor(t)
<1> DEFINE w == rows[n]
           r == Written(w, s)
<1>1. n \in Names /\ w \in Row
  BY RowsAreRows DEF Inv
<1>2. r = [w EXCEPT !.port = s.port, !.net = s.net, !.keys = s.keys, !.enabled = s.enabled,
                    !.up = w.up \/ (s.enabled /\ ~w.enabled)]
  <2> HIDE DEF w
  <2> QED
    BY <1>1 DEF Written, Row
<1>3. /\ s.port \in {None} \cup Ports /\ s.net \in {NoNet} \cup Nets /\ s.keys \in 0..MaxCalls
      /\ s.enabled \in BOOLEAN
  BY DEF Seen
<1>4. w.up \in BOOLEAN /\ w.enabled \in BOOLEAN /\ (w.up \/ (s.enabled /\ ~w.enabled)) \in BOOLEAN
  BY <1>1, RowFields
<1>5. /\ r \in Row /\ r.tag = w.tag /\ r.over = w.over /\ r.port = s.port /\ r.net = s.net
      /\ r.enabled = s.enabled /\ r.up = (w.up \/ (s.enabled /\ ~w.enabled))
  <2> DEFINE u == w.up \/ (s.enabled /\ ~w.enabled)
  <2>1. u \in BOOLEAN /\ r = [w EXCEPT !.port = s.port, !.net = s.net, !.keys = s.keys,
                                       !.enabled = s.enabled, !.up = u]
    BY <1>2, <1>4
  <2> HIDE DEF u, w, r
  <2>2. r \in Row
    BY <1>1, <1>3, <2>1 DEF Row
  <2>3. /\ r.tag = w.tag /\ r.over = w.over /\ r.port = s.port /\ r.net = s.net
        /\ r.enabled = s.enabled /\ r.up = u
    BY <1>1, <2>1 DEF Row
  <2> QED
    BY <2>2, <2>3 DEF u
<1>6. r # NoRow
  BY <1>5, ProvisionAssumption
<1>7. rows' = [rows EXCEPT ![n] = r]
  OBVIOUS
<1> HIDE DEF r
<1>8. rows'[n] = r /\ (\A m \in Names \ {n} : rows'[m] = rows[m])
      /\ rows' \in [Names -> {NoRow} \cup Row]
  BY <1>1, <1>5, <1>7 DEF Inv, TypeOK
<1>9. Rows' = Rows
  BY <1>1, <1>6, <1>8 DEF Rows
<1>10. managed' \subseteq Rows /\ managed' \subseteq Names
       /\ \A m \in managed' : m \in managed \/ rows'[m].enabled
  BY <1>9 DEF Inv, RunsMade, Enabled, Rows
<1>11. ASSUME NEW m \in Rows
       PROVE  /\ rows'[m].tag = rows[m].tag /\ rows'[m].over = rows[m].over
              /\ Runs(m)' /\ ~rows'[m].up => Runs(m) /\ ~rows[m].up
  <2>1. m \in Names
    BY DEF Rows
  <2>2. CASE m = n
    BY <1>4, <1>5, <1>8, <1>10, <2>2 DEF Runs
  <2>3. CASE m # n
    <3>1. rows'[m] = rows[m]
      BY <1>8, <2>1, <2>3
    <3> QED
      BY <1>10, <3>1 DEF Runs
  <2> QED
    BY <2>2, <2>3
<1>12. ~Moved(w, s) => SamePlaces
  <2>1. \A m \in Rows : m \in Names
    BY DEF Rows
  <2> QED
    BY <1>5, <1>8, <1>9, <2>1 DEF Moved, SamePlaces
<1>13. NoneMade /\ \A t : KeptFor(t)
  BY <1>9, <1>11 DEF NoneMade, KeptFor
<1> QED
  BY <1>8, <1>9, <1>10, <1>11, <1>12, <1>13

(* The row gets the paths of what was issued, or is gone.                    *)
LEMMA WireKeeps ==
    ASSUME Inv, NEW c \in Calls, Wire(c)
    PROVE  Inv'
<1> DEFINE n == calls[c].new.name
           seen == calls[c].seen
           k == [calls[c] EXCEPT !.pc = "reconcile", !.seen = NoRow]
<1>1. UNCHANGED <<material, clients, proc, managed, served, patch, patched>>
      /\ calls[c].pc = "wire"
  BY DEF Wire
<1>2. calls[c].pc \in Late /\ "reconcile" \in Late \ {"insert"} /\ OfInstance(c)
      /\ calls[c].pc \notin Early
  BY <1>1 DEF Late, Waiting, OfInstance, Early
<1>3. n \in Names /\ seen \in {NoRow} \cup Seen /\ calls[c].tag \in Nat
  <2>1. calls[c] \in InstanceCall(Late, New) /\ calls[c].new \in New /\ calls[c].tag \in Nat
    BY <1>2, CallFields, Bounds DEF Inv
  <2> QED
    BY <2>1 DEF New, InstanceCall
<1>4. k \in Call /\ k.pc = "reconcile" /\ k.req = calls[c].req
      /\ k.new = calls[c].new /\ k.tag = calls[c].tag /\ k.gen = calls[c].gen
  <2>1. calls[c] \in InstanceCall(Late, New)
    BY <1>2, CallFields DEF Inv
  <2>2. k \in InstanceCall(Late, New) /\ k.pc = "reconcile" /\ k.req = calls[c].req
        /\ k.new = calls[c].new /\ k.tag = calls[c].tag /\ k.gen = calls[c].gen
    BY <1>2, <2>1 DEF InstanceCall
  <2> QED
    BY <2>2 DEF Call
<1>5. TakesOver(k) => TakesOver(calls[c])
  <2> HIDE DEF k
  <2> QED
    BY <1>1, <1>4 DEF TakesOver, Waiting
<1>6. ProcMoves /\ served <= served' /\ Used' = Used
  BY <1>1, SameProcsMove, Counted DEF Inv, Used
<1>7. CASE UNCHANGED rows /\ calls' = [calls EXCEPT ![c].pc = "reconcile", ![c].seen = NoRow]
  <2>1. calls' = [calls EXCEPT ![c] = k]
    BY <1>7 DEF Inv, CallsTyped
  <2> HIDE DEF k
  <2>2. /\ CallsTyped' /\ calls'[c] = k
        /\ \A d \in Calls \ {c} : calls'[d] = calls[d] /\ StaysPut(d) /\ Advances(d)
    BY <1>4, <2>1, CallMoves DEF Inv
  <2>3. Advances(c) /\ LookOK(c)' /\ FitOK(c)'
    BY <1>2, <1>4, <2>2 DEF Advances, OfInstance, LookOK, FitOK, Early, Late, Waiting
  <2>4. OwnRowOK(c)'
    <3>1. calls'[c].pc \notin Waiting /\ calls'[c].pc # "enable"
      BY <1>4, <2>2 DEF Waiting
    <3> QED
      BY <1>1, <1>2, <1>4, <1>5, <1>7, <2>2, <3>1, OwnRowGoes
  <2>5. TypeOK' /\ RunsMade'
    BY <1>1, <1>7, SameTypes DEF Inv, TypeOK
  <2>6. \A d \in Calls : Advances(d)
    BY <2>2, <2>3
  <2> QED
    BY <1>1, <1>6, <1>7, <2>2, <2>3, <2>4, <2>5, <2>6, QuietStep
<1>8. CASE /\ NoRow \notin {seen, rows[n]}
           /\ rows' = [rows EXCEPT ![n] = Written(@, [seen EXCEPT !.keys = None])]
           /\ calls' = [(IF Moved(rows[n], seen) THEN Stale ELSE calls)
                           EXCEPT ![c].pc = "reconcile", ![c].seen = NoRow]
  <2> DEFINE s == [seen EXCEPT !.keys = None]
             f == IF Moved(rows[n], seen) THEN Stale ELSE calls
  <2>1. n \in Rows /\ seen \in Seen
    BY <1>3, <1>8 DEF Rows
  <2>2. s \in Seen /\ s.port = seen.port /\ s.net = seen.net
    <3> HIDE DEF seen
    <3> QED
      BY <2>1, Bounds DEF Seen, None
  <2>3. Moved(rows[n], s) <=> Moved(rows[n], seen)
    BY <2>2 DEF Moved
  <2> HIDE DEF s
  <2>4. rows' = [rows EXCEPT ![n] = Written(@, s)]
    BY <1>8 DEF s
  <2> HIDE DEF n
  <2>5. /\ rows' \in [Names -> {NoRow} \cup Row] /\ Rows' = Rows
        /\ managed' \subseteq Rows /\ managed' \subseteq Names
        /\ \A m \in Rows : /\ rows'[m].tag = rows[m].tag /\ rows'[m].over = rows[m].over
                           /\ Runs(m)' /\ ~rows'[m].up => Runs(m) /\ ~rows[m].up
        /\ ~Moved(rows[n], s) => SamePlaces
        /\ NoneMade /\ \A t : KeptFor(t)
    BY <1>1, <2>1, <2>2, <2>4, RowWritten
  <2>6. TypeOK' /\ RunsMade'
    BY <1>1, <2>5 DEF Inv, TypeOK, RunsMade
  <2>7. RowsOK'
    BY <1>6, <2>5, <2>6, RowStays DEF Inv, RowsOK
  <2>8. Stale \in [Calls -> Call] /\ Stale[c] = calls[c]
        /\ \A d \in Calls : /\ Stale[d] = calls[d] \/ Stale[d] = [calls[d] EXCEPT !.sure = FALSE]
                            /\ calls[d].pc # "insert" => Stale[d] = calls[d]
                            /\ Stale[d].pc = "insert" => Stale[d].sure = FALSE
    BY <1>1, StaleStaysPut DEF Inv
  <2>9. f \in [Calls -> Call] /\ f[c] = calls[c]
        /\ \A d \in Calls : /\ f[d] = calls[d] \/ f[d] = [calls[d] EXCEPT !.sure = FALSE]
                            /\ calls[d].pc # "insert" => f[d] = calls[d]
    BY <2>8 DEF Inv, CallsTyped
  <2>10. ~SamePlaces => f = Stale
    BY <2>3, <2>5
  <2>11. calls' = [f EXCEPT ![c].pc = "reconcile", ![c].seen = NoRow]
    BY <1>8 DEF n
  <2> HIDE DEF f
  <2>12. calls' = [f EXCEPT ![c] = k]
    BY <2>9, <2>11
  <2> HIDE DEF k
  <2>13. CallsTyped' /\ calls'[c] = k /\ \A d \in Calls \ {c} : calls'[d] = f[d]
    BY <1>4, <2>9, <2>12 DEF CallsTyped
  <2>14. \A d \in Calls \ {c} : StaysPut(d)
    BY <2>9, <2>13 DEF StaysPut
  <2>15. SamePlaces \/ \A d \in Calls \ {c} : calls'[d].pc = "insert" => calls'[d].sure = FALSE
    BY <2>8, <2>10, <2>13
  <2>16. Advances(c) /\ LookOK(c)' /\ FitOK(c)'
    BY <1>2, <1>4, <2>13 DEF Advances, OfInstance, LookOK, FitOK, Early, Late, Waiting
  <2>17. \A d \in Calls : Advances(d)
    BY <2>14, <2>16, PutAdvances DEF Inv
  <2>18. TagsOK'
    BY <1>6, <2>5, <2>6, <2>17, TagsStay DEF Inv
  <2>19. OwnRowOK(c)'
    <3>1. Over(c)' = n /\ Over(c) = n
      BY <1>4, <2>13 DEF Over, n
    <3>2. Own(c)' => Own(c)
      BY <1>4, <2>5, <2>13, <3>1 DEF Own
    <3>3. calls'[c].pc \notin Waiting /\ calls'[c].pc # "enable"
      BY <1>4, <2>13 DEF Waiting
    <3>4. Own(c) /\ TakesOver(calls[c]) => ~Runs(n) \/ rows[n].up
      BY <1>2, <3>1 DEF Inv, OwnRowsOK, OwnRowOK
    <3>5. Own(c)' /\ TakesOver(calls'[c]) =>
            ~(rows'[n].enabled \/ n \in managed') \/ rows'[n].up
      BY <1>5, <2>1, <2>5, <2>13, <3>2, <3>4 DEF Runs
    <3> HIDE DEF Own, Over
    <3> QED
      BY <3>1, <3>3, <3>5 DEF OwnRowOK, Runs
  <2> DEFINE S == {c}
  <2>20. S \in SUBSET Calls
         /\ (\A d \in Calls \ S : StaysPut(d) /\ (OfInstance(d) => KeptFor(calls[d].tag)))
         /\ (SamePlaces \/ \A d \in Calls \ S : calls'[d].pc = "insert" => calls'[d].sure = FALSE)
         /\ \A d \in S : OwnRowOK(d)' /\ LookOK(d)' /\ FitOK(d)'
    BY <2>5, <2>14, <2>15, <2>16, <2>19
  <2> HIDE DEF S
  <2> QED
    BY <1>6, <2>6, <2>7, <2>13, <2>18, <2>20, StepKeepsInv
<1> QED
  BY <1>7, <1>8 DEF Wire

(* A reconcile runs what is enabled.                                         *)
LEMMA ReconcileKeeps ==
    ASSUME Inv, NEW c \in Calls, Reconcile(c) \/ Final(c)
    PROVE  Inv'
<1>1. UNCHANGED <<rows, material, clients, proc, served, patch, patched>> /\ managed' = Enabled
      /\ calls[c].pc \in {"reconcile", "final"}
  BY DEF Reconcile, Final
<1>2. TypeOK' /\ RunsMade' /\ Used' = Used
  BY <1>1, SameTypes DEF Inv, TypeOK
<1>3. CASE End(c)
  BY <1>1, <1>2, <1>3, QuietEnd
<1>4. CASE calls[c].pc = "reconcile" /\ calls[c].req.takeover /\ Go(c, "inspect")
  <2>1. ProcMoves
    BY <1>1, SameProcsMove DEF Inv
  <2>2. TakesOver(calls[c])
    BY <1>4 DEF TakesOver
  <2>3. "inspect" \in Late \ {"insert"} /\ calls[c].pc \in Late
    BY <1>1 DEF Late, Waiting
  <2> QED
    BY <1>1, <1>2, <1>4, <2>1, <2>2, <2>3, QuietGo
<1> QED
  BY <1>1, <1>3, <1>4 DEF Reconcile, Final

------------------------------------------------------------------------------
(* Taking over                                                               *)

(* The row of a take-over names the process o, or none; nothing else of it   *)
(* changes.                                                                  *)
LEMMA MarkStep ==
    ASSUME Inv, NEW c \in Calls, calls[c].pc \in Waiting,
           NEW o \in [pid : {NoPid} \cup Pids, gen : 0..MaxGen],
           o.pid \in Pids => o.gen <= proc[o.pid].gen,
           rows' = Marked(c, o),
           UNCHANGED <<material, clients, proc, managed, served, patch, patched>>,
           NEW x \in {"check", "enable"}, Go(c, x),
           x = "check" => o.pid = calls[c].req.pid /\ o.pid \in Pids,
           x = "enable" => QuitIn(proc, o)
    PROVE  Inv'
<1> DEFINE n == Over(c)
<1>1. /\ CallsTyped' /\ (\A d \in Calls \ {c} : calls'[d] = calls[d] /\ StaysPut(d))
      /\ \A d \in Calls : Advances(d)
      /\ calls'[c].pc = x /\ calls'[c].req = calls[c].req /\ calls'[c].new = calls[c].new
      /\ calls'[c].tag = calls[c].tag /\ calls'[c].gen = calls[c].gen /\ FitOK(c)'
  <2>1. calls[c].pc \in Late /\ x \in Late \ {"insert"}
    BY DEF Late, Waiting
  <2> QED
    BY <2>1, GoIsTyped DEF Inv
<1>2. OfInstance(c) /\ calls[c].pc \in Late /\ TakesOver(calls[c])
  BY DEF OfInstance, Late, TakesOver
<1>3. rows' \in [Names -> {NoRow} \cup Row] /\ Rows' = Rows
      /\ \A m \in Rows :
           /\ rows'[m].tag = rows[m].tag /\ rows'[m].port = rows[m].port
           /\ rows'[m].net = rows[m].net
           /\ rows'[m].enabled = rows[m].enabled /\ rows'[m].up = rows[m].up
           /\ rows'[m] = rows[m] \/ (Own(c) /\ m = n)
           /\ Own(c) /\ m = n => rows'[m].over = o
  <2>1. CASE ~Own(c)
    <3>1. rows' = rows
      BY <2>1 DEF Marked
    <3> QED
      BY <2>1, <3>1 DEF Inv, TypeOK, Rows
  <2>2. CASE Own(c)
    <3>1. n \in Rows /\ n \in Names /\ rows[n] \in Row
      BY <2>2, RowsAreRows DEF Own, Inv
    <3> DEFINE r == [rows[n] EXCEPT !.over = o]
    <3>2. r \in Row /\ r.tag = rows[n].tag /\ r.port = rows[n].port /\ r.net = rows[n].net
          /\ r.enabled = rows[n].enabled /\ r.up = rows[n].up /\ r.over = o
      BY <3>1 DEF Row
    <3>3. r # NoRow
      BY <3>2, ProvisionAssumption
    <3>4. rows' = [rows EXCEPT ![n] = r]
      BY <2>2 DEF Marked
    <3> HIDE DEF r, n
    <3>5. rows'[n] = r /\ \A m \in Names \ {n} : rows'[m] = rows[m]
      BY <3>1, <3>4 DEF Inv, TypeOK
    <3>6. rows' \in [Names -> {NoRow} \cup Row]
      BY <3>2, <3>4 DEF Inv, TypeOK
    <3>7. Rows' = Rows
      BY <3>1, <3>3, <3>5 DEF Rows
    <3>8. \A m \in Rows : m \in Names
      BY DEF Rows
    <3> QED
      BY <2>2, <3>2, <3>5, <3>6, <3>7, <3>8
  <2> QED
    BY <2>1, <2>2
<1> HIDE DEF n
<1>4. TypeOK' /\ Used' = Used /\ RunsMade'
  <2>1. TypeOK'
    BY <1>3 DEF Inv, TypeOK
  <2> QED
    BY <1>3, <2>1 DEF Inv, RunsMade, Used
<1>5. ProcMoves /\ served <= served'
  BY SameProcsMove, Counted DEF Inv
<1>6. NoneMade /\ SamePlaces
  BY <1>3 DEF NoneMade, SamePlaces
<1>7. TagsOK'
  BY <1>1, <1>4, <1>5, <1>6, TagsStay DEF Inv
<1>8. /\ Own(c) => ~Runs(n) \/ rows[n].up
      /\ \A m \in Rows : Runs(m)' <=> Runs(m)
  <2>1. Own(c) => ~Runs(n) \/ rows[n].up
    BY <1>2 DEF n, Inv, OwnRowsOK, OwnRowOK
  <2>2. \A m \in Rows : Runs(m)' <=> Runs(m)
    BY <1>3 DEF Runs
  <2> QED
    BY <2>1, <2>2
<1>9. RowsOK'
  <2>1. ASSUME NEW m \in Rows, rows'[m] = rows[m]
        PROVE  RowOK(m)'
    BY <1>3, <1>4, <1>5, <1>8, <2>1, RowStays DEF Inv, RowsOK
  <2>2. ASSUME NEW m \in Rows, Own(c), m = n
        PROVE  RowOK(m)'
    <3>1. rows'[m].over = o /\ rows'[m].tag = rows[m].tag /\ rows[m].tag <= served
          /\ rows'[m].enabled = rows[m].enabled /\ rows'[m].up = rows[m].up
      BY <1>3, <2>2 DEF Inv, RowsOK, RowOK
    <3>2. ~Runs(m)' \/ rows'[m].up
      BY <1>8, <2>2, <3>1
    <3> QED
      BY <3>1, <3>2 DEF RowOK
  <2> QED
    BY <1>3, <2>1, <2>2 DEF RowsOK
<1>10. ASSUME NEW d \in Calls \ {c}, OfInstance(d)
       PROVE  KeptFor(calls[d].tag)
  <2>1. calls[d].tag # calls[c].tag
    BY <1>2, <1>10 DEF Inv, TagsOK
  <2>2. Own(c) => rows[n].tag = calls[c].tag
    BY DEF Own, n
  <2> QED
    BY <1>3, <1>8, <2>1, <2>2 DEF KeptFor
<1>11. OwnRowOK(c)'
  <2>1. Over(c)' = n /\ (Own(c)' <=> Own(c))
    BY <1>1, <1>3 DEF Over, Own, n
  <2>2. Own(c) => n \in Rows
    BY DEF Own, n
  <2>3. Own(c) => (~(rows'[n].enabled \/ n \in managed') \/ rows'[n].up) /\ rows'[n].over = o
    BY <1>3, <1>8, <2>2 DEF Runs
  <2>4. calls'[c].pc = "enable" => QuitIn(proc', o)
    BY <1>1
  <2>5. calls'[c].pc \in Waiting \ {"inspect"} => o.pid = calls'[c].req.pid
    BY <1>1 DEF Waiting
  <2> HIDE DEF Own, Over
  <2> QED
    BY <2>1, <2>3, <2>4, <2>5 DEF OwnRowOK, Quit, Runs
<1>12. LookOK(c)'
  BY <1>1 DEF LookOK, Waiting
<1> DEFINE S == {c}
<1>13. S \in SUBSET Calls
       /\ (\A d \in Calls \ S : StaysPut(d) /\ (OfInstance(d) => KeptFor(calls[d].tag)))
       /\ \A d \in S : OwnRowOK(d)' /\ LookOK(d)' /\ FitOK(d)'
  BY <1>1, <1>10, <1>11, <1>12
<1> HIDE DEF S
<1> QED
  BY <1>1, <1>4, <1>5, <1>6, <1>7, <1>9, <1>13, StepKeepsInv

(* A stop that failed, or found nothing to stop.                             *)
LEMMA StopFailedKeeps ==
    ASSUME Inv, NEW c \in Calls, calls[c].pc \in Waiting, StopFailed(c),
           UNCHANGED <<material, clients, proc, managed, served, patch, patched>>
    PROVE  Inv'
<1>1. Nobody \in [pid : {NoPid} \cup Pids, gen : 0..MaxGen] /\ Nobody.pid \notin Pids
  BY Bounds, NoPidIsNone DEF Nobody
<1>2. QuitIn(proc, Nobody)
  BY <1>1 DEF QuitIn
<1>3. "enable" \in {"check", "enable"} /\ "enable" # "check"
  OBVIOUS
<1>4. rows' = Marked(c, Nobody) /\ Go(c, "enable")
  BY DEF StopFailed
<1> QED
  BY <1>1, <1>2, <1>3, <1>4, MarkStep

(* A stop of a process that is gone.                                         *)
LEMMA StoppedKeeps ==
    ASSUME Inv, NEW c \in Calls, calls[c].pc \in Waiting \ {"inspect"}, ~Alive(calls[c].req.pid),
           Stopped(c), UNCHANGED <<material, clients, proc, managed, served, patch, patched>>
    PROVE  Inv'
<1>1. rows' = rows /\ Go(c, "enable")
  BY DEF Stopped
<1>2. TypeOK' /\ RunsMade' /\ Used' = Used
  BY <1>1, SameTypes DEF Inv, TypeOK
<1>3. ProcMoves
  BY SameProcsMove DEF Inv
<1>4. calls[c].pc \in Late /\ "enable" \in Late \ {"insert"} /\ "enable" \notin Waiting
  BY DEF Late, Waiting
<1>5. ~TakesOver([pc |-> "enable", req |-> calls[c].req])
  BY <1>4 DEF TakesOver
<1>6. Own(c) => QuitIn(proc', rows[Over(c)].over)
  <2>1. Own(c) => rows[Over(c)].over.pid = calls[c].req.pid
    BY <1>4 DEF Inv, OwnRowsOK, OwnRowOK
  <2> QED
    BY <2>1 DEF QuitIn, Alive
<1>7. "enable" \notin {"term", "kill"}
  OBVIOUS
<1> QED
  BY <1>1, <1>2, <1>3, <1>4, <1>5, <1>6, <1>7, QuietGo

(* A look that found openvpn, before a signal.                               *)
LEMMA LookKeeps ==
    ASSUME Inv, NEW c \in Calls, calls[c].pc \in Waiting \ {"inspect"}, IsOpenVPN(calls[c].req.pid),
           NEW x \in {"term", "kill"},
           calls' = [calls EXCEPT ![c].pc = x, ![c].gen = proc[calls[c].req.pid].gen],
           UNCHANGED <<rows, material, clients, proc, managed, served, patch, patched>>
    PROVE  Inv'
<1> DEFINE p == calls[c].req.pid
<1>1. p \in Pids /\ proc[p].kind = "openvpn" /\ proc[p].gen \in 0..MaxGen /\ proc[p].gen \in Nat
  BY Counted, Bounds DEF IsOpenVPN, Inv
<1>2. TypeOK' /\ RunsMade' /\ Used' = Used
  BY SameTypes DEF Inv, TypeOK
<1>3. ProcMoves
  BY SameProcsMove DEF Inv
<1>4. calls[c].pc \in Late /\ x \in Late \ {"insert"} /\ TakesOver(calls[c])
  BY DEF Late, Waiting, TakesOver
<1>5. /\ CallsTyped' /\ (\A d \in Calls \ {c} : calls'[d] = calls[d] /\ StaysPut(d))
      /\ \A d \in Calls : Advances(d)
      /\ calls'[c].pc = x /\ calls'[c].req = calls[c].req /\ calls'[c].new = calls[c].new
      /\ calls'[c].tag = calls[c].tag /\ calls'[c].gen = proc[p].gen /\ FitOK(c)'
  BY <1>1, <1>4, LookIsTyped DEF Inv
<1>6. OwnRowOK(c)'
  <2>1. calls'[c].pc # "enable"
    BY <1>5
  <2> QED
    BY <1>4, <1>5, <2>1, OwnRowGoes
<1>7. LookOK(c)'
  BY <1>1, <1>5 DEF LookOK
<1> QED
  BY <1>2, <1>3, <1>5, <1>6, <1>7, QuietStep

(* A signal, that the process answers by exiting or not.                     *)
LEMMA SignalKeeps ==
    ASSUME Inv, NEW c \in Calls, calls[c].pc \in Waiting \ {"inspect"}, Alive(calls[c].req.pid),
           NEW x \in {"poll", "reap"}, Go(c, x), rows' = rows,
           Dies(calls[c].req.pid) \/ UNCHANGED proc,
           UNCHANGED <<material, clients, managed, served, patch, patched>>
    PROVE  Inv'
<1>1. ProcMoves /\ proc' \in [Pids -> [kind : {"none", "openvpn", "other"}, gen : 0..MaxGen]]
  <2>1. calls[c].req.pid \in Pids
    BY DEF Alive
  <2>2. CASE Dies(calls[c].req.pid)
    BY <2>1, <2>2, DeathMoves DEF Inv
  <2>3. CASE UNCHANGED proc
    BY <2>3, SameProcsMove DEF Inv, TypeOK
  <2> QED
    BY <2>2, <2>3
<1>2. TypeOK' /\ RunsMade' /\ Used' = Used
  BY <1>1, SameTypes
<1>3. calls[c].pc \in Late /\ x \in Late \ {"insert"} /\ TakesOver(calls[c])
      /\ x \notin {"term", "kill", "enable"}
  BY DEF Late, Waiting, TakesOver
<1> QED
  BY <1>1, <1>2, <1>3, QuietGo

(* The steps of a take-over.                                                 *)
LEMMA InspectKeeps ==
    ASSUME Inv, NEW c \in Calls, Inspect(c)
    PROVE  Inv'
<1> DEFINE p == calls[c].req.pid
           o == [pid |-> p, gen |-> proc[p].gen]
<1>1. UNCHANGED <<material, clients, proc, managed, served, patch, patched>>
      /\ calls[c].pc \in Waiting
  BY DEF Inspect, Waiting
<1>2. CASE StopFailed(c)
  BY <1>1, <1>2, StopFailedKeeps
<1>3. CASE IsOpenVPN(p) /\ rows' = Marked(c, o) /\ Go(c, "check")
  <2>1. p \in Pids /\ proc[p].gen \in 0..MaxGen /\ proc[p].gen \in Nat
    BY <1>3, Counted, Bounds DEF IsOpenVPN, Inv
  <2>2. o \in [pid : {NoPid} \cup Pids, gen : 0..MaxGen] /\ o.pid = p /\ o.gen <= proc[o.pid].gen
    BY <2>1
  <2>3. "check" \in {"check", "enable"} /\ "check" # "enable"
    OBVIOUS
  <2> HIDE DEF o
  <2> QED
    BY <1>1, <1>3, <2>1, <2>2, <2>3, MarkStep
<1> QED
  BY <1>2, <1>3 DEF Inspect

(* The last look before the first signal.                                    *)
LEMMA CheckKeeps ==
    ASSUME Inv, NEW c \in Calls, Check(c)
    PROVE  Inv'
<1>1. UNCHANGED <<material, clients, proc, managed, served, patch, patched>>
      /\ calls[c].pc \in Waiting \ {"inspect"}
  BY DEF Check, Waiting
<1>2. CASE StopFailed(c)
  BY <1>1, <1>2, StopFailedKeeps
<1>3. CASE /\ IsOpenVPN(calls[c].req.pid) /\ UNCHANGED rows
           /\ calls' = [calls EXCEPT ![c].pc = "term", ![c].gen = proc[calls[c].req.pid].gen]
  <2>1. "term" \in {"term", "kill"}
    OBVIOUS
  <2> QED
    BY <1>1, <1>3, <2>1, LookKeeps
<1> QED
  BY <1>2, <1>3 DEF Check

(* SIGTERM.                                                                  *)
LEMMA TermKeeps ==
    ASSUME Inv, NEW c \in Calls, Term(c)
    PROVE  Inv'
<1>1. UNCHANGED <<material, clients, managed, served, patch, patched>>
      /\ calls[c].pc \in Waiting \ {"inspect"}
  BY DEF Term, Waiting
<1>2. CASE ~Alive(calls[c].req.pid) /\ Stopped(c) /\ UNCHANGED proc
  BY <1>1, <1>2, StoppedKeeps
<1>3. CASE /\ Alive(calls[c].req.pid) /\ Go(c, "poll") /\ UNCHANGED rows
           /\ Dies(calls[c].req.pid) \/ UNCHANGED proc
  <2>1. "poll" \in {"poll", "reap"}
    OBVIOUS
  <2> QED
    BY <1>1, <1>3, <2>1, SignalKeeps
<1> QED
  BY <1>2, <1>3 DEF Term

(* The process is looked at again until it is gone or to be killed.          *)
LEMMA PollKeeps ==
    ASSUME Inv, NEW c \in Calls, Poll(c)
    PROVE  Inv'
<1> DEFINE p == calls[c].req.pid
<1>1. UNCHANGED <<material, clients, proc, managed, served, patch, patched>>
      /\ calls[c].pc \in Waiting \ {"inspect"}
  BY DEF Poll, Waiting
<1>2. CASE Gone(p) /\ Stopped(c)
  BY <1>1, <1>2, StoppedKeeps DEF Gone
<1>3. CASE StopFailed(c)
  BY <1>1, <1>3, StopFailedKeeps
<1>4. CASE /\ ~Gone(p) /\ ~GivesUp(p) /\ UNCHANGED rows
           /\ calls' = [calls EXCEPT ![c].pc = "kill", ![c].gen = proc[p].gen]
  <2>1. IsOpenVPN(p) /\ "kill" \in {"term", "kill"}
    BY <1>4 DEF Gone, GivesUp
  <2> QED
    BY <1>1, <1>4, <2>1, LookKeeps
<1> QED
  BY <1>2, <1>3, <1>4 DEF Poll

(* SIGKILL, and what comes of it.                                            *)
LEMMA KillKeeps ==
    ASSUME Inv, NEW c \in Calls, Kill(c) \/ Reap(c)
    PROVE  Inv'
<1> DEFINE p == calls[c].req.pid
<1>1. UNCHANGED <<material, clients, managed, served, patch, patched>>
      /\ calls[c].pc \in Waiting \ {"inspect"}
  BY DEF Kill, Reap, Waiting
<1>2. CASE Gone(p) /\ Stopped(c) /\ UNCHANGED proc
  BY <1>1, <1>2, StoppedKeeps DEF Gone
<1>3. CASE StopFailed(c) /\ UNCHANGED proc
  BY <1>1, <1>3, StopFailedKeeps
<1>4. CASE ~Gone(p) /\ Go(c, "reap") /\ UNCHANGED rows /\ (Dies(p) \/ UNCHANGED proc)
  <2>1. Alive(p) /\ "reap" \in {"poll", "reap"}
    BY <1>4 DEF Gone
  <2> QED
    BY <1>1, <1>4, <2>1, SignalKeeps
<1> QED
  BY <1>2, <1>3, <1>4 DEF Kill, Reap

(* A row that is enabled, whoever does it.                                   *)
LEMMA RowEnabled ==
    ASSUME Inv, NEW n \in Rows, NEW u \in BOOLEAN,
           rows' = [rows EXCEPT ![n].enabled = TRUE, ![n].up = u]
    PROVE  /\ rows' \in [Names -> {NoRow} \cup Row] /\ Rows' = Rows
           /\ \A m \in Rows : /\ rows'[m].tag = rows[m].tag /\ rows'[m].port = rows[m].port
                              /\ rows'[m].net = rows[m].net /\ rows'[m].over = rows[m].over
                              /\ m # n => rows'[m] = rows[m]
           /\ rows'[n].enabled = TRUE /\ rows'[n].up = u
<1>1. n \in Names /\ rows[n] \in Row
  BY RowsAreRows DEF Inv
<1> DEFINE r == [rows[n] EXCEPT !.enabled = TRUE, !.up = u]
<1>2. r \in Row /\ r.tag = rows[n].tag /\ r.port = rows[n].port /\ r.net = rows[n].net
      /\ r.enabled = TRUE /\ r.up = u /\ r.over = rows[n].over
  BY <1>1 DEF Row
<1>3. r # NoRow
  BY <1>2, ProvisionAssumption
<1>4. rows' = [rows EXCEPT ![n] = r]
  BY <1>1 DEF Inv, TypeOK
<1> HIDE DEF r
<1>5. rows'[n] = r /\ \A m \in Names \ {n} : rows'[m] = rows[m]
  BY <1>1, <1>4 DEF Inv, TypeOK
<1>6. rows' \in [Names -> {NoRow} \cup Row]
  BY <1>2, <1>4 DEF Inv, TypeOK
<1>7. Rows' = Rows
  BY <1>1, <1>3, <1>5 DEF Rows
<1>8. \A m \in Rows : m \in Names
  BY DEF Rows
<1>9. \A m \in Rows : m # n => rows'[m] = rows[m]
  BY <1>5, <1>8
<1>10. \A m \in Rows : /\ rows'[m].tag = rows[m].tag /\ rows'[m].port = rows[m].port
                       /\ rows'[m].net = rows[m].net /\ rows'[m].over = rows[m].over
  BY <1>2, <1>5, <1>9
<1> QED
  BY <1>2, <1>5, <1>6, <1>7, <1>9, <1>10

(* The instance is enabled at the end of the take-over.                      *)
LEMMA EnableKeeps ==
    ASSUME Inv, NEW c \in Calls, Enable(c)
    PROVE  Inv'
<1> DEFINE n == Over(c)
           u == rows[n].up \/ ~Own(c)
<1>1. UNCHANGED <<material, clients, proc, managed, served, patch, patched>>
      /\ calls[c].pc = "enable"
      /\ Go(c, "final")
  BY DEF Enable
<1>2. calls[c].pc \in Late /\ OfInstance(c) /\ "final" \in Late \ {"insert"}
      /\ "final" \notin Waiting
  BY <1>1 DEF Late, Waiting, OfInstance
<1>3. ProcMoves /\ served <= served' /\ Used' = Used
  BY <1>1, SameProcsMove, Counted DEF Inv, Used
<1>4. ~TakesOver([pc |-> "final", req |-> calls[c].req])
  BY <1>2 DEF TakesOver
<1>5. CASE n \notin Rows
  <2>1. rows' = rows
    BY <1>5 DEF Enable
  <2>2. TypeOK' /\ RunsMade'
    BY <1>1, <2>1, SameTypes DEF Inv, TypeOK
  <2>3. "final" # "enable" /\ "final" \notin {"term", "kill"}
    OBVIOUS
  <2> QED
    BY <1>1, <1>2, <1>3, <1>4, <2>1, <2>2, <2>3, QuietGo
<1>6. CASE n \in Rows
  <2>1. rows[n] \in Row /\ rows[n].up \in BOOLEAN
    BY <1>6, RowsAreRows, RowFields DEF Inv
  <2>2. u \in BOOLEAN /\ rows' = [rows EXCEPT ![n].enabled = TRUE, ![n].up = u]
    BY <1>6, <2>1 DEF Enable
  <2> HIDE DEF n, u
  <2>3. /\ rows' \in [Names -> {NoRow} \cup Row] /\ Rows' = Rows
        /\ \A m \in Rows : /\ rows'[m].tag = rows[m].tag /\ rows'[m].port = rows[m].port
                           /\ rows'[m].net = rows[m].net /\ rows'[m].over = rows[m].over
                           /\ m # n => rows'[m] = rows[m]
        /\ rows'[n].enabled = TRUE /\ rows'[n].up = u
    BY <1>6, <2>2, RowEnabled
  <2>4. TypeOK' /\ RunsMade'
    BY <1>1, <2>3 DEF Inv, TypeOK, RunsMade
  <2>5. NoneMade /\ SamePlaces
    BY <2>3 DEF NoneMade, SamePlaces
  <2>6. /\ CallsTyped' /\ (\A d \in Calls \ {c} : calls'[d] = calls[d] /\ StaysPut(d))
        /\ \A d \in Calls : Advances(d)
        /\ calls'[c].pc = "final" /\ FitOK(c)'
    BY <1>1, <1>2, GoIsTyped DEF Inv
  <2>7. TagsOK'
    BY <1>3, <2>4, <2>5, <2>6, TagsStay DEF Inv
  <2>8. u \/ (Own(c) /\ ~rows[n].up)
    BY DEF u
  <2>9. RowsOK'
    <3>1. ASSUME NEW m \in Rows, m # n
          PROVE  RowOK(m)'
      <4>1. Runs(m)' => Runs(m)
        BY <1>1, <2>3, <3>1 DEF Runs
      <4> QED
        BY <1>3, <2>3, <2>4, <3>1, <4>1, RowStays DEF Inv, RowsOK
    <3>2. ASSUME NEW m \in {n}
          PROVE  RowOK(m)'
      <4>1. rows[m].tag <= served
            /\ (rows[m].over.pid \in Pids => rows[m].over.gen <= proc[rows[m].over.pid].gen)
        BY <1>6 DEF Inv, RowsOK, RowOK
      <4>2. ~u => QuitIn(proc, rows[m].over)
        <5>1. OwnRowOK(c)
          BY DEF Inv, OwnRowsOK
        <5> QED
          BY <1>1, <1>2, <2>8, <5>1 DEF OwnRowOK, Quit, n
      <4> QED
        BY <1>1, <1>6, <2>3, <4>1, <4>2 DEF RowOK, Quit
    <3> QED
      BY <1>6, <2>3, <3>1, <3>2 DEF RowsOK
  <2>10. ASSUME NEW d \in Calls \ {c}, OfInstance(d)
         PROVE  KeptFor(calls[d].tag)
    <3>1. calls[d].tag # calls[c].tag
      BY <1>2, <2>10 DEF Inv, TagsOK
    <3>2. Own(c) => rows[n].tag = calls[c].tag
      BY DEF Own, n
    <3>3. rows[n].tag = calls[d].tag => u
      BY <2>8, <3>1, <3>2
    <3> QED
      BY <1>1, <2>3, <3>3 DEF KeptFor, Runs
  <2>11. OwnRowOK(c)' /\ LookOK(c)'
    BY <2>6 DEF OwnRowOK, LookOK, TakesOver, Waiting
  <2> DEFINE S == {c}
  <2>12. S \in SUBSET Calls
         /\ (\A d \in Calls \ S : StaysPut(d) /\ (OfInstance(d) => KeptFor(calls[d].tag)))
         /\ \A d \in S : OwnRowOK(d)' /\ LookOK(d)' /\ FitOK(d)'
    BY <2>6, <2>10, <2>11
  <2> HIDE DEF S
  <2> QED
    BY <1>3, <2>4, <2>5, <2>6, <2>7, <2>9, <2>12, StepKeepsInv
<1> QED
  BY <1>5, <1>6

------------------------------------------------------------------------------
(* The handlers of clients                                                   *)

(* A client's address is chosen, or asked for.                               *)
LEMMA BeginClientKeeps ==
    ASSUME Inv, NEW c \in Calls, NEW cn \in CNs, NEW ip \in IPs \cup {Unset}, BeginClient(c, cn, ip)
    PROVE  Inv'
<1>1. UNCHANGED <<rows, material, clients, proc, managed, patch, patched>> /\ served' = served + 1
      /\ served < MaxCalls
  BY DEF BeginClient
<1>2. PICK a \in (IF ip = Unset THEN AllocateNextHost(Used) ELSE {ip}) :
        calls' = [calls EXCEPT ![c] =
          [pc |-> "insertClient", cn |-> cn, ip |-> a, auto |-> ip = Unset, sure |-> TRUE]]
  BY DEF BeginClient
<1> DEFINE k == [pc |-> "insertClient", cn |-> cn, ip |-> a, auto |-> ip = Unset, sure |-> TRUE]
<1>3. a \in Addresses /\ (ip = Unset => a \in (2..(PoolTop - 1)) \ Used)
  <2>1. CASE ip = Unset
    BY <2>1, AllocatedIsFree
  <2>2. CASE ip # Unset
    <3>1. IPs \subseteq 0..PoolTop
      BY ProvisionAssumption
    <3> QED
      BY <2>2, <3>1 DEF Addresses
  <2> QED
    BY <2>1, <2>2
<1>4. k \in ClientCall /\ k.pc = "insertClient" /\ k.ip = a /\ k.auto = (ip = Unset)
  BY <1>3 DEF ClientCall
<1>5. k \in Call /\ calls' = [calls EXCEPT ![c] = k]
  BY <1>2, <1>4 DEF Call
<1> HIDE DEF k
<1>6. /\ CallsTyped' /\ calls'[c] = k
      /\ \A d \in Calls \ {c} : calls'[d] = calls[d] /\ StaysPut(d) /\ Advances(d)
  BY <1>5, CallMoves DEF Inv
<1>7. TypeOK' /\ RunsMade' /\ Used' = Used
  <2>1. served' \in 0..MaxCalls
    BY <1>1, Counted, Bounds DEF Inv
  <2> QED
    BY <1>1, <2>1 DEF Inv, TypeOK, RunsMade, Used, Rows
<1>8. Advances(c) /\ OwnRowOK(c)' /\ LookOK(c)'
  BY <1>4, <1>6 DEF Advances, OfInstance, OwnRowOK, LookOK, Early, Late, Waiting
<1>9. FitOK(c)'
  BY <1>3, <1>4, <1>6, <1>7 DEF FitOK
<1>10. ProcMoves
  BY <1>1, SameProcsMove DEF Inv
<1> QED
  BY <1>1, <1>6, <1>7, <1>8, <1>9, <1>10, QuietStep

(* What others read of the clients goes stale.                               *)
LEMMA ClientsStaleStaysPut ==
    ASSUME CallsTyped
    PROVE  /\ ClientsStale \in [Calls -> Call]
           /\ \A d \in Calls :
                /\ ClientsStale[d] = calls[d] \/ ClientsStale[d] = [calls[d] EXCEPT !.sure = FALSE]
                /\ calls[d].pc # "insertClient" => ClientsStale[d] = calls[d]
                /\ ClientsStale[d].pc = calls[d].pc
                /\ ClientsStale[d].pc = "insertClient" => ClientsStale[d].sure = FALSE
<1>1. ASSUME NEW d \in Calls, calls[d].pc = "insertClient"
      PROVE  /\ ClientsStale[d] = [calls[d] EXCEPT !.sure = FALSE]
             /\ ClientsStale[d] \in ClientCall /\ ClientsStale[d].pc = "insertClient"
             /\ ClientsStale[d].sure = FALSE
  <2>1. ClientsStale[d] = [calls[d] EXCEPT !.sure = FALSE]
    BY <1>1 DEF ClientsStale
  <2>2. calls[d] \in ClientCall
    BY <1>1, ClientCallFields
  <2> QED
    BY <1>1, <2>1, <2>2 DEF ClientCall
<1>2. ASSUME NEW d \in Calls, calls[d].pc # "insertClient"
      PROVE  ClientsStale[d] = calls[d] /\ ClientsStale[d] \in Call
  BY <1>2 DEF ClientsStale, CallsTyped
<1>3. \A d \in Calls : ClientsStale[d] \in Call
  BY <1>1, <1>2 DEF Call
<1>4. ClientsStale \in [Calls -> Call]
  BY <1>3 DEF ClientsStale
<1> QED
  BY <1>1, <1>2, <1>4

(* A step that writes clients and no row, and tells those that read them.    *)
LEMMA ClientStep ==
    ASSUME Inv, CallsTyped', UNCHANGED <<rows, material, proc, managed, served, patch>>,
           clients' \in [CNs -> {NoRow} \cup [ip : Addresses]], patched' \in 0..MaxPatches,
           NEW S \in SUBSET Calls, \A d \in Calls \ S : StaysPut(d), \A d \in Calls : Advances(d),
           Used' \subseteq Used
             \/ \A d \in Calls \ S : calls'[d].pc = "insertClient" => calls'[d].sure = FALSE,
           \A c \in S : OwnRowOK(c)' /\ LookOK(c)' /\ FitOK(c)'
    PROVE  Inv'
<1>1. TypeOK' /\ RunsMade'
  BY DEF Inv, TypeOK, RunsMade, Rows
<1>2. ProcMoves /\ served <= served'
  BY SameProcsMove, Counted DEF Inv
<1>3. RowsOK' /\ NoneMade /\ SamePlaces /\ \A t : KeptFor(t)
  BY <1>1, <1>2, SameRowsStay
<1>4. TagsOK'
  BY <1>1, <1>2, <1>3, TagsStay DEF Inv
<1>5. \A d \in Calls \ S : StaysPut(d) /\ (OfInstance(d) => KeptFor(calls[d].tag))
  BY <1>3
<1> QED
  BY <1>1, <1>2, <1>3, <1>4, <1>5, StepKeepsInv

(* A client is inserted under a name of its own.                             *)
LEMMA InsertClientKeeps ==
    ASSUME Inv, NEW c \in Calls, InsertClient(c)
    PROVE  Inv'
<1>1. UNCHANGED <<rows, material, proc, managed, served, patch, patched>>
      /\ calls[c].pc = "insertClient"
  BY DEF InsertClient
<1>2. calls[c] \in ClientCall
  BY <1>1, ClientCallFields DEF Inv
<1>3. CASE End(c) /\ UNCHANGED clients
  <2>1. TypeOK' /\ RunsMade' /\ Used' = Used
    BY <1>1, <1>3, SameTypes DEF Inv, TypeOK
  <2> QED
    BY <1>1, <1>3, <2>1, QuietEnd
<1>4. CASE /\ clients' = [clients EXCEPT ![calls[c].cn] = [ip |-> calls[c].ip]]
           /\ calls' = [ClientsStale EXCEPT ![c].pc = "issueClient"]
  <2>1. clients' \in [CNs -> {NoRow} \cup [ip : Addresses]]
    BY <1>2, <1>4 DEF Inv, TypeOK, ClientCall
  <2>2. patched' \in 0..MaxPatches
    BY <1>1 DEF Inv, TypeOK
  <2> DEFINE k == [ClientsStale[c] EXCEPT !.pc = "issueClient"]
  <2>3. ClientsStale[c] \in ClientCall
    BY <1>1, <1>2 DEF ClientsStale, ClientCall
  <2>4. k \in ClientCall /\ k.pc = "issueClient"
    BY <2>3 DEF ClientCall
  <2>5. k \in Call /\ ClientsStale \in [Calls -> Call]
    BY <2>4, ClientsStaleStaysPut DEF Call, Inv
  <2>6. calls' = [ClientsStale EXCEPT ![c] = k]
    BY <1>4, <2>5
  <2> HIDE DEF k
  <2>7. CallsTyped' /\ calls'[c] = k /\ \A d \in Calls \ {c} : calls'[d] = ClientsStale[d]
    BY <2>5, <2>6 DEF CallsTyped
  <2>8. \A d \in Calls \ {c} : StaysPut(d)
          /\ (calls'[d].pc = "insertClient" => calls'[d].sure = FALSE)
    BY <2>7, ClientsStaleStaysPut DEF Inv, StaysPut
  <2>9. Advances(c) /\ OwnRowOK(c)' /\ LookOK(c)' /\ FitOK(c)'
    BY <2>4, <2>7 DEF Advances, OfInstance, OwnRowOK, LookOK, FitOK, Early, Late, Waiting
  <2>10. \A d \in Calls : Advances(d)
    BY <2>8, <2>9, PutAdvances DEF Inv
  <2> DEFINE S == {c}
  <2>11. S \in SUBSET Calls
         /\ (\A d \in Calls \ S : StaysPut(d)
               /\ (calls'[d].pc = "insertClient" => calls'[d].sure = FALSE))
         /\ \A d \in S : OwnRowOK(d)' /\ LookOK(d)' /\ FitOK(d)'
    BY <2>8, <2>9
  <2> HIDE DEF S
  <2> QED
    BY <1>1, <2>1, <2>2, <2>7, <2>10, <2>11, ClientStep
<1> QED
  BY <1>3, <1>4 DEF InsertClient

(* The certificate is issued, or the client is deleted again.                *)
LEMMA IssueClientKeeps ==
    ASSUME Inv, NEW c \in Calls, IssueClient(c)
    PROVE  Inv'
<1>1. UNCHANGED <<rows, material, proc, managed, served, patch, patched>> /\ End(c)
      /\ clients' \in {clients, [clients EXCEPT ![calls[c].cn] = NoRow]}
  BY DEF IssueClient
<1>2. /\ CallsTyped' /\ (\A d \in Calls \ {c} : calls'[d] = calls[d] /\ StaysPut(d))
      /\ \A d \in Calls : Advances(d)
      /\ OwnRowOK(c)' /\ LookOK(c)' /\ FitOK(c)'
  BY <1>1, EndIsClean DEF Inv
<1>3. clients' \in [CNs -> {NoRow} \cup [ip : Addresses]] /\ Used' \subseteq Used
  <2>1. clients \in [CNs -> {NoRow} \cup [ip : Addresses]]
    BY DEF Inv, TypeOK
  <2>2. clients' \in [CNs -> {NoRow} \cup [ip : Addresses]]
        /\ \A x \in CNs : clients'[x] # NoRow => clients'[x] = clients[x]
    BY <1>1, <2>1
  <2> QED
    BY <2>2 DEF Used
<1>4. patched' \in 0..MaxPatches
  BY <1>1 DEF Inv, TypeOK
<1> DEFINE S == {c}
<1>5. S \in SUBSET Calls /\ (\A d \in Calls \ S : StaysPut(d))
      /\ \A d \in S : OwnRowOK(d)' /\ LookOK(d)' /\ FitOK(d)'
  BY <1>2
<1> HIDE DEF S
<1> QED
  BY <1>1, <1>2, <1>3, <1>4, <1>5, ClientStep

(* A client is patched or deleted.                                           *)
LEMMA AdministerClientKeeps ==
    ASSUME Inv, NEW cn \in CNs,
           DeleteClient(cn) \/ \E ip \in IPs : PatchClient(cn, ip)
    PROVE  Inv'
<1>1. UNCHANGED <<rows, material, proc, managed, served, patch>> /\ patched < MaxPatches
      /\ patched' = patched + 1
  BY DEF DeleteClient, PatchClient
<1>2. patched' \in 0..MaxPatches
  BY <1>1, Counted, Bounds DEF Inv
<1>3. clients \in [CNs -> {NoRow} \cup [ip : Addresses]]
  BY DEF Inv, TypeOK
<1>4. CASE DeleteClient(cn)
  <2>1. calls' = calls /\ CallsTyped' /\ \A d \in Calls \ {} : StaysPut(d)
    BY <1>4 DEF DeleteClient, Inv, CallsTyped, StaysPut
  <2>2. \A d \in Calls : Advances(d)
    BY <2>1, PutAdvances DEF Inv
  <2>3. clients' \in [CNs -> {NoRow} \cup [ip : Addresses]]
        /\ \A x \in CNs : clients'[x] # NoRow => clients'[x] = clients[x]
    BY <1>3, <1>4 DEF DeleteClient
  <2>4. Used' \subseteq Used
    BY <2>3 DEF Used
  <2>5. {} \in SUBSET Calls
    OBVIOUS
  <2> QED
    BY <1>1, <1>2, <2>1, <2>2, <2>3, <2>4, <2>5, ClientStep
<1>5. ASSUME NEW ip \in IPs, PatchClient(cn, ip)
      PROVE  Inv'
  <2>1. calls' = ClientsStale /\ clients' = [clients EXCEPT ![cn].ip = ip] /\ clients[cn] # NoRow
    BY <1>5 DEF PatchClient
  <2>2. ip \in Addresses
    <3>1. IPs \subseteq 0..PoolTop
      BY ProvisionAssumption
    <3> QED
      BY <3>1 DEF Addresses
  <2>3. clients' \in [CNs -> {NoRow} \cup [ip : Addresses]]
    BY <1>3, <2>1, <2>2
  <2>4. CallsTyped' /\ \A d \in Calls \ {} : StaysPut(d)
          /\ (calls'[d].pc = "insertClient" => calls'[d].sure = FALSE)
    BY <2>1, ClientsStaleStaysPut DEF Inv, StaysPut, CallsTyped
  <2>5. \A d \in Calls : Advances(d)
    BY <2>4, PutAdvances DEF Inv
  <2>6. {} \in SUBSET Calls
    OBVIOUS
  <2> QED
    BY <1>1, <1>2, <2>3, <2>4, <2>5, <2>6, ClientStep
<1> QED
  BY <1>4, <1>5

------------------------------------------------------------------------------
(* Administrators and the other processes of the host                        *)

(* A step of no handler, that makes no row.                                  *)
LEMMA OutsideStep ==
    ASSUME Inv, TypeOK', CallsTyped', RunsMade', RowsOK', NoneMade, ProcMoves,
           UNCHANGED <<clients, served>>,
           \A d \in Calls : StaysPut(d) /\ (OfInstance(d) => KeptFor(calls[d].tag)),
           SamePlaces \/ \A d \in Calls : calls'[d].pc = "insert" => calls'[d].sure = FALSE
    PROVE  Inv'
<1>1. \A d \in Calls : Advances(d)
  BY PutAdvances DEF Inv
<1>2. served <= served' /\ Used' = Used
  BY Counted DEF Inv, Used
<1>3. TagsOK'
  BY <1>1, <1>2, TagsStay DEF Inv
<1>4. {} \in SUBSET Calls /\ Calls \ {} = Calls
  OBVIOUS
<1> QED
  BY <1>2, <1>3, <1>4, StepKeepsInv

(* A patch reads the row it is about.                                        *)
LEMMA PatchBeginKeeps ==
    ASSUME Inv, NEW n \in Names, NEW port \in Ports, NEW net \in Networks, NEW enabled \in BOOLEAN,
           PatchBegin(n, port, net, enabled)
    PROVE  Inv'
<1>1. UNCHANGED <<rows, material, clients, calls, proc, managed, served>> /\ n \in Rows
      /\ patched' = patched + 1 /\ patched < MaxPatches
  BY DEF PatchBegin
<1> DEFINE s == [Columns(n) EXCEPT !.port = port, !.enabled = enabled,
                                   !.net = IF @ = NoNet THEN @ ELSE net]
<1>2. s \in Seen
  <2>1. Columns(n) \in Seen
    BY <1>1, ColumnsAreSeen DEF Inv
  <2>2. net \in Nets
    BY DEF Nets
  <2> QED
    BY <2>1, <2>2 DEF Seen
<1>3. patch' = [name |-> n, seen |-> s]
  BY DEF PatchBegin
<1> HIDE DEF s
<1>4. patched' \in 0..MaxPatches
  BY <1>1, Counted, Bounds DEF Inv
<1>5. TypeOK' /\ RunsMade'
  BY <1>1, <1>2, <1>3, <1>4 DEF Inv, TypeOK, RunsMade, Rows
<1>6. ProcMoves /\ served <= served'
  BY <1>1, SameProcsMove, Counted DEF Inv
<1>7. RowsOK' /\ NoneMade /\ SamePlaces /\ \A t : KeptFor(t)
  BY <1>1, <1>5, <1>6, SameRowsStay
<1>8. CallsTyped' /\ \A d \in Calls : StaysPut(d)
  BY <1>1 DEF Inv, CallsTyped, StaysPut
<1> QED
  BY <1>1, <1>5, <1>6, <1>7, <1>8, OutsideStep

(* It writes what it read, changed, to the row that has the name now.        *)
LEMMA PatchWriteKeeps ==
    ASSUME Inv, PatchWrite
    PROVE  Inv'
<1> DEFINE n == patch.name
           s == patch.seen
<1>1. UNCHANGED <<material, clients, proc, served, patched>> /\ patch' = NoRow /\ patch # NoRow
  BY DEF PatchWrite
<1>2. n \in Names /\ s \in Seen
  BY <1>1 DEF Inv, TypeOK
<1>3. ProcMoves /\ served <= served'
  BY <1>1, SameProcsMove, Counted DEF Inv
<1>4. CASE n \notin Rows
  <2>1. UNCHANGED <<rows, calls, managed>>
    BY <1>4 DEF PatchWrite
  <2>2. TypeOK' /\ RunsMade'
    BY <1>1, <2>1 DEF Inv, TypeOK, RunsMade, Rows
  <2>3. RowsOK' /\ NoneMade /\ SamePlaces /\ \A t : KeptFor(t)
    BY <1>3, <2>1, <2>2, SameRowsStay
  <2>4. CallsTyped' /\ \A d \in Calls : StaysPut(d)
    BY <2>1 DEF Inv, CallsTyped, StaysPut
  <2> QED
    BY <1>1, <1>3, <2>2, <2>3, <2>4, OutsideStep
<1>5. CASE n \in Rows
  <2>1. /\ rows' = [rows EXCEPT ![n] = Written(@, s)] /\ managed' = Enabled'
        /\ calls' = IF Moved(rows[n], s) THEN Stale ELSE calls
    BY <1>5 DEF PatchWrite
  <2> HIDE DEF n, s
  <2>2. /\ rows' \in [Names -> {NoRow} \cup Row] /\ Rows' = Rows
        /\ managed' \subseteq Rows /\ managed' \subseteq Names
        /\ \A m \in Rows : /\ rows'[m].tag = rows[m].tag /\ rows'[m].over = rows[m].over
                           /\ Runs(m)' /\ ~rows'[m].up => Runs(m) /\ ~rows[m].up
        /\ ~Moved(rows[n], s) => SamePlaces
        /\ NoneMade /\ \A t : KeptFor(t)
    BY <1>2, <1>5, <2>1, RowWritten
  <2>3. TypeOK' /\ RunsMade'
    BY <1>1, <2>2 DEF Inv, TypeOK, RunsMade
  <2>4. RowsOK'
    BY <1>3, <2>2, <2>3, RowStays DEF Inv, RowsOK
  <2>5. /\ CallsTyped' /\ \A d \in Calls : StaysPut(d)
        /\ SamePlaces \/ \A d \in Calls : calls'[d].pc = "insert" => calls'[d].sure = FALSE
    BY <2>1, <2>2, StaleStaysPut DEF Inv, StaysPut, CallsTyped
  <2> QED
    BY <1>1, <1>3, <2>2, <2>3, <2>4, <2>5, OutsideStep
<1> QED
  BY <1>4, <1>5

(* An administrator brings an instance up.                                   *)
LEMMA UpKeeps ==
    ASSUME Inv, NEW n \in Names, Up(n)
    PROVE  Inv'
<1>1. UNCHANGED <<material, clients, calls, proc, served, patch>> /\ patched' = patched + 1
      /\ patched < MaxPatches /\ n \in Rows /\ managed' = Enabled \cup {n}
      /\ rows' = [rows EXCEPT ![n].enabled = TRUE, ![n].up = TRUE]
  BY DEF Up
<1>2. TRUE \in BOOLEAN
  OBVIOUS
<1>3. /\ rows' \in [Names -> {NoRow} \cup Row] /\ Rows' = Rows
      /\ \A m \in Rows : /\ rows'[m].tag = rows[m].tag /\ rows'[m].port = rows[m].port
                         /\ rows'[m].net = rows[m].net /\ rows'[m].over = rows[m].over
                         /\ m # n => rows'[m] = rows[m]
      /\ rows'[n].enabled = TRUE /\ rows'[n].up = TRUE
  BY <1>1, <1>2, RowEnabled
<1>4. /\ patched' \in 0..MaxPatches /\ Enabled \cup {n} \subseteq Names
      /\ Enabled \cup {n} \subseteq Rows
      /\ \A m \in Rows : Runs(m)' => Runs(m) \/ m = n
  BY <1>1, <1>3, Counted, Bounds DEF Inv, Enabled, Rows, Runs
<1>5. TypeOK' /\ RunsMade'
  BY <1>1, <1>3, <1>4 DEF Inv, TypeOK, RunsMade
<1>6. ProcMoves /\ served <= served'
  BY <1>1, SameProcsMove, Counted DEF Inv
<1>7. RowsOK'
  BY <1>3, <1>4, <1>5, <1>6, RowStays DEF Inv, RowsOK
<1>8. NoneMade /\ SamePlaces /\ \A t : KeptFor(t)
  BY <1>3, <1>4 DEF NoneMade, SamePlaces, KeptFor
<1>9. CallsTyped' /\ \A d \in Calls : StaysPut(d)
  BY <1>1 DEF Inv, CallsTyped, StaysPut
<1> QED
  BY <1>1, <1>5, <1>6, <1>7, <1>8, <1>9, OutsideStep

(* An administrator deletes an instance.                                     *)
LEMMA DeleteInstanceKeeps ==
    ASSUME Inv, NEW n \in Names, DeleteInstance(n)
    PROVE  Inv'
<1>1. UNCHANGED <<material, clients, proc, served, patch>> /\ patched' = patched + 1
      /\ patched < MaxPatches /\ managed' = managed \ {n} /\ calls' = Stale
      /\ rows' = [rows EXCEPT ![n] = NoRow]
  BY DEF DeleteInstance
<1>2. rows' \in [Names -> {NoRow} \cup Row] /\ Rows' = Rows \ {n}
      /\ \A m \in Rows' : rows'[m] = rows[m]
  BY <1>1 DEF Inv, TypeOK, Rows
<1>3. patched' \in 0..MaxPatches
  BY <1>1, Counted, Bounds DEF Inv
<1>4. \A m \in Rows' : Runs(m)' => Runs(m)
  BY <1>1, <1>2 DEF Runs
<1>5. TypeOK' /\ RunsMade'
  BY <1>1, <1>2, <1>3, <1>4 DEF Inv, TypeOK, RunsMade
<1>6. ProcMoves /\ served <= served'
  BY <1>1, SameProcsMove, Counted DEF Inv
<1>7. RowsOK'
  BY <1>2, <1>4, <1>5, <1>6, RowStays DEF Inv, RowsOK
<1>8. NoneMade /\ \A t : KeptFor(t)
  BY <1>2, <1>4 DEF NoneMade, KeptFor
<1>9. CallsTyped' /\ \A d \in Calls : StaysPut(d)
         /\ (calls'[d].pc = "insert" => calls'[d].sure = FALSE)
  BY <1>1, StaleStaysPut DEF Inv, StaysPut, CallsTyped
<1> QED
  BY <1>1, <1>5, <1>6, <1>7, <1>8, <1>9, OutsideStep

(* Foreign processes exit and begin.                                         *)
LEMMA ProcessesKeep ==
    ASSUME Inv, NEW p \in Pids,
           Exit(p) \/ \E kind \in {"openvpn", "other"} : Fork(p, kind)
    PROVE  Inv'
<1>1. UNCHANGED <<rows, material, clients, calls, managed, served, patch, patched>>
  BY DEF Exit, Fork
<1>2. ProcMoves /\ proc' \in [Pids -> [kind : {"none", "openvpn", "other"}, gen : 0..MaxGen]]
  <2>1. CASE Exit(p)
    BY <2>1, DeathMoves DEF Exit, Inv
  <2>2. ASSUME NEW kind \in {"openvpn", "other"}, Fork(p, kind)
        PROVE  ProcMoves /\ proc' \in [Pids -> [kind : {"none", "openvpn", "other"}, gen : 0..MaxGen]]
    <3>1. proc' = [proc EXCEPT ![p] = [kind |-> kind, gen |-> proc[p].gen + 1]]
          /\ proc[p].gen < MaxGen /\ proc[p].kind = "none"
      BY <2>2 DEF Fork, Alive
    <3>2. proc \in [Pids -> [kind : {"none", "openvpn", "other"}, gen : 0..MaxGen]]
          /\ MaxGen \in Nat /\ \A q \in Pids : proc[q].gen \in Nat
      BY Bounds, Counted DEF Inv, TypeOK
    <3>3. proc[p].gen + 1 \in 0..MaxGen
      BY <3>1, <3>2
    <3>4. proc' \in [Pids -> [kind : {"none", "openvpn", "other"}, gen : 0..MaxGen]]
      BY <3>1, <3>2, <3>3
    <3>5. proc'[p].gen = proc[p].gen + 1 /\ \A q \in Pids \ {p} : proc'[q] = proc[q]
      BY <3>1, <3>2
    <3> QED
      BY <3>1, <3>2, <3>4, <3>5 DEF ProcMoves
  <2> QED
    BY <2>1, <2>2
<1>3. TypeOK' /\ RunsMade' /\ Used' = Used
  BY <1>1, <1>2, SameTypes
<1>4. served <= served'
  BY <1>1, Counted DEF Inv
<1>5. RowsOK' /\ NoneMade /\ SamePlaces /\ \A t : KeptFor(t)
  BY <1>1, <1>2, <1>3, <1>4, SameRowsStay
<1>6. CallsTyped' /\ \A d \in Calls : StaysPut(d)
  BY <1>1 DEF Inv, CallsTyped, StaysPut
<1> QED
  BY <1>1, <1>2, <1>3, <1>5, <1>6, OutsideStep

------------------------------------------------------------------------------
(* At first nothing is made, and the processes that were found are there.    *)
LEMMA InitInv == Init => Inv
<1> SUFFICES ASSUME Init
             PROVE  Inv
  OBVIOUS
<1>1. Rows = {}
  BY DEF Init, Rows
<1>2. MaxGen \in Nat /\ MaxGen >= 1 /\ MaxCalls \in Nat /\ MaxPatches \in Nat
  <2>1. MaxGen >= 1
    BY ProvisionAssumption
  <2> QED
    BY <2>1, Bounds
<1>3. TypeOK
  BY <1>2 DEF Init, TypeOK, None
<1>4. CallsTyped /\ \A c \in Calls : calls[c] = Idle /\ calls[c].pc = "idle"
  BY DEF Init, CallsTyped, Call, Idle
<1>5. RunsMade /\ RowsOK
  BY <1>1 DEF Init, RunsMade, RowsOK
<1>6. TagsOK /\ OwnRowsOK /\ LooksOK /\ FitsOK
  BY <1>4 DEF TagsOK, OfInstance, OwnRowsOK, OwnRowOK, LooksOK, LookOK, FitsOK, FitOK, Early, Late,
              Waiting
<1> QED
  BY <1>3, <1>4, <1>5, <1>6 DEF Inv

(* Every step of every handler keeps the invariant.                          *)
LEMMA HandlerKeepsInv ==
    ASSUME Inv, NEW c \in Calls, Handler(c)
    PROVE  Inv'
<1>1. ASSUME NEW req \in Requests, Begin(c, req)
      PROVE  Inv'
  BY <1>1, BeginKeeps
<1>2. CASE Materialize(c)
  BY <1>2, MaterializeKeeps
<1>3. CASE ReadContext(c)
  BY <1>3, ReadContextKeeps
<1>4. CASE Insert(c)
  BY <1>4, InsertKeeps
<1>5. CASE IssueFails(c) \/ Issue(c) \/ Wire(c)
  BY <1>5, IssueKeeps, WireKeeps
<1>6. CASE Reconcile(c) \/ Final(c)
  BY <1>6, ReconcileKeeps
<1>7. CASE Inspect(c)
  BY <1>7, InspectKeeps
<1>8. CASE Check(c)
  BY <1>8, CheckKeeps
<1>9. CASE Term(c)
  BY <1>9, TermKeeps
<1>10. CASE Poll(c)
  BY <1>10, PollKeeps
<1>11. CASE Kill(c) \/ Reap(c)
  BY <1>11, KillKeeps
<1>12. CASE Enable(c)
  BY <1>12, EnableKeeps
<1>13. ASSUME NEW cn \in CNs, NEW ip \in IPs \cup {Unset}, BeginClient(c, cn, ip)
       PROVE  Inv'
  BY <1>13, BeginClientKeeps
<1>14. CASE InsertClient(c)
  BY <1>14, InsertClientKeeps
<1>15. CASE IssueClient(c)
  BY <1>15, IssueClientKeeps
<1> QED
  BY <1>1, <1>2, <1>3, <1>4, <1>5, <1>6, <1>7, <1>8, <1>9, <1>10, <1>11, <1>12, <1>13, <1>14, <1>15
     DEF Handler

(* So does every step.                                                       *)
LEMMA NextKeepsInv == Inv /\ [Next]_vars => Inv'
<1> SUFFICES ASSUME Inv, [Next]_vars
             PROVE  Inv'
  OBVIOUS
<1>1. ASSUME NEW c \in Calls, Handler(c)
      PROVE  Inv'
  BY <1>1, HandlerKeepsInv
<1>2. CASE \/ PatchWrite
           \/ \E n \in Names, port \in Ports, net \in Networks, enabled \in BOOLEAN :
                PatchBegin(n, port, net, enabled)
  BY <1>2, PatchBeginKeeps, PatchWriteKeeps
<1>3. ASSUME NEW n \in Names, Up(n) \/ DeleteInstance(n)
      PROVE  Inv'
  BY <1>3, UpKeeps, DeleteInstanceKeeps
<1>4. ASSUME NEW cn \in CNs, DeleteClient(cn) \/ \E ip \in IPs : PatchClient(cn, ip)
      PROVE  Inv'
  BY <1>4, AdministerClientKeeps
<1>5. ASSUME NEW p \in Pids, Exit(p) \/ \E kind \in {"openvpn", "other"} : Fork(p, kind)
      PROVE  Inv'
  BY <1>5, ProcessesKeep
<1>6. CASE UNCHANGED vars
  <2>1. UNCHANGED <<rows, material, clients, calls, proc, managed, served, patch, patched>>
    BY <1>6 DEF vars
  <2>2. TypeOK' /\ RunsMade'
    BY <2>1, SameTypes DEF Inv, TypeOK
  <2>3. ProcMoves /\ served <= served'
    BY <2>1, SameProcsMove, Counted DEF Inv
  <2>4. RowsOK' /\ NoneMade /\ SamePlaces /\ \A t : KeptFor(t)
    BY <2>1, <2>2, <2>3, SameRowsStay
  <2>5. CallsTyped' /\ \A d \in Calls : StaysPut(d)
    BY <2>1 DEF Inv, CallsTyped, StaysPut
  <2> QED
    BY <2>1, <2>2, <2>3, <2>4, <2>5, OutsideStep
<1>7. CASE Next
  BY <1>1, <1>2, <1>3, <1>4, <1>5, <1>7 DEF Next
<1> QED
  BY <1>6, <1>7

(* Everything the handlers hold and write has its type.                      *)
THEOREM TypeCorrect == Spec => []TypeOK
<1>1. Inv => TypeOK
  BY DEF Inv
<1> QED
  BY InitInv, NextKeepsInv, <1>1, PTL DEF Spec

(* An adopted instance does not run beside the foreign process it takes over *)
(* unless that could not be stopped or someone else brought it up, also by   *)
(* writing back a row that was enabled when it was read: a row is enabled,   *)
(* and runs, only when the process that was marked on it is gone, whatever   *)
(* became of its pid since.                                                  *)
THEOREM AdoptedRunAlone == Spec => []NotBesideForeign
<1>1. Inv => NotBesideForeign
  <2> SUFFICES ASSUME Inv, NEW n \in managed \cap Rows, ~rows[n].up
               PROVE  ~(Alive(rows[n].over.pid) /\ proc[rows[n].over.pid].gen = rows[n].over.gen)
    BY DEF NotBesideForeign
  <2>1. Runs(n) /\ RowOK(n)
    BY DEF Inv, Runs, RowsOK
  <2>2. Quit(rows[n].over)
    BY <2>1 DEF RowOK
  <2> QED
    BY <2>2 DEF Quit, QuitIn, Alive
<1> QED
  BY InitInv, NextKeepsInv, <1>1, PTL DEF Spec

(* What the daemon chooses is free when it is inserted, if nothing was       *)
(* written since the handler read what is taken.                             *)
THEOREM ChosenIsFree == Spec => ChoicesAreFree
<1>1. Inv => \A c \in Calls :
               /\ calls[c].pc = "insert" /\ calls[c].sure => InstanceFits(calls[c].new)
               /\ calls[c].pc = "insertClient" /\ calls[c].sure /\ calls[c].auto =>
                    calls[c].ip \in (2..(PoolTop - 1)) \ Used
  BY DEF Inv, FitsOK, FitOK
<1>2. Inv => [\A c \in Calls :
         /\ calls[c].pc = "insert" /\ calls[c].sure /\ rows' # rows /\ calls'[c].pc # "insert"
              => InstanceFits(calls[c].new)
         /\ calls[c].pc = "insertClient" /\ calls[c].sure /\ calls[c].auto /\ clients' # clients
                /\ calls'[c].pc # "insertClient"
              => calls[c].ip \in (2..(PoolTop - 1)) \ Used]_vars
  BY <1>1
<1> QED
  BY InitInv, NextKeepsInv, <1>2, PTL DEF Spec, ChoicesAreFree

(* What a handler does leaves the others where they are.                     *)
LEMMA OthersStayPut ==
    ASSUME Inv, NEW d \in Calls, Handler(d), NEW c \in Calls \ {d}
    PROVE  calls'[c].pc = calls[c].pc
<1>1. calls \in [Calls -> Call]
  BY DEF Inv, CallsTyped
<1>2. ASSUME NEW k, calls' = [calls EXCEPT ![d] = k]
      PROVE  calls'[c] = calls[c]
  BY <1>1, <1>2
<1>3. CASE \/ \E req \in Requests : Begin(d, req)
           \/ Materialize(d) \/ ReadContext(d) \/ IssueFails(d) \/ Issue(d) \/ Reconcile(d) \/ Final(d)
           \/ Inspect(d) \/ Check(d) \/ Term(d) \/ Poll(d) \/ Kill(d) \/ Reap(d) \/ Enable(d)
           \/ \E cn \in CNs, ip \in IPs \cup {Unset} : BeginClient(d, cn, ip)
           \/ IssueClient(d)
  <2>1. calls'[c] = calls[c]
    BY <1>1, <1>3 DEF Begin, Materialize, ReadContext, IssueFails, Issue, Reconcile, Final, Inspect,
       Check, Term, Poll, Kill, Reap, Enable, BeginClient, IssueClient, StopFailed, Stopped, Go, End
  <2> QED
    BY <2>1
<1>4. CASE Insert(d)
  <2>1. CASE End(d)
    BY <1>1, <2>1 DEF End
  <2>2. CASE \E x : calls' = [Stale EXCEPT ![d].pc = x]
    <3>1. Stale \in [Calls -> Call] /\ Stale[c].pc = calls[c].pc
      BY StaleStaysPut DEF Inv
    <3> QED
      BY <2>2, <3>1
  <2> QED
    BY <1>4, <2>1, <2>2 DEF Insert
<1>6. CASE Wire(d)
  <2>1. Stale \in [Calls -> Call] /\ Stale[c].pc = calls[c].pc
    BY StaleStaysPut DEF Inv
  <2>2. PICK f \in {Stale, calls} :
          calls' = [f EXCEPT ![d].pc = "reconcile", ![d].seen = NoRow]
    BY <1>6 DEF Wire
  <2>3. f \in [Calls -> Call] /\ f[c].pc = calls[c].pc
    BY <1>1, <2>1
  <2> QED
    BY <2>2, <2>3
<1>5. CASE InsertClient(d)
  <2>1. CASE End(d)
    BY <1>1, <2>1 DEF End
  <2>2. CASE calls' = [ClientsStale EXCEPT ![d].pc = "issueClient"]
    <3>1. ClientsStale \in [Calls -> Call] /\ ClientsStale[c].pc = calls[c].pc
      BY ClientsStaleStaysPut DEF Inv
    <3> QED
      BY <2>2, <3>1
  <2> QED
    BY <1>5, <2>1, <2>2 DEF InsertClient
<1> QED
  BY <1>3, <1>4, <1>5, <1>6 DEF Handler

(* A signal is sent by the handler whose turn it is, to a living process.    *)
LEMMA SignalsTheLiving ==
    ASSUME Inv, Next, NEW c \in Calls, calls[c].pc \in {"term", "kill"},
           calls'[c].pc \in {"poll", "reap"}
    PROVE  Alive(calls[c].req.pid)
<1>1. ASSUME NEW d \in Calls \ {c}, Handler(d)
      PROVE  FALSE
  BY <1>1, OthersStayPut
<1>2. CASE Handler(c)
  <2>1. CASE Term(c) \/ Kill(c)
    <3>1. CASE Alive(calls[c].req.pid)
      BY <3>1
    <3>2. CASE Go(c, "enable")
      <4>1. calls'[c].pc = "enable"
        <5>1. calls[c].pc \in Late /\ "enable" \in Late \ {"insert"}
          BY DEF Late, Waiting
        <5> QED
          BY <3>2, <5>1, GoIsTyped DEF Inv
      <4> QED
        BY <4>1
    <3> QED
      BY <2>1, <3>1, <3>2 DEF Term, Kill, Stopped, Gone
  <2>2. calls[c] # Idle
    BY DEF Idle
  <2> QED
    BY <1>2, <2>1, <2>2 DEF Handler, Begin, Materialize, ReadContext, Insert, IssueFails, Issue,
       Reconcile, Final, Inspect, Check, Poll, Reap, Enable, BeginClient, InsertClient,
       IssueClient, Wire
<1>3. CASE PatchWrite \/ \E n \in Names : DeleteInstance(n)
  <2>1. calls'[c].pc = calls[c].pc
    BY <1>3, StaleStaysPut DEF PatchWrite, DeleteInstance, Inv
  <2> QED
    BY <2>1
<1>4. CASE \/ \E n \in Names, port \in Ports, net \in Networks, enabled \in BOOLEAN :
                PatchBegin(n, port, net, enabled)
           \/ \E n \in Names : Up(n)
           \/ \E cn \in CNs : DeleteClient(cn)
           \/ \E p \in Pids : Exit(p)
           \/ \E p \in Pids, kind \in {"openvpn", "other"} : Fork(p, kind)
  BY <1>4 DEF PatchBegin, Up, DeleteClient, Exit, Fork
<1>5. CASE \E cn \in CNs, ip \in IPs : PatchClient(cn, ip)
  <2>1. calls'[c].pc = calls[c].pc
    BY <1>5, ClientsStaleStaysPut DEF PatchClient, Inv
  <2> QED
    BY <2>1
<1> QED
  BY <1>1, <1>2, <1>3, <1>4, <1>5 DEF Next

(* A take-over signals openvpn and nothing else, unless the pid was given to *)
(* another process after the last look at it.                                *)
THEOREM OnlyOpenVPNIsSignalled == Spec => SignalsOpenVPN
<1>1. ASSUME Inv, [Next]_vars, NEW c \in Calls, calls[c].pc \in {"term", "kill"},
             calls'[c].pc \in {"poll", "reap"}
      PROVE  proc[calls[c].req.pid].gen # calls[c].gen \/ proc[calls[c].req.pid].kind = "openvpn"
  <2>1. Next
    BY <1>1 DEF vars
  <2>2. Alive(calls[c].req.pid)
    BY <1>1, <2>1, SignalsTheLiving
  <2>3. LookOK(c)
    BY <1>1 DEF Inv, LooksOK
  <2>4. proc[calls[c].req.pid].kind \in {"openvpn", "other"}
    BY <1>1, <2>2, Counted DEF Alive, Inv
  <2> QED
    BY <1>1, <2>3, <2>4 DEF LookOK
<1>2. Inv /\ [Next]_vars =>
        [\A c \in Calls :
           LET p == calls[c].req.pid IN
           calls[c].pc \in {"term", "kill"} /\ calls'[c].pc \in {"poll", "reap"} =>
               proc[p].gen # calls[c].gen \/ proc[p].kind = "openvpn"]_vars
  BY <1>1
<1> QED
  BY InitInv, NextKeepsInv, <1>2, PTL DEF Spec, SignalsOpenVPN

================================================================================
