------------------------------- MODULE Provision -------------------------------
(***************************************************************************)
(* How instances and clients come to be: POST of an instance, the import   *)
(* of a configuration, the adoption of a running server and the take-over  *)
(* of its process, and POST of a client.  Each handler reads what is       *)
(* taken, chooses or checks a name, a port, a network or an address, and   *)
(* inserts a row later; handlers run concurrently and only names are       *)
(* unique in the database.                                                 *)
(*                                                                         *)
(* Names and ports are numbers: the names ovpn0, ovpn1, ... are 0, 1, ...  *)
(* and the ports count from 1194 = 1; a network is its set of addresses.   *)
(* The clients are those of one server whose addresses are 0..PoolTop.     *)
(* Foreign processes come and go, and a pid is used again.                 *)
(***************************************************************************)
EXTENDS Integers, Sequences, FiniteSetsExt

CONSTANTS
    Calls,          \* the handlers that run at the same time
    Requests,       \* what the handlers of instances are asked (see Request)
    NameSpan,       \* how many names are tried (1000), the last resort follows
    NameTop,        \* bound: the greatest name
    PortSpan,       \* how many ports are tried (200)
    PortTop,        \* bound: the greatest port
    Networks,       \* the networks that are asked for
    AutoNetworks,   \* the sequence of networks that are tried
    CNs, PoolTop,   \* common names of clients; the last address of their server
    IPs,            \* the addresses that are asked for
    Pids, MaxGen,   \* pids; bound: how many processes there ever are
    MaxCalls,       \* bound: how many requests are served
    MaxPatches,     \* bound: how many patches are made
    Unset, NoRow, NoNet, NoPid

None == 0
Names == 0..NameTop
Ports == 1..PortTop
Nets == Networks \cup {AutoNetworks[i] : i \in DOMAIN AutoNetworks}

(* What a handler is asked: a create has nothing inline, only an adoption    *)
(* takes over.                                                               *)
Asked == [name : {Unset} \cup Names, port : {Unset} \cup Ports, net : {Unset, NoNet} \cup Networks,
          client : BOOLEAN, inline : BOOLEAN, takeover : BOOLEAN, pid : {NoPid} \cup Pids]
Request(name, port, net) ==
    [name |-> name, port |-> port, net |-> net, client |-> FALSE, inline |-> FALSE,
     takeover |-> FALSE, pid |-> NoPid]

Row == [port : {None} \cup Ports, net : {NoNet} \cup Nets, enabled : BOOLEAN, up : BOOLEAN,
        tag : 1..MaxCalls, keys : 0..MaxCalls, over : [pid : {NoPid} \cup Pids, gen : 0..MaxGen]]
Seen == [port : {None} \cup Ports, net : {NoNet} \cup Nets, keys : 0..MaxCalls, enabled : BOOLEAN]

(* A network is a block of consecutive addresses.                            *)
ASSUME ProvisionAssumption ==
    /\ {NameSpan, PortSpan, PortTop, NameTop, PoolTop, MaxGen, MaxCalls, MaxPatches} \subseteq Nat
    /\ PoolTop >= 3 /\ PortSpan \in Ports /\ MaxGen >= 1 /\ IPs \subseteq 0..PoolTop
    /\ AutoNetworks \in Seq(Nets) /\ Len(AutoNetworks) >= 1
    /\ \A net \in Nets : net \subseteq Int /\ \E lo, hi \in net : net = lo..hi
    /\ Pids \subseteq Nat \ {0} /\ NoPid = 0 /\ NoRow \notin Row /\ Requests \subseteq Asked

VARIABLES
    rows,       \* instances: [port, net, enabled], the request it was made for (tag) and
                \* the one whose keys it was given, the foreign process it takes over
                \* (over), and whether someone else brought it up (up): with POST .../up,
                \* or by writing back a row that was enabled
    material,   \* of which request is the key material in imported/<name>
    clients,    \* clients of the server: [ip]
    calls,      \* the handlers and how far they are; whether a port or an address was
                \* chosen (auto), and from what is there still (sure), and the row that
                \* was read to be written back (seen)
    proc,       \* foreign processes: [kind, gen]
    managed,    \* the instances that have a process of the daemon
    patch,      \* a PATCH of an instance that is under way: the row it has read, with
                \* its changes
    served, patched

vars == <<rows, material, clients, calls, proc, managed, served, patch, patched>>

Rows == {n \in Names : rows[n] # NoRow}
Idle == [pc |-> "idle"]
Nobody == [pid |-> NoPid, gen |-> 0]
Alive(p) == p \in Pids /\ proc[p].kind # "none"
IsOpenVPN(p) == p \in Pids /\ proc[p].kind = "openvpn"

(* A row that is inserted, moved or deleted makes what others read stale.    *)
Stale == [c \in Calls |->
            IF calls[c].pc = "insert" THEN [calls[c] EXCEPT !.sure = FALSE] ELSE calls[c]]
ClientsStale == [c \in Calls |->
            IF calls[c].pc = "insertClient" THEN [calls[c] EXCEPT !.sure = FALSE] ELSE calls[c]]

------------------------------------------------------------------------------
(* instance.Prepare                                                          *)

NextName(taken) ==
    LET free == (0..(NameSpan - 1)) \ taken IN
    IF free # {} THEN Min(free) ELSE NameSpan + Cardinality(taken)

(* Mutant of NextPort: one more port than there are is tried.                *)
OnePortTooMany(used) == Min((1..(PortSpan + 1)) \ used)

NextPort(used) ==
    LET free == (1..PortSpan) \ used IN IF free # {} THEN Min(free) ELSE 1

(* Mutant of Overlap: a network that contains another is not seen.           *)
OverlapOneWay(a, b) == Min(b) \in a

Overlap(a, b) == Min(b) \in a \/ Min(a) \in b

Free(net, nets) == \A u \in nets : ~Overlap(net, u)

(* The last resort is a network that was tried before: the check below       *)
(* refuses it.                                                               *)
NextServerNetwork(nets) ==
    LET free == {i \in DOMAIN AutoNetworks : Free(AutoNetworks[i], nets)} IN
    AutoNetworks[IF free # {} THEN Min(free) ELSE 1]

(* buildInstanceContext                                                      *)
Context == [names |-> Rows, ports |-> {rows[n].port : n \in Rows} \ {None},
            nets |-> {rows[n].net : n \in Rows} \ {NoNet}]

(* The rows that a request may become: one, or none when it is refused.      *)
Prepare(req, ctx) ==
    LET name == IF req.name = Unset THEN NextName(ctx.names) ELSE req.name
        port == IF req.port # Unset THEN req.port
                ELSE IF req.client THEN None ELSE NextPort(ctx.ports)
        net == IF req.client THEN req.net
               ELSE IF req.net \in {Unset, NoNet} THEN NextServerNetwork(ctx.nets) ELSE req.net
    IN {p \in {[name |-> name, port |-> port, net |-> net, auto |-> req.port = Unset]} :
          /\ p.name \in Names \ ctx.names
          /\ IF req.client THEN p.net = NoNet ELSE Free(p.net, ctx.nets)}

------------------------------------------------------------------------------
(* POST /v1/instances, /import and /adopt                                    *)

Go(c, pc) == calls' = [calls EXCEPT ![c].pc = pc]
End(c) == calls' = [calls EXCEPT ![c] = Idle]

Begin(c, req) ==
    /\ calls[c] = Idle /\ served < MaxCalls
    /\ served' = served + 1
    /\ calls' = [calls EXCEPT ![c] =
          [pc |-> IF req.inline THEN "materialize" ELSE "context", req |-> req, new |-> None,
           tag |-> served', keys |-> None, sure |-> FALSE, seen |-> NoRow, gen |-> None]]
    /\ UNCHANGED <<rows, material, clients, proc, managed, patch, patched>>

(* resolveImportName and Materialize: an import writes its inline blocks     *)
(* before it knows whether the name is free.                                 *)
Materialize(c) ==
    /\ calls[c].pc = "materialize"
    /\ LET name == IF calls[c].req.name = Unset THEN NextName(Rows) ELSE calls[c].req.name IN
       /\ name \in Names
       /\ material' = [material EXCEPT ![name] = calls[c].tag]
       /\ calls' = [calls EXCEPT ![c].pc = "context", ![c].req.name = name,
                                 ![c].keys = calls[c].tag]
    /\ UNCHANGED <<rows, clients, proc, managed, served, patch, patched>>

(* What is taken is read, the request is completed and checked.              *)
ReadContext(c) ==
    /\ calls[c].pc = "context"
    /\ LET prepared == Prepare(calls[c].req, Context) IN
       \/ /\ prepared = {}
          /\ End(c)
       \/ \E p \in prepared :
            calls' = [calls EXCEPT ![c].pc = "insert", ![c].new = p, ![c].sure = TRUE]
    /\ UNCHANGED <<rows, material, clients, proc, managed, served, patch, patched>>

(* An adopted instance is not started beside the process it takes over.      *)
StartsEnabled(req) == ~req.takeover

(* The name is unique in the database, nothing else is.                      *)
Insert(c) ==
    /\ calls[c].pc = "insert"
    /\ LET p == calls[c].new req == calls[c].req IN
       \/ /\ p.name \in Rows
          /\ End(c) /\ UNCHANGED rows
       \/ /\ p.name \notin Rows
          /\ rows' = [rows EXCEPT ![p.name] =
                [port |-> p.port, net |-> p.net, enabled |-> StartsEnabled(req),
                 tag |-> calls[c].tag, keys |-> calls[c].keys, over |-> Nobody, up |-> FALSE]]
          /\ calls' = [Stale EXCEPT ![c].pc = IF req.client \/ req.inline THEN "reconcile" ELSE "issue"]
    /\ UNCHANGED <<material, clients, proc, managed, served, patch, patched>>

(* The certificate cannot be issued: the caller is told of a failure, and    *)
(* the row stays, for a later reconcile to start.                            *)
IssueFails(c) ==
    /\ calls[c].pc = "issue"
    /\ End(c)
    /\ UNCHANGED <<rows, material, clients, proc, managed, served, patch, patched>>

(* UpdateInstance: every column of the row that was read is written to the   *)
(* row that has its name now, whether that is enabled too.                   *)
Columns(n) ==
    IF rows[n] = NoRow THEN NoRow
    ELSE [port |-> rows[n].port, net |-> rows[n].net, keys |-> rows[n].keys,
          enabled |-> rows[n].enabled]
Written(row, seen) ==
    [row EXCEPT !.port = seen.port, !.net = seen.net, !.keys = seen.keys,
                !.enabled = seen.enabled, !.up = @ \/ (seen.enabled /\ ~row.enabled)]
Moved(row, seen) == row.port # seen.port \/ row.net # seen.net

(* The certificate is issued, the row is read and a tls-crypt key generated. *)
Issue(c) ==
    /\ calls[c].pc = "issue"
    /\ calls' = [calls EXCEPT ![c].pc = "wire", ![c].seen = Columns(calls[c].new.name)]
    /\ UNCHANGED <<rows, material, clients, proc, managed, served, patch, patched>>

(* The row gets the paths of what was issued, in place of any others.        *)
Wire(c) ==
    /\ calls[c].pc = "wire"
    /\ LET n == calls[c].new.name seen == calls[c].seen IN
       \/ /\ NoRow \in {seen, rows[n]}
          /\ UNCHANGED rows
          /\ calls' = [calls EXCEPT ![c].pc = "reconcile", ![c].seen = NoRow]
       \/ /\ NoRow \notin {seen, rows[n]}
          /\ rows' = [rows EXCEPT ![n] = Written(@, [seen EXCEPT !.keys = None])]
          /\ calls' = [(IF Moved(rows[n], seen) THEN Stale ELSE calls)
                          EXCEPT ![c].pc = "reconcile", ![c].seen = NoRow]
    /\ UNCHANGED <<material, clients, proc, managed, served, patch, patched>>

(* ForceReconcile: what is enabled runs, what is not does not.               *)
Enabled == {n \in Rows : rows[n].enabled}
Reconcile(c) ==
    /\ calls[c].pc = "reconcile"
    /\ managed' = Enabled
    /\ IF calls[c].req.takeover THEN Go(c, "inspect") ELSE End(c)
    /\ UNCHANGED <<rows, material, clients, proc, served, patch, patched>>

------------------------------------------------------------------------------
(* performAdoptTakeover and adopt.StopProcess                                *)

Over(c) == calls[c].new.name
Own(c) == Over(c) \in Rows /\ rows[Over(c)].tag = calls[c].tag
Marked(c, process) == IF Own(c) THEN [rows EXCEPT ![Over(c)].over = process] ELSE rows

(* The stop has an end: the row is enabled next, whatever the end was.  A    *)
(* stop that failed leaves nothing to take over.                             *)
Stopped(c) == Go(c, "enable") /\ UNCHANGED rows
StopFailed(c) == Go(c, "enable") /\ rows' = Marked(c, Nobody)

Inspect(c) ==
    /\ calls[c].pc = "inspect"
    /\ LET pid == calls[c].req.pid IN
       \/ /\ ~IsOpenVPN(pid)
          /\ StopFailed(c)
       \/ /\ IsOpenVPN(pid)
          /\ rows' = Marked(c, [pid |-> pid, gen |-> proc[pid].gen])
          /\ Go(c, "check")
    /\ UNCHANGED <<material, clients, proc, managed, served, patch, patched>>

(* The process is looked at again, immediately before it is signalled.       *)
Check(c) ==
    /\ calls[c].pc = "check"
    /\ LET pid == calls[c].req.pid IN
       \/ /\ ~IsOpenVPN(pid)
          /\ StopFailed(c)
       \/ /\ IsOpenVPN(pid)
          /\ calls' = [calls EXCEPT ![c].pc = "term", ![c].gen = proc[pid].gen]
          /\ UNCHANGED rows
    /\ UNCHANGED <<material, clients, proc, managed, served, patch, patched>>

Dies(p) == proc' = [proc EXCEPT ![p].kind = "none"]

(* SIGTERM: the process exits, now or later, or it does not.                 *)
Term(c) ==
    /\ calls[c].pc = "term"
    /\ LET pid == calls[c].req.pid IN
       \/ ~Alive(pid) /\ Stopped(c) /\ UNCHANGED proc
       \/ Alive(pid) /\ Go(c, "poll") /\ UNCHANGED rows /\ (Dies(pid) \/ UNCHANGED proc)
    /\ UNCHANGED <<material, clients, managed, served, patch, patched>>

(* Mutant of GivesUp: the process is not looked at again before SIGKILL.     *)
NeverGivesUp(p) == FALSE

(* A pid that is no longer openvpn's is not signalled again.                 *)
GivesUp(p) == Alive(p) /\ ~IsOpenVPN(p)

(* Mutant of Gone: the signal was sent, that is enough.                      *)
GoneOnceSignalled(p) == TRUE

Gone(p) == ~Alive(p)

(* For five seconds the process is looked at, and that it is openvpn; then   *)
(* it is to be killed.                                                       *)
Poll(c) ==
    /\ calls[c].pc = "poll"
    /\ LET pid == calls[c].req.pid IN
       \/ Gone(pid) /\ Stopped(c)
       \/ GivesUp(pid) /\ StopFailed(c)
       \/ /\ ~Gone(pid) /\ ~GivesUp(pid)
          /\ calls' = [calls EXCEPT ![c].pc = "kill", ![c].gen = proc[pid].gen]
          /\ UNCHANGED rows
    /\ UNCHANGED <<material, clients, proc, managed, served, patch, patched>>

Kill(c) ==
    /\ calls[c].pc = "kill"
    /\ LET pid == calls[c].req.pid IN
       \/ Gone(pid) /\ Stopped(c) /\ UNCHANGED proc
       \/ ~Gone(pid) /\ Go(c, "reap") /\ UNCHANGED rows /\ (Dies(pid) \/ UNCHANGED proc)
    /\ UNCHANGED <<material, clients, managed, served, patch, patched>>

Reap(c) ==
    /\ calls[c].pc = "reap"
    /\ IF Gone(calls[c].req.pid) THEN Stopped(c) ELSE StopFailed(c)
    /\ UNCHANGED <<material, clients, proc, managed, served, patch, patched>>

(* SetInstanceEnabled, by name, then ForceReconcile.  If the row is no       *)
(* longer the one this request made, another take-over is cut short.         *)
Enable(c) ==
    /\ calls[c].pc = "enable"
    /\ rows' = IF Over(c) \notin Rows THEN rows
               ELSE [rows EXCEPT ![Over(c)].enabled = TRUE,
                                 ![Over(c)].up = @ \/ ~Own(c)]
    /\ Go(c, "final")
    /\ UNCHANGED <<material, clients, proc, managed, served, patch, patched>>

Final(c) ==
    /\ calls[c].pc = "final"
    /\ managed' = Enabled
    /\ End(c)
    /\ UNCHANGED <<rows, material, clients, proc, served, patch, patched>>

------------------------------------------------------------------------------
(* POST /v1/instances/{name}/clients                                         *)

Addresses == 0..PoolTop
Used == {clients[cn].ip : cn \in {x \in CNs : clients[x] # NoRow}}

(* From .2 up to the broadcast address; none when the pool is exhausted.     *)
AllocateNextHost(used) ==
    LET free == (2..(PoolTop - 1)) \ used IN IF free = {} THEN {} ELSE {Min(free)}

(* An address that is asked for has to be one of the network.                *)
BeginClient(c, cn, ip) ==
    /\ calls[c] = Idle /\ served < MaxCalls
    /\ served' = served + 1
    /\ \E a \in (IF ip = Unset THEN AllocateNextHost(Used) ELSE {ip}) :
         calls' = [calls EXCEPT ![c] =
             [pc |-> "insertClient", cn |-> cn, ip |-> a, auto |-> ip = Unset, sure |-> TRUE]]
    /\ UNCHANGED <<rows, material, clients, proc, managed, patch, patched>>

(* The common name is unique, the address is not.                            *)
InsertClient(c) ==
    /\ calls[c].pc = "insertClient"
    /\ LET cn == calls[c].cn IN
       \/ clients[cn] # NoRow /\ End(c) /\ UNCHANGED clients
       \/ /\ clients[cn] = NoRow
          /\ clients' = [clients EXCEPT ![cn] = [ip |-> calls[c].ip]]
          /\ calls' = [ClientsStale EXCEPT ![c].pc = "issueClient"]
    /\ UNCHANGED <<rows, material, proc, managed, served, patch, patched>>

(* The certificate is issued, or the client is deleted again, by its name.   *)
IssueClient(c) ==
    /\ calls[c].pc = "issueClient"
    /\ \/ UNCHANGED clients
       \/ clients' = [clients EXCEPT ![calls[c].cn] = NoRow]
    /\ End(c)
    /\ UNCHANGED <<rows, material, proc, managed, served, patch, patched>>

------------------------------------------------------------------------------
(* Administrators, and the other processes of the host                       *)

(* PATCH reads the row, then its body, and writes every column back under    *)
(* the name: to a row that was made again meanwhile, too.  Neither ports nor *)
(* networks are checked against the other rows.                              *)
PatchBegin(n, port, net, enabled) ==
    /\ n \in Rows /\ patch = NoRow /\ patched < MaxPatches
    /\ patch' = [name |-> n,
                 seen |-> [Columns(n) EXCEPT !.port = port, !.enabled = enabled,
                                             !.net = IF @ = NoNet THEN @ ELSE net]]
    /\ patched' = patched + 1
    /\ UNCHANGED <<rows, material, clients, calls, proc, managed, served>>

PatchWrite ==
    /\ patch # NoRow
    /\ LET n == patch.name IN
       \/ /\ n \notin Rows
          /\ UNCHANGED <<rows, calls, managed>>
       \/ /\ n \in Rows
          /\ rows' = [rows EXCEPT ![n] = Written(@, patch.seen)]
          /\ calls' = IF Moved(rows[n], patch.seen) THEN Stale ELSE calls
          /\ managed' = Enabled'
    /\ patch' = NoRow
    /\ UNCHANGED <<material, clients, proc, served, patched>>

(* Up: what is to be taken over is the administrator's affair now.           *)
Up(n) ==
    /\ n \in Rows /\ patched < MaxPatches
    /\ rows' = [rows EXCEPT ![n].enabled = TRUE, ![n].up = TRUE]
    /\ managed' = Enabled \cup {n}
    /\ patched' = patched + 1
    /\ UNCHANGED <<material, clients, calls, proc, served, patch>>

DeleteInstance(n) ==
    /\ n \in Rows /\ patched < MaxPatches
    /\ rows' = [rows EXCEPT ![n] = NoRow]
    /\ managed' = managed \ {n}
    /\ patched' = patched + 1
    /\ calls' = Stale
    /\ UNCHANGED <<material, clients, proc, served, patch>>

PatchClient(cn, ip) ==
    /\ clients[cn] # NoRow /\ patched < MaxPatches
    /\ clients' = [clients EXCEPT ![cn].ip = ip]
    /\ patched' = patched + 1
    /\ calls' = ClientsStale
    /\ UNCHANGED <<rows, material, proc, managed, served, patch>>

DeleteClient(cn) ==
    /\ clients[cn] # NoRow /\ patched < MaxPatches
    /\ clients' = [clients EXCEPT ![cn] = NoRow]
    /\ patched' = patched + 1
    /\ UNCHANGED <<rows, material, calls, proc, managed, served, patch>>

(* Processes come and go while a handler has one to look at: nothing else    *)
(* depends on them.                                                          *)
LookedAt(p) == \E c \in Calls : calls[c].pc \in {"inspect", "check", "term", "poll", "kill", "reap"}
                                /\ calls[c].req.pid = p

Exit(p) ==
    /\ LookedAt(p) /\ Alive(p) /\ Dies(p)
    /\ UNCHANGED <<rows, material, clients, calls, managed, served, patch, patched>>

(* A process that begins may have the pid of one that ended.                 *)
Fork(p, kind) ==
    /\ LookedAt(p) /\ ~Alive(p) /\ proc[p].gen < MaxGen
    /\ proc' = [proc EXCEPT ![p] = [kind |-> kind, gen |-> @.gen + 1]]
    /\ UNCHANGED <<rows, material, clients, calls, managed, served, patch, patched>>

------------------------------------------------------------------------------
(* Discovery found openvpn processes; they may have ended, and their pids be  *)
(* used again, by the time a handler looks at them.                          *)
Init ==
    /\ rows = [n \in Names |-> NoRow]
    /\ material = [n \in Names |-> None]
    /\ clients = [cn \in CNs |-> NoRow]
    /\ calls = [c \in Calls |-> Idle]
    /\ proc = [p \in Pids |-> [kind |-> "openvpn", gen |-> 1]]
    /\ managed = {} /\ served = 0 /\ patch = NoRow /\ patched = 0

(* Bound: the handlers of instances and those of clients share no state, so  *)
(* that one kind begins where nothing is left of the other.                  *)
ClientCalls == {c \in Calls : calls[c].pc \in {"insertClient", "issueClient"}}
NoClients == ClientCalls = {} /\ \A cn \in CNs : clients[cn] = NoRow
NoInstances == Rows = {} /\ patch = NoRow /\ \A c \in Calls \ ClientCalls : calls[c] = Idle

Handler(c) ==
    \/ NoClients /\ \E req \in Requests : Begin(c, req)
    \/ Materialize(c) \/ ReadContext(c) \/ Insert(c) \/ IssueFails(c) \/ Issue(c) \/ Wire(c)
    \/ Reconcile(c)
    \/ Inspect(c) \/ Check(c) \/ Term(c) \/ Poll(c) \/ Kill(c) \/ Reap(c)
    \/ Enable(c) \/ Final(c)
    \/ NoInstances /\ \E cn \in CNs, ip \in IPs \cup {Unset} : BeginClient(c, cn, ip)
    \/ InsertClient(c) \/ IssueClient(c)

Next ==
    \/ \E c \in Calls : Handler(c)
    \/ \E n \in Names, port \in Ports, net \in Networks, enabled \in BOOLEAN :
          PatchBegin(n, port, net, enabled)
    \/ PatchWrite
    \/ \E n \in Names : Up(n) \/ DeleteInstance(n)
    \/ \E cn \in CNs, ip \in IPs : PatchClient(cn, ip)
    \/ \E cn \in CNs : DeleteClient(cn)
    \/ \E p \in Pids : Exit(p)
    \/ \E p \in Pids, kind \in {"openvpn", "other"} : Fork(p, kind)

Spec == Init /\ [][Next]_vars

------------------------------------------------------------------------------
(* The types of the variables, within the bounds.                            *)
TypeOK ==
    /\ served \in 0..MaxCalls /\ patched \in 0..MaxPatches /\ managed \subseteq Names
    /\ rows \in [Names -> {NoRow} \cup Row]
    /\ material \in [Names -> 0..MaxCalls]
    /\ clients \in [CNs -> {NoRow} \cup [ip : Addresses]]
    /\ proc \in [Pids -> [kind : {"none", "openvpn", "other"}, gen : 0..MaxGen]]
    /\ patch \in {NoRow} \cup [name : Names, seen : Seen]

(* What the daemon chooses is free: a row that is inserted with nothing      *)
(* written since its handler read what is taken has a network that overlaps  *)
(* no other and, if its port was chosen, a port of its own; and a client's   *)
(* chosen address is a host's, not the server's, and no other client's.      *)
InstanceFits(p) ==
    \A m \in Rows :
        /\ NoNet \in {p.net, rows[m].net} \/ p.net \cap rows[m].net = {}
        /\ p.auto /\ p.port # None =>
              p.port # rows[m].port \/ 1..PortSpan \subseteq {rows[x].port : x \in Rows}
ChoicesAreFree ==
    [][\A c \in Calls :
         /\ calls[c].pc = "insert" /\ calls[c].sure /\ rows' # rows /\ calls'[c].pc # "insert"
              => InstanceFits(calls[c].new)
         /\ calls[c].pc = "insertClient" /\ calls[c].sure /\ calls[c].auto /\ clients' # clients
                /\ calls'[c].pc # "insertClient"
              => calls[c].ip \in (2..(PoolTop - 1)) \ Used]_vars

(* An adopted instance does not run beside the foreign process it takes      *)
(* over, unless that process could not be stopped or someone else brought    *)
(* the instance up, with POST .../up, a PATCH of `enabled`, or a PATCH or a  *)
(* POST that wrote back a row it had read enabled (Written): whichever       *)
(* handler's reconcile starts it.                                            *)
NotBesideForeign ==
    \A n \in managed \cap Rows :
        rows[n].over # Nobody /\ ~rows[n].up =>
            ~(Alive(rows[n].over.pid) /\ proc[rows[n].over.pid].gen = rows[n].over.gen)

(* A take-over signals openvpn and nothing else, unless the pid was given    *)
(* to another process after the last look at it.                             *)
SignalsOpenVPN ==
    [][\A c \in Calls :
         LET p == calls[c].req.pid IN
         calls[c].pc \in {"term", "kill"} /\ calls'[c].pc \in {"poll", "reap"} =>
             proc[p].gen # calls[c].gen \/ proc[p].kind = "openvpn"]_vars

(* Comment at adopt/stop.go:137: the process that is signalled again is      *)
(* still the same openvpn, not one that was given its pid.                   *)
StopsTheSame ==
    [][\A c \in Calls :
         calls[c].pc = "poll" /\ calls'[c].pc = "kill" => calls'[c].gen = calls[c].gen]_vars

(* A request that is refused leaves the keys of the others alone.            *)
KeysAreOwn == \A n \in Rows : rows[n].keys # None => material[n] = rows[n].keys

(* docs/API.md:209: the network of an instance is checked for overlap.       *)
NetworksDisjoint ==
    \A m, n \in Rows :
        m # n /\ NoNet \notin {rows[m].net, rows[n].net} => rows[m].net \cap rows[n].net = {}
================================================================================
