---------------------------------- MODULE PKI ---------------------------------
(***************************************************************************)
(* Certificates of a certification authority: files, rows and the CRL.     *)
(*                                                                         *)
(* A CA keeps three files, the next serial number, the next CRL number and *)
(* the CRL (internal/pki), and rows for itself and, by common name, for    *)
(* its leaf certificates (internal/db/pki.go).  API handlers               *)
(* (internal/api/handlers_pki.go) issue, renew and revoke; a revocation    *)
(* rebuilds the CRL from the rows and makes the server instances of the CA *)
(* check it.  POST, PATCH and issue-server-cert write the instance's row as *)
(* a whole (internal/api/handlers_instances.go).  Handlers run concurrently *)
(* and no lock covers the files or the rows: every file access and every   *)
(* statement is a step.                                                    *)
(*                                                                         *)
(* One CA and one server instance are modelled, and one kind of leaf.  The *)
(* certificate and key of a leaf are one file here.                        *)
(***************************************************************************)
EXTENDS Naturals, FiniteSets

CONSTANTS
    CNs,            \* common names of leaf certificates
    Requests,       \* API handler goroutines
    MaxCalls,       \* bound: API calls in a behaviour
    MaxFailures,    \* bound: calls that die half way, errors that are swallowed
    NoCert, NoCN

ASSUME PKIAssumption ==
    /\ MaxCalls \in Nat /\ MaxFailures \in Nat
    /\ NoCN \notin CNs

(* A row of certificates.                                                    *)
Cert == [id : Nat, serial : Nat, revoked : BOOLEAN]

ASSUME CertSentinel == NoCert \notin Cert

VARIABLES
    ca,         \* the cas row: does it exist, and has it a crl_path
    inst,       \* the instances row: does it exist, is its pki_ca_path that of
                \*   the CA, is pki_crl_path set
    cert,       \* the certificates table, by common name
    serial,     \* cas/<name>/serial
    crlNumber,  \* cas/<name>/crl_number
    crl,        \* cas/<name>/ca.crl: its number and the serials it lists
    leaf,       \* the serial in certs/<name>/<kind>/<cn>.crt; 0: no file
    call,       \* the API calls in progress
    calls, failures,
    signed,     \* history: the serials signed, each with the call that did
    barred,     \* history: a revoke has answered OK for the leaf in the file
    raced,      \* history: two calls drew a serial at the same time
    restarted,  \* history: the serial file could not be read, once
    stale,      \* history: a rebuild died or met another one, since the last
                \*   that ran alone
    loose       \* history: the CA got a CRL path or a request named the CA in
                \*   the instance, since the last attach that nobody's write of
                \*   the row could undo

files == <<serial, crlNumber, crl, leaf>>
rows == <<ca, inst, cert>>
counters == <<calls, failures>>
signing == <<signed, raced, restarted>>
history == <<signing, barred, stale, loose>>
vars == <<rows, files, call, counters, history>>

------------------------------------------------------------------------------
RebuildSteps == {"rebuild", "list", "number", "crl", "bump", "path", "attach"}
Steps ==
    {"idle", "ca", "import", "insert", "refresh", "draw", "store", "restart", "sign", "find",
     "upsert", "reread", "clear", "instance", "wire", "patch", "mark"} \cup RebuildSteps
Ops == {"issue", "renew", "wire", "create", "revoke", "rebuild", "patch", "set"}

(* n is a serial or a CRL number read from its file; row the id of the row   *)
(* the call works on, 0 for none; list the serials of ListRevoked; path      *)
(* whether the CA had a CRL path, or the instance is to use the CA; copy     *)
(* whether the instance had a CRL path; solo: no other rebuild met this one. *)
Call ==
    [pc : Steps, op : Ops,
     cn : CNs \cup {NoCN}, id : Nat, n : Nat, row : Nat, list : SUBSET Nat,
     path : BOOLEAN, copy : BOOLEAN, solo : BOOLEAN]

Idle ==
    [pc |-> "idle", op |-> "issue", cn |-> NoCN, id |-> 0, n |-> 0, row |-> 0,
     list |-> {}, path |-> FALSE, copy |-> FALSE, solo |-> FALSE]

(* A row of instances; its other columns are left out.                       *)
Row(uses, checks) == [row |-> TRUE, ca |-> uses, crl |-> checks]
NoInst == [row |-> FALSE, ca |-> FALSE, crl |-> FALSE]

Init ==
    /\ ca = [row |-> TRUE, crl |-> FALSE]
    /\ inst \in {NoInst, Row(FALSE, FALSE), Row(TRUE, FALSE)}
    /\ cert = [c \in CNs |-> NoCert]
    /\ serial = 2 /\ crlNumber = 1
    /\ crl = [number |-> 0, serials |-> {}]
    /\ leaf = [c \in CNs |-> 0]
    /\ call = [h \in Requests |-> Idle]
    /\ calls = 0 /\ failures = 0
    /\ signed = {} /\ barred = {}
    /\ raced = FALSE /\ restarted = FALSE /\ stale = FALSE /\ loose = FALSE

At(h, pc) == call[h].pc = pc
Goto(h, pc) == call' = [call EXCEPT ![h].pc = pc]
Finish(h) == call' = [call EXCEPT ![h] = Idle]
Begin(h) == At(h, "idle") /\ calls < MaxCalls /\ calls' = calls + 1

Rebuilding == {h \in Requests : call[h].pc \in RebuildSteps}

(* h starts to rebuild the CRL as record r.                                  *)
EnterRebuild(h, r) ==
    /\ call' = [g \in Requests |->
          IF g = h THEN [r EXCEPT !.pc = "rebuild", !.solo = Rebuilding = {}]
          ELSE [call[g] EXCEPT !.solo = FALSE]]
    /\ stale' = (stale \/ Rebuilding # {})

------------------------------------------------------------------------------
(* issueAndStore, for POST /pki/certs, /certs/{id}/renew, a new client and   *)
(* issue-server-cert ("wire").                                               *)

IssueBegin(h, c, op) ==
    /\ Begin(h)
    /\ op = "renew" => cert[c] # NoCert
    /\ call' = [call EXCEPT ![h] =
          [Idle EXCEPT !.pc = "ca", !.op = op, !.cn = c, !.id = calls', !.copy = inst.crl]]
    /\ UNCHANGED <<rows, files, failures, history>>

FindCA(h) ==
    /\ At(h, "ca")
    /\ Goto(h, IF ca.row THEN "draw" ELSE "import")
    /\ UNCHANGED <<rows, files, counters, history>>

(* A CA whose row was deleted is imported again from its files: UpsertCA     *)
(* looks for the row once more,                                              *)
Import(h) ==
    /\ At(h, "import")
    /\ call' = [call EXCEPT ![h] =
          [@ EXCEPT !.pc = IF ca.row THEN "refresh" ELSE "insert", !.path = ca.crl]]
    /\ UNCHANGED <<rows, files, counters, history>>

(* and inserts it, if nobody else has,                                       *)
InsertCA(h) ==
    /\ At(h, "insert")
    /\ ca' = IF ca.row THEN ca ELSE [row |-> TRUE, crl |-> FALSE]
    /\ Goto(h, "draw")
    /\ UNCHANGED <<inst, cert, files, counters, history>>

(* or, having found it, writes it back with the crl_path it had then.        *)
RefreshCA(h) ==
    /\ At(h, "refresh")
    /\ ca' = IF ca.row THEN [ca EXCEPT !.crl = call[h].path] ELSE ca
    /\ loose' = (loose \/ (ca'.crl /\ ~ca.crl))
    /\ Goto(h, "draw")
    /\ UNCHANGED <<inst, cert, files, counters, signing, barred, stale>>

Drawing == {h \in Requests : call[h].pc \in {"store", "restart"}}

(* nextSerial reads the file and then replaces it.                           *)
DrawSerial(h) ==
    /\ At(h, "draw")
    /\ call' = [call EXCEPT ![h] = [@ EXCEPT !.pc = "store", !.n = serial]]
    /\ raced' = (raced \/ Drawing # {})
    /\ UNCHANGED <<rows, files, counters, signed, barred, restarted, stale, loose>>

(* Whatever keeps it from reading a number there, it begins at 2 again.      *)
DrawFails(h) ==
    /\ At(h, "draw") /\ failures < MaxFailures
    /\ failures' = failures + 1
    /\ call' = [call EXCEPT ![h] = [@ EXCEPT !.pc = "restart", !.n = 2]]
    /\ raced' = (raced \/ Drawing # {})
    /\ restarted' = TRUE
    /\ UNCHANGED <<rows, files, calls, signed, barred, stale, loose>>

(* Mutant of NextSerial: the counter is written as it was read.              *)
SameSerial(n) == n
NextSerial(n) == n + 1

StoreSerial(h) ==
    /\ At(h, "store")
    /\ serial' = NextSerial(call[h].n)
    /\ Goto(h, "sign")
    /\ UNCHANGED <<rows, crlNumber, crl, leaf, counters, history>>

(* An error of this write is ignored.                                        *)
RestartSerial(h) ==
    /\ At(h, "restart")
    /\ serial' \in {3, serial}
    /\ Goto(h, "sign")
    /\ UNCHANGED <<rows, crlNumber, crl, leaf, counters, history>>

(* Issue signs and overwrites the leaf's files.                              *)
Sign(h) ==
    /\ At(h, "sign")
    /\ signed' = signed \cup {[serial |-> call[h].n, id |-> call[h].id]}
    /\ leaf' = [leaf EXCEPT ![call[h].cn] = call[h].n]
    /\ barred' = barred \ {call[h].cn}
    /\ Goto(h, "find")
    /\ UNCHANGED <<rows, serial, crlNumber, crl, counters, raced, restarted, stale, loose>>

(* UpsertCertificate looks for the row,                                      *)
FindRow(h) ==
    LET c == call[h].cn IN
    /\ At(h, "find")
    /\ call' = [call EXCEPT ![h] =
          [@ EXCEPT !.pc = "upsert", !.row = IF cert[c] = NoCert THEN 0 ELSE cert[c].id]]
    /\ UNCHANGED <<rows, files, counters, history>>

(* Mutant of Reissued: the revocation stays on the row.                      *)
ReissuedStillRevoked(c, id, n) ==
    [id |-> id, serial |-> n, revoked |-> cert[c] # NoCert /\ cert[c].revoked]

(* The row of a leaf that was issued again is not revoked.                   *)
Reissued(c, id, n) == [id |-> id, serial |-> n, revoked |-> FALSE]

(* then updates it by its id, or inserts one, which needs the CA's row and   *)
(* no row of that common name.                                               *)
Upsert(h) ==
    LET c == call[h].cn
        k == call[h].row
        there == IF k = 0 THEN ca.row /\ cert[c] = NoCert
                          ELSE cert[c] # NoCert /\ cert[c].id = k
        id == IF k = 0 THEN call[h].id ELSE k
    IN
    /\ At(h, "upsert")
    /\ IF there
       THEN /\ cert' = [cert EXCEPT ![c] = Reissued(c, id, call[h].n)]
            /\ call' = [call EXCEPT ![h] = [@ EXCEPT !.pc = "reread", !.row = id]]
       ELSE Finish(h) /\ UNCHANGED cert
    /\ UNCHANGED <<ca, inst, files, counters, history>>

(* It reads the row back; a renewal that finds it revoked clears that.       *)
Reread(h) ==
    LET c == call[h].cn
        there == cert[c] # NoCert /\ cert[c].id = call[h].row
    IN
    /\ At(h, "reread")
    /\ IF there /\ call[h].op = "renew" /\ cert[c].revoked THEN Goto(h, "clear")
       ELSE IF there /\ call[h].op \in {"wire", "create"} THEN Goto(h, "instance")
       ELSE Finish(h)
    /\ UNCHANGED <<rows, files, counters, history>>

Clear(h) ==
    LET c == call[h].cn IN
    /\ At(h, "clear")
    /\ cert' = IF cert[c] # NoCert /\ cert[c].id = call[h].row
               THEN [cert EXCEPT ![c].revoked = FALSE] ELSE cert
    /\ Finish(h)
    /\ UNCHANGED <<ca, inst, files, counters, history>>

(* issue-server-cert takes the CA's CRL path, if it has one, or keeps the    *)
(* one of the row it read at its start; POST reads the row here.             *)
WireRead(h) ==
    LET had == IF call[h].op = "create" THEN inst.crl ELSE call[h].copy IN
    /\ At(h, "instance")
    /\ IF ca.row /\ (call[h].op = "create" => inst.row)
       THEN call' = [call EXCEPT ![h] = [@ EXCEPT !.pc = "wire", !.copy = had \/ ca.crl]]
       ELSE Finish(h)
    /\ UNCHANGED <<rows, files, counters, history>>

(* UpdateInstance writes all columns of the row, by its name.                *)
Written(uses, checks) == IF inst.row THEN Row(uses, checks) ELSE inst

Wire(h) ==
    /\ At(h, "wire")
    /\ inst' = Written(TRUE, call[h].copy)
    /\ Finish(h)
    /\ UNCHANGED <<ca, cert, files, counters, history>>

IssueStep(h) ==
    \/ FindCA(h) \/ Import(h) \/ InsertCA(h) \/ RefreshCA(h)
    \/ DrawSerial(h) \/ DrawFails(h) \/ StoreSerial(h) \/ RestartSerial(h) \/ Sign(h)
    \/ FindRow(h) \/ Upsert(h) \/ Reread(h) \/ Clear(h) \/ WireRead(h) \/ Wire(h)

------------------------------------------------------------------------------
(* The instance.                                                             *)

(* POST /instances stores what the body says, and the body may name the CA   *)
(* but not a CRL; it may then issue a server certificate ("create").         *)
CreateInstance(h, uses, c) ==
    /\ Begin(h)
    /\ ~inst.row
    /\ inst' = Row(uses, FALSE)
    /\ loose' = (loose \/ uses)
    /\ call' = IF c = NoCN THEN call
               ELSE [call EXCEPT ![h] =
                        [Idle EXCEPT !.pc = "ca", !.op = "create", !.cn = c, !.id = calls']]
    /\ UNCHANGED <<ca, cert, files, failures, signing, barred, stale>>

DeleteInstance(h) ==
    /\ Begin(h)
    /\ inst.row
    /\ inst' = NoInst
    /\ UNCHANGED <<ca, cert, files, call, failures, history>>

(* PATCH reads the row; the body leaves the CA alone ("patch") or names one  *)
(* ("set").                                                                  *)
PatchBegin(h, op, uses) ==
    /\ Begin(h)
    /\ inst.row
    /\ op = "patch" => uses = inst.ca
    /\ call' = [call EXCEPT ![h] =
          [Idle EXCEPT !.pc = "patch", !.op = op, !.path = uses, !.copy = inst.crl]]
    /\ UNCHANGED <<rows, files, failures, history>>

PatchWrite(h) ==
    /\ At(h, "patch")
    /\ inst' = Written(call[h].path, call[h].copy)
    /\ loose' = (loose \/ call[h].op = "set")
    /\ Finish(h)
    /\ UNCHANGED <<ca, cert, files, counters, signing, barred, stale>>

------------------------------------------------------------------------------
(* Revocation and the CRL.                                                   *)

(* handleRevokeCert: a row that is revoked is answered OK at once.           *)
RevokeBegin(h, c) ==
    /\ Begin(h)
    /\ cert[c] # NoCert
    /\ IF cert[c].revoked
       THEN barred' = barred \cup {c} /\ UNCHANGED call
       ELSE /\ call' = [call EXCEPT ![h] =
                 [Idle EXCEPT !.pc = "mark", !.op = "revoke", !.cn = c, !.row = cert[c].id]]
            /\ UNCHANGED barred
    /\ UNCHANGED <<rows, files, failures, signing, stale, loose>>

Mark(h) ==
    LET c == call[h].cn IN
    /\ At(h, "mark")
    /\ IF cert[c] # NoCert /\ cert[c].id = call[h].row
       THEN cert' = [cert EXCEPT ![c].revoked = TRUE] /\ EnterRebuild(h, call[h])
       ELSE Finish(h) /\ UNCHANGED <<cert, stale>>
    /\ UNCHANGED <<ca, inst, files, counters, signing, barred, loose>>

(* POST /pki/cas/{name}/rebuild-crl                                          *)
RebuildBegin(h) ==
    /\ Begin(h)
    /\ EnterRebuild(h, [Idle EXCEPT !.op = "rebuild"])
    /\ UNCHANGED <<rows, files, failures, signing, barred, loose>>

FindCAOfCRL(h) ==
    /\ At(h, "rebuild")
    /\ IF ca.row THEN Goto(h, "list") /\ UNCHANGED stale
                 ELSE Finish(h) /\ stale' = TRUE
    /\ UNCHANGED <<rows, files, counters, signing, barred, loose>>

(* Mutant of Revoked: the common names.                                      *)
RevokedNames == {d \in CNs : cert[d] # NoCert /\ cert[d].revoked}

(* ListRevokedCertificates                                                   *)
Revoked == {cert[c].serial : c \in {d \in CNs : cert[d] # NoCert /\ cert[d].revoked}}

ListRevoked(h) ==
    /\ At(h, "list")
    /\ call' = [call EXCEPT ![h] = [@ EXCEPT !.pc = "number", !.list = Revoked]]
    /\ UNCHANGED <<rows, files, counters, history>>

(* RebuildCRL: read the number, replace the CRL, replace the number.         *)
ReadNumber(h) ==
    /\ At(h, "number")
    /\ call' = [call EXCEPT ![h] = [@ EXCEPT !.pc = "crl", !.n = crlNumber]]
    /\ UNCHANGED <<rows, files, counters, history>>

WriteCRL(h) ==
    /\ At(h, "crl")
    /\ crl' = [number |-> call[h].n, serials |-> call[h].list]
    /\ Goto(h, "bump")
    /\ UNCHANGED <<rows, serial, crlNumber, leaf, counters, history>>

BumpNumber(h) ==
    /\ At(h, "bump")
    /\ crlNumber' = call[h].n + 1
    /\ Goto(h, "path")
    /\ UNCHANGED <<rows, serial, crl, leaf, counters, history>>

UpdateCACRL(h) ==
    /\ At(h, "path")
    /\ IF ca.row
       THEN ca' = [ca EXCEPT !.crl = TRUE] /\ Goto(h, "attach") /\ UNCHANGED stale
       ELSE Finish(h) /\ stale' = TRUE /\ UNCHANGED ca
    /\ loose' = (loose \/ (ca'.crl /\ ~ca.crl))
    /\ UNCHANGED <<inst, cert, files, counters, signing, barred>>

(* Mutant of Attached: the instances keep what they have.                    *)
NotAttached == inst

(* SetInstancesCRLPath, of the instances that use the CA.                    *)
Attached == [inst EXCEPT !.crl = @ \/ inst.ca]

(* The revoke answers OK if its row is still there.                          *)
Answer(h) ==
    LET c == call[h].cn IN
    /\ barred' = IF call[h].op = "revoke" /\ cert[c] # NoCert /\ cert[c].id = call[h].row
               THEN barred \cup {c} ELSE barred
    /\ stale' = (stale /\ ~call[h].solo)
    /\ Finish(h)

(* A call that is about to write the row may undo what is attached.          *)
AttachCRL(h) ==
    /\ At(h, "attach")
    /\ inst' = Attached
    /\ loose' = (loose /\ \E g \in Requests : At(g, "wire") \/ At(g, "patch"))
    /\ Answer(h)
    /\ UNCHANGED <<ca, cert, files, counters, signing>>

(* The error of that statement is not looked at.                             *)
AttachFails(h) ==
    /\ At(h, "attach") /\ failures < MaxFailures
    /\ failures' = failures + 1
    /\ Answer(h)
    /\ UNCHANGED <<rows, files, calls, signing, loose>>

RevokeStep(h) ==
    \/ Mark(h) \/ FindCAOfCRL(h) \/ ListRevoked(h) \/ ReadNumber(h)
    \/ WriteCRL(h) \/ BumpNumber(h) \/ UpdateCACRL(h)
    \/ AttachCRL(h) \/ AttachFails(h)

------------------------------------------------------------------------------
(* DELETE /pki/cas/{name} removes the row and, by cascade, those of the      *)
(* certificates; the files stay.                                             *)
DeleteCA(h) ==
    /\ Begin(h)
    /\ ca.row
    /\ ca' = [row |-> FALSE, crl |-> FALSE]
    /\ cert' = [c \in CNs |-> NoCert]
    /\ barred' = {}
    /\ UNCHANGED <<inst, files, call, failures, signing, stale, loose>>

(* A call dies: the client goes away, a statement or a write fails, or the   *)
(* daemon is killed.                                                         *)
Die(h) ==
    /\ ~At(h, "idle") /\ failures < MaxFailures
    /\ failures' = failures + 1
    /\ stale' = (stale \/ h \in Rebuilding)
    /\ Finish(h)
    /\ UNCHANGED <<rows, files, calls, signing, barred, loose>>

Serve(h) ==
    \/ \E c \in CNs : RevokeBegin(h, c)
    \/ \E c \in CNs, op \in {"issue", "renew", "wire"} : IssueBegin(h, c, op)
    \/ RebuildBegin(h)
    \/ DeleteCA(h)
    \/ Die(h)

InstanceStep(h) ==
    \/ \E uses \in BOOLEAN, c \in CNs \cup {NoCN} : CreateInstance(h, uses, c)
    \/ \E uses \in BOOLEAN, op \in {"patch", "set"} : PatchBegin(h, op, uses)
    \/ DeleteInstance(h)
    \/ PatchWrite(h)

Next ==
    \E h \in Requests : Serve(h) \/ IssueStep(h) \/ RevokeStep(h) \/ InstanceStep(h)

Spec == Init /\ [][Next]_vars

------------------------------------------------------------------------------
TypeOK ==
    /\ ca \in [row : BOOLEAN, crl : BOOLEAN]
    /\ inst \in [row : BOOLEAN, ca : BOOLEAN, crl : BOOLEAN]
    /\ cert \in [CNs -> {NoCert} \cup Cert]
    /\ serial \in Nat /\ crlNumber \in Nat
    /\ crl \in [number : Nat, serials : SUBSET Nat]
    /\ leaf \in [CNs -> Nat]
    /\ call \in [Requests -> Call]
    /\ calls \in 0..MaxCalls /\ failures \in 0..MaxFailures
    /\ signed \subseteq [serial : Nat, id : Nat]
    /\ barred \subseteq CNs
    /\ raced \in BOOLEAN /\ restarted \in BOOLEAN
    /\ stale \in BOOLEAN /\ loose \in BOOLEAN

(* A CA never signs two certificates with one serial number, whatever calls  *)
(* die or are deleted on the way, as long as no two calls are between        *)
(* reading and writing the serial file at the same time and the file can be  *)
(* read: after a read that failed, numbers begin at 2 again and repeat.      *)
SerialsUnique ==
    (~raced /\ ~restarted) =>
        \A s, t \in signed : s.serial = t.serial => s = t

(* Rebuilds that die or overlap may leave a revocation off the CRL, but any  *)
(* later rebuild that meets no other one puts that right, and from then on   *)
(* every revoked row is on the CRL, whatever issues, renewals and deletions  *)
(* go on.                                                                    *)
RevokedIsListed ==
    (~stale /\ Rebuilding = {}) =>
        \A c \in CNs :
            (cert[c] # NoCert /\ cert[c].revoked) => cert[c].serial \in crl.serials

(* The instance that uses a CA with a CRL checks it, from an attach that no  *)
(* PATCH or issue-server-cert in progress can undo to the next CRL path of   *)
(* the CA or the next request that names the CA in the instance, whatever is *)
(* issued, deleted, created or patched otherwise.                            *)
ServersCheckCRL == (~loose /\ ca.crl /\ inst.ca) => inst.crl

(* "Server instances using that CA get pki_crl_path" (docs/PKI.md:59) once a *)
(* certificate was revoked: a revoke has answered OK, no call is in progress *)
(* and the leaf was not issued again.                                        *)
RevokeReachesServers ==
    ((\A h \in Requests : At(h, "idle")) /\ barred # {} /\ inst.ca) => inst.crl

(* "Revoke leaf + rebuild CA CRL" (docs/PKI.md:48): once a revoke has        *)
(* answered OK and no call is in progress, and until the leaf is issued      *)
(* again, its certificate is on the CRL.                                     *)
RevokeBarsLeaf ==
    (\A h \in Requests : At(h, "idle")) => \A c \in barred : leaf[c] \in crl.serials
===============================================================================
