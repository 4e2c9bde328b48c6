------------------------------- MODULE PKIProofs ------------------------------
(***************************************************************************)
(* Theorems about PKI: serials are unique unless two draws met or one could *)
(* not read the file, and what one rebuild of the CRL that ran alone       *)
(* achieves stays so.                                                      *)
(***************************************************************************)
EXTENDS PKI, TLAPS

(* Unless two draws met or one could not read the file, the next serial is   *)
(* above every one that was signed or is about to be, and a call that has    *)
(* read it is the only one.                                                  *)
Fresh ==
    (~raced /\ ~restarted) =>
        /\ \A s \in signed : s.serial < serial
        /\ \A s, t \in signed : s.serial = t.serial => s = t
        /\ \A h \in Requests : At(h, "store") =>
              /\ call[h].n = serial
              /\ \A g \in Requests : At(g, "store") => g = h
        /\ \A h \in Requests : ~At(h, "restart")
        /\ \A h \in Requests : At(h, "sign") =>
              /\ call[h].n < serial
              /\ \A s \in signed : s.serial # call[h].n
              /\ \A g \in Requests \ {h} : At(g, "sign") => call[g].n # call[h].n

(* A solitary rebuild is the only one, and has in its list, and later on the *)
(* CRL, every row that is revoked.                                           *)
AllIn(serials) ==
    \A c \in CNs : (cert[c] # NoCert /\ cert[c].revoked) => cert[c].serial \in serials

Solo ==
    /\ \A g, h \in Rebuilding : call[h].solo => g = h
    /\ ~stale => \A h \in Rebuilding : call[h].solo

Published ==
    /\ \A h \in Rebuilding : call[h].solo =>
          /\ call[h].pc \in {"number", "crl"} => AllIn(call[h].list)
          /\ call[h].pc \in {"bump", "path", "attach"} => AllIn(crl.serials)
    /\ (~stale /\ Rebuilding = {}) => AllIn(crl.serials)

(* A server that uses a CA with a CRL checks it, and so will one that is     *)
(* about to be written back.                                                 *)
Wired ==
    ~loose =>
        /\ (ca.crl /\ inst.ca) => inst.crl
        /\ \A h \in Requests : At(h, "wire") => (ca.crl => call[h].copy)
        /\ \A h \in Requests :
              At(h, "patch") /\ call[h].op # "set" => (ca.crl /\ call[h].path => call[h].copy)

(* Whoever is at work on a leaf knows which.                                 *)
Named ==
    \A h \in Requests :
        \/ call[h].pc = "idle" \/ call[h].cn \in CNs
        \/ call[h].op = "rebuild" /\ call[h].pc \in RebuildSteps
        \/ call[h].pc = "patch"

Inv == TypeOK /\ Named /\ Fresh /\ Solo /\ Published /\ Wired

------------------------------------------------------------------------------
(* The type invariant.                                                       *)
LEMMA StepsAre ==
    /\ RebuildSteps \subseteq Steps
    /\ "idle" \in Steps /\ "ca" \in Steps /\ "import" \in Steps
    /\ "insert" \in Steps /\ "refresh" \in Steps /\ "draw" \in Steps /\ "store" \in Steps
    /\ "sign" \in Steps /\ "find" \in Steps /\ "upsert" \in Steps
    /\ "reread" \in Steps /\ "clear" \in Steps /\ "instance" \in Steps
    /\ "wire" \in Steps /\ "mark" \in Steps
    /\ "restart" \in Steps /\ "patch" \in Steps
    /\ "rebuild" \in RebuildSteps /\ "list" \in RebuildSteps
    /\ "number" \in RebuildSteps /\ "crl" \in RebuildSteps
    /\ "bump" \in RebuildSteps /\ "path" \in RebuildSteps
    /\ "attach" \in RebuildSteps
  BY DEF Steps, RebuildSteps

LEMMA IdleType == Idle \in Call
  BY StepsAre DEF Idle, Call, Ops

LEMMA CallTypes ==
    ASSUME TypeOK, NEW h \in Requests
    PROVE  /\ call[h] \in Call
           /\ call[h].pc \in Steps /\ call[h].cn \in CNs \cup {NoCN}
           /\ call[h].id \in Nat /\ call[h].n \in Nat /\ call[h].row \in Nat
           /\ call[h].list \in SUBSET Nat /\ call[h].path \in BOOLEAN
           /\ call[h].copy \in BOOLEAN /\ call[h].solo \in BOOLEAN
<1>1. call[h] \in Call
  BY DEF TypeOK
<1> QED
  BY <1>1 DEF Call

LEMMA GotoTypes ==
    ASSUME TypeOK, NEW h \in Requests, NEW pc \in Steps, Goto(h, pc)
    PROVE  call' \in [Requests -> Call]
<1>1. [call[h] EXCEPT !.pc = pc] \in Call
  BY DEF TypeOK, Call
<1> QED
  BY <1>1 DEF Goto, TypeOK

LEMMA FinishTypes ==
    ASSUME TypeOK, NEW h \in Requests, Finish(h)
    PROVE  call' \in [Requests -> Call]
  BY IdleType DEF Finish, TypeOK

LEMMA EnterRebuildTypes ==
    ASSUME TypeOK, NEW h \in Requests, NEW r \in Call, EnterRebuild(h, r)
    PROVE  call' \in [Requests -> Call] /\ stale' \in BOOLEAN
<1>1. [r EXCEPT !.pc = "rebuild", !.solo = Rebuilding = {}] \in Call
  BY StepsAre DEF Call
<1>2. \A g \in Requests : [call[g] EXCEPT !.solo = FALSE] \in Call
  BY DEF Call, TypeOK
<1> QED
  BY <1>1, <1>2 DEF EnterRebuild, TypeOK

LEMMA IssueKeepsTypes ==
    ASSUME TypeOK, Named, NEW h \in Requests, IssueStep(h)
    PROVE  TypeOK'
<1> USE DEF rows, files, counters, history, signing
<1> DEFINE c == call[h].cn
<1>1. CASE FindCA(h)
  <2>1. (IF ca.row THEN "draw" ELSE "import") \in Steps
    BY StepsAre
  <2> QED
    BY <1>1, <2>1, GotoTypes DEF FindCA, TypeOK
<1>11. CASE Import(h)
  <2>1. (IF ca.row THEN "refresh" ELSE "insert") \in Steps
    BY StepsAre
  <2>2. [call[h] EXCEPT !.pc = IF ca.row THEN "refresh" ELSE "insert", !.path = ca.crl] \in Call
    BY <2>1, CallTypes DEF Call, TypeOK
  <2> QED
    BY <1>11, <2>2 DEF Import, TypeOK
<1>12. CASE InsertCA(h)
  BY <1>12, GotoTypes, StepsAre DEF InsertCA, TypeOK
<1>13. CASE RefreshCA(h)
  <2>1. call' \in [Requests -> Call]
    BY <1>13, GotoTypes, StepsAre DEF RefreshCA
  <2>2. ca' \in [row : BOOLEAN, crl : BOOLEAN]
    BY <1>13, CallTypes DEF RefreshCA, TypeOK
  <2>3. loose' \in BOOLEAN
    BY <1>13 DEF RefreshCA, TypeOK
  <2> QED
    BY <1>13, <2>1, <2>2, <2>3 DEF RefreshCA, TypeOK
<1>2. CASE DrawSerial(h)
  <2>1. [call[h] EXCEPT !.pc = "store", !.n = serial] \in Call
    BY CallTypes, StepsAre DEF Call, TypeOK
  <2> QED
    BY <1>2, <2>1 DEF DrawSerial, TypeOK
<1>14. CASE DrawFails(h)
  <2>1. [call[h] EXCEPT !.pc = "restart", !.n = 2] \in Call
    BY CallTypes, StepsAre DEF Call, TypeOK
  <2>2. failures' \in 0..MaxFailures
    BY <1>14, PKIAssumption DEF DrawFails, TypeOK
  <2> QED
    BY <1>14, <2>1, <2>2 DEF DrawFails, TypeOK
<1>15. CASE RestartSerial(h)
  BY <1>15, GotoTypes, StepsAre DEF RestartSerial, TypeOK
<1>3. CASE StoreSerial(h)
  <2>1. call[h].n + 1 \in Nat
    BY CallTypes
  <2> QED
    BY <1>3, <2>1, GotoTypes, StepsAre DEF StoreSerial, NextSerial, TypeOK
<1>4. CASE Sign(h)
  <2>1. call' \in [Requests -> Call]
    BY <1>4, GotoTypes, StepsAre DEF Sign
  <2>2. [serial |-> call[h].n, id |-> call[h].id] \in [serial : Nat, id : Nat]
    BY CallTypes
  <2>3. leaf' \in [CNs -> Nat]
    BY <1>4, CallTypes DEF Sign, TypeOK
  <2> QED
    BY <1>4, <2>1, <2>2, <2>3 DEF Sign, TypeOK
<1>5. CASE FindRow(h)
  <2>1. c \in CNs
    BY <1>5 DEF FindRow, Named, At, RebuildSteps
  <2>2. (IF cert[c] = NoCert THEN 0 ELSE cert[c].id) \in Nat
    BY <2>1 DEF TypeOK, Cert
  <2>3. [call[h] EXCEPT !.pc = "upsert",
                        !.row = IF cert[c] = NoCert THEN 0 ELSE cert[c].id] \in Call
    BY <2>2, CallTypes, StepsAre DEF Call
  <2> QED
    BY <1>5, <2>3 DEF FindRow, TypeOK
<1>6. CASE Upsert(h)
  <2> DEFINE id == IF call[h].row = 0 THEN call[h].id ELSE call[h].row
  <2>1. id \in Nat
    BY CallTypes
  <2>2. [call[h] EXCEPT !.pc = "reread", !.row = id] \in Call
    BY <2>1, CallTypes, StepsAre DEF Call
  <2>3. Reissued(c, id, call[h].n) \in Cert
    BY <2>1, CallTypes DEF Reissued, Cert
  <2>4. call' \in [Requests -> Call]
    BY <1>6, <2>2, FinishTypes DEF Upsert, TypeOK
  <2>5. cert' \in [CNs -> {NoCert} \cup Cert]
    BY <1>6, <2>3 DEF Upsert, TypeOK
  <2> QED
    BY <1>6, <2>4, <2>5 DEF Upsert, TypeOK
<1>7. CASE Reread(h)
  BY <1>7, GotoTypes, FinishTypes, StepsAre DEF Reread, TypeOK
<1>8. CASE Clear(h)
  <2>1. c \in CNs
    BY <1>8 DEF Clear, Named, At, RebuildSteps
  <2>2. cert[c] # NoCert => [cert[c] EXCEPT !.revoked = FALSE] \in Cert
    BY <2>1 DEF TypeOK, Cert
  <2>3. cert' \in [CNs -> {NoCert} \cup Cert]
    BY <1>8, <2>2 DEF Clear, TypeOK
  <2> QED
    BY <1>8, <2>3, FinishTypes DEF Clear, TypeOK
<1>9. CASE WireRead(h)
  <2> DEFINE had == IF call[h].op = "create" THEN inst.crl ELSE call[h].copy
  <2>1. had \in BOOLEAN
    BY CallTypes DEF TypeOK
  <2>2. [call[h] EXCEPT !.pc = "wire", !.copy = had \/ ca.crl] \in Call
    BY CallTypes, StepsAre DEF Call
  <2> QED
    BY <1>9, <2>2, FinishTypes DEF WireRead, TypeOK
<1>10. CASE Wire(h)
  BY <1>10, CallTypes, FinishTypes DEF Wire, Written, Row, TypeOK
<1> QED
  BY <1>1, <1>2, <1>3, <1>4, <1>5, <1>6, <1>7, <1>8, <1>9, <1>10, <1>11, <1>12, <1>13,
     <1>14, <1>15 DEF IssueStep

LEMMA RevokeKeepsTypes ==
    ASSUME TypeOK, Named, NEW h \in Requests, RevokeStep(h)
    PROVE  TypeOK'
<1> USE DEF rows, files, counters, history, signing
<1> DEFINE c == call[h].cn
<1>1. CASE Mark(h)
  <2>1. c \in CNs
    BY <1>1 DEF Mark, Named, At, RebuildSteps
  <2>2. cert[c] # NoCert => [cert[c] EXCEPT !.revoked = TRUE] \in Cert
    BY <2>1 DEF TypeOK, Cert
  <2>3. cert' \in [CNs -> {NoCert} \cup Cert]
    BY <1>1, <2>2 DEF Mark, TypeOK
  <2>4. call' \in [Requests -> Call] /\ stale' \in BOOLEAN
    BY <1>1, CallTypes, EnterRebuildTypes, FinishTypes DEF Mark, TypeOK
  <2> QED
    BY <1>1, <2>3, <2>4 DEF Mark, TypeOK
<1>2. CASE FindCAOfCRL(h)
  BY <1>2, GotoTypes, FinishTypes, StepsAre DEF FindCAOfCRL, TypeOK
<1>3. CASE ListRevoked(h)
  <2>1. Revoked \in SUBSET Nat
    BY DEF Revoked, TypeOK, Cert
  <2>2. [call[h] EXCEPT !.pc = "number", !.list = Revoked] \in Call
    BY <2>1, CallTypes, StepsAre DEF Call
  <2> QED
    BY <1>3, <2>2 DEF ListRevoked, TypeOK
<1>4. CASE ReadNumber(h)
  <2>1. [call[h] EXCEPT !.pc = "crl", !.n = crlNumber] \in Call
    BY CallTypes, StepsAre DEF Call, TypeOK
  <2> QED
    BY <1>4, <2>1 DEF ReadNumber, TypeOK
<1>5. CASE WriteCRL(h)
  BY <1>5, CallTypes, GotoTypes, StepsAre DEF WriteCRL, TypeOK
<1>6. CASE BumpNumber(h)
  <2>1. call[h].n + 1 \in Nat
    BY CallTypes
  <2> QED
    BY <1>6, <2>1, GotoTypes, StepsAre DEF BumpNumber, TypeOK
<1>7. CASE UpdateCACRL(h)
  BY <1>7, GotoTypes, FinishTypes, StepsAre DEF UpdateCACRL, TypeOK
<1>8. ASSUME At(h, "attach"), Answer(h)
      PROVE  /\ call' \in [Requests -> Call]
             /\ barred' \subseteq CNs /\ stale' \in BOOLEAN
  <2>1. call[h].op = "revoke" => c \in CNs
    BY <1>8 DEF Named, At
  <2> QED
    BY <1>8, <2>1, CallTypes, FinishTypes DEF Answer, TypeOK
<1>9. CASE AttachCRL(h)
  <2>1. /\ inst' \in [row : BOOLEAN, ca : BOOLEAN, crl : BOOLEAN]
        /\ loose' \in BOOLEAN
    BY <1>9 DEF AttachCRL, Attached, TypeOK
  <2> QED
    BY <1>8, <1>9, <2>1 DEF AttachCRL, TypeOK
<1>10. CASE AttachFails(h)
  <2>1. failures' \in 0..MaxFailures
    BY <1>10, PKIAssumption DEF AttachFails, TypeOK
  <2> QED
    BY <1>8, <1>10, <2>1 DEF AttachFails, TypeOK
<1> QED
  BY <1>1, <1>2, <1>3, <1>4, <1>5, <1>6, <1>7, <1>9, <1>10 DEF RevokeStep

LEMMA ServeKeepsTypes ==
    ASSUME TypeOK, NEW h \in Requests, Serve(h)
    PROVE  TypeOK'
<1> USE DEF rows, files, counters, history, signing
<1>1. ASSUME NEW c \in CNs, RevokeBegin(h, c) PROVE TypeOK'
  <2>1. cert[c] # NoCert => cert[c].id \in Nat
    BY DEF TypeOK, Cert
  <2>2. cert[c] # NoCert =>
          [Idle EXCEPT !.pc = "mark", !.op = "revoke", !.cn = c, !.row = cert[c].id] \in Call
    BY <2>1, StepsAre DEF Idle, Call, Ops
  <2>3. call' \in [Requests -> Call] /\ barred' \subseteq CNs
    BY <1>1, <2>2 DEF RevokeBegin, TypeOK
  <2>4. calls' \in 0..MaxCalls
    BY <1>1, PKIAssumption DEF RevokeBegin, Begin, TypeOK
  <2> QED
    BY <1>1, <2>3, <2>4 DEF RevokeBegin, TypeOK
<1>2. ASSUME NEW c \in CNs, NEW op \in {"issue", "renew", "wire"}, IssueBegin(h, c, op)
      PROVE  TypeOK'
  <2>1. calls' \in 0..MaxCalls /\ calls' \in Nat
    BY <1>2, PKIAssumption DEF IssueBegin, Begin, TypeOK
  <2>2. [Idle EXCEPT !.pc = "ca", !.op = op, !.cn = c, !.id = calls', !.copy = inst.crl]
          \in Call
    BY <2>1, StepsAre DEF Idle, Call, Ops, TypeOK
  <2>3. call' \in [Requests -> Call]
    BY <1>2, <2>2 DEF IssueBegin, TypeOK
  <2> QED
    BY <1>2, <2>1, <2>3 DEF IssueBegin, TypeOK
<1>3. CASE RebuildBegin(h)
  <2>1. [Idle EXCEPT !.op = "rebuild"] \in Call
    BY StepsAre DEF Idle, Call, Ops
  <2>2. call' \in [Requests -> Call] /\ stale' \in BOOLEAN
    BY <1>3, <2>1, EnterRebuildTypes DEF RebuildBegin
  <2>3. calls' \in 0..MaxCalls
    BY <1>3, PKIAssumption DEF RebuildBegin, Begin, TypeOK
  <2> QED
    BY <1>3, <2>2, <2>3 DEF RebuildBegin, TypeOK
<1>4. CASE DeleteCA(h)
  <2>1. calls' \in 0..MaxCalls
    BY <1>4, PKIAssumption DEF DeleteCA, Begin, TypeOK
  <2> QED
    BY <1>4, <2>1 DEF DeleteCA, TypeOK
<1>5. CASE Die(h)
  <2>1. failures' \in 0..MaxFailures
    BY <1>5, PKIAssumption DEF Die, TypeOK
  <2>2. stale' \in BOOLEAN
    BY <1>5 DEF Die, TypeOK
  <2> QED
    BY <1>5, <2>1, <2>2, FinishTypes DEF Die, TypeOK
<1> QED
  BY <1>1, <1>2, <1>3, <1>4, <1>5 DEF Serve

LEMMA InstanceKeepsTypes ==
    ASSUME TypeOK, NEW h \in Requests, InstanceStep(h)
    PROVE  TypeOK'
<1> USE DEF rows, files, counters, history, signing
<1>1. ASSUME NEW uses \in BOOLEAN, NEW c \in CNs \cup {NoCN}, CreateInstance(h, uses, c)
      PROVE  TypeOK'
  <2>1. calls' \in 0..MaxCalls /\ calls' \in Nat
    BY <1>1, PKIAssumption DEF CreateInstance, Begin, TypeOK
  <2>2. [Idle EXCEPT !.pc = "ca", !.op = "create", !.cn = c, !.id = calls'] \in Call
    BY <2>1, StepsAre DEF Idle, Call, Ops
  <2>3. call' \in [Requests -> Call]
    BY <1>1, <2>2 DEF CreateInstance, TypeOK
  <2>4. inst' \in [row : BOOLEAN, ca : BOOLEAN, crl : BOOLEAN] /\ loose' \in BOOLEAN
    BY <1>1 DEF CreateInstance, Row, TypeOK
  <2> QED
    BY <1>1, <2>1, <2>3, <2>4 DEF CreateInstance, TypeOK
<1>2. ASSUME NEW uses \in BOOLEAN, NEW op \in {"patch", "set"}, PatchBegin(h, op, uses)
      PROVE  TypeOK'
  <2>1. calls' \in 0..MaxCalls
    BY <1>2, PKIAssumption DEF PatchBegin, Begin, TypeOK
  <2>2. inst.crl \in BOOLEAN
    BY DEF TypeOK
  <2>3. [Idle EXCEPT !.pc = "patch", !.op = op, !.path = uses, !.copy = inst.crl] \in Call
    BY <2>2, StepsAre DEF Idle, Call, Ops
  <2>4. call' \in [Requests -> Call]
    BY <1>2, <2>3 DEF PatchBegin, TypeOK
  <2> QED
    BY <1>2, <2>1, <2>4 DEF PatchBegin, TypeOK
<1>3. CASE DeleteInstance(h)
  <2>1. calls' \in 0..MaxCalls
    BY <1>3, PKIAssumption DEF DeleteInstance, Begin, TypeOK
  <2> QED
    BY <1>3, <2>1 DEF DeleteInstance, NoInst, TypeOK
<1>4. CASE PatchWrite(h)
  BY <1>4, CallTypes, FinishTypes DEF PatchWrite, Written, Row, TypeOK
<1> QED
  BY <1>1, <1>2, <1>3, <1>4 DEF InstanceStep

LEMMA InitInv == Init => Inv
<1> SUFFICES ASSUME Init PROVE Inv
  OBVIOUS
<1>1. \A h \in Requests : call[h] = Idle
  BY DEF Init
<1>2. Idle.pc = "idle"
  BY DEF Idle
<1>3. TypeOK
  <2>1. call \in [Requests -> Call]
    BY IdleType DEF Init
  <2>2. inst \in [row : BOOLEAN, ca : BOOLEAN, crl : BOOLEAN]
    <3>1. inst = NoInst \/ inst = Row(FALSE, FALSE) \/ inst = Row(TRUE, FALSE)
      BY DEF Init
    <3>2. NoInst \in [row : BOOLEAN, ca : BOOLEAN, crl : BOOLEAN]
      BY DEF NoInst
    <3>3. \A uses \in BOOLEAN : Row(uses, FALSE) \in [row : BOOLEAN, ca : BOOLEAN, crl : BOOLEAN]
      BY DEF Row
    <3> QED
      BY <3>1, <3>2, <3>3
  <2>3. calls \in 0..MaxCalls /\ failures \in 0..MaxFailures
    BY PKIAssumption DEF Init
  <2>4. cert \in [CNs -> {NoCert} \cup Cert] /\ leaf \in [CNs -> Nat]
    BY DEF Init
  <2> QED
    BY <2>1, <2>2, <2>3, <2>4 DEF Init, TypeOK
<1>4. Rebuilding = {}
  BY <1>1, <1>2 DEF Rebuilding, RebuildSteps
<1>5. Named /\ Fresh
  BY <1>1, <1>2 DEF Named, Fresh, At, Init
<1>6. Solo /\ Published
  BY <1>4 DEF Solo, Published, AllIn, Init
<1>7. Wired
  BY <1>1, <1>2 DEF Wired, At, Init, NoInst, Row
<1> QED
  BY <1>3, <1>5, <1>6, <1>7 DEF Inv

------------------------------------------------------------------------------
(* What the steps of a kind have in common.                                  *)

(* No row is revoked that was not, and those that stay so keep their serial. *)
NoneRevoked ==
    \A c \in CNs :
        (cert'[c] # NoCert /\ cert'[c].revoked)
            => (cert[c] # NoCert /\ cert[c].revoked /\ cert'[c].serial = cert[c].serial)

Alone(h) == \A g \in Requests \ {h} : call'[g] = call[g]

LEMMA GotoMoves ==
    ASSUME TypeOK, NEW h \in Requests, NEW pc, Goto(h, pc)
    PROVE  /\ Alone(h)
           /\ call'[h].pc = pc /\ call'[h].op = call[h].op /\ call'[h].cn = call[h].cn
           /\ call'[h].n = call[h].n /\ call'[h].row = call[h].row
           /\ call'[h].list = call[h].list /\ call'[h].copy = call[h].copy
           /\ call'[h].solo = call[h].solo
<1>1. call'[h] = [call[h] EXCEPT !.pc = pc] /\ Alone(h)
  BY DEF Goto, TypeOK, Alone
<1> QED
  BY <1>1, CallTypes DEF Call

LEMMA FinishMoves ==
    ASSUME TypeOK, NEW h \in Requests, Finish(h)
    PROVE  /\ Alone(h)
           /\ call'[h] = Idle /\ call'[h].pc = "idle"
<1>1. call'[h] = Idle /\ Alone(h)
  BY DEF Finish, TypeOK, Alone
<1> QED
  BY <1>1 DEF Idle

LEMMA ImportMoves ==
    ASSUME TypeOK, NEW h \in Requests, Import(h)
    PROVE  /\ Alone(h)
           /\ call'[h].pc \in {"refresh", "insert"} /\ call'[h].cn = call[h].cn
<1> DEFINE pc == IF ca.row THEN "refresh" ELSE "insert"
<1>1. call'[h] = [call[h] EXCEPT !.pc = pc, !.path = ca.crl] /\ Alone(h)
  BY DEF Import, TypeOK, Alone
<1>2. pc \in {"refresh", "insert"}
  OBVIOUS
<1> HIDE DEF pc
<1> QED
  BY <1>1, <1>2, CallTypes DEF Call

LEMMA DrawMoves ==
    ASSUME TypeOK, NEW h \in Requests, DrawSerial(h)
    PROVE  /\ Alone(h)
           /\ call'[h].pc = "store" /\ call'[h].n = serial /\ call'[h].cn = call[h].cn
<1>1. call'[h] = [call[h] EXCEPT !.pc = "store", !.n = serial] /\ Alone(h)
  BY DEF DrawSerial, TypeOK, Alone
<1> QED
  BY <1>1, CallTypes DEF Call

LEMMA DrawFailsMoves ==
    ASSUME TypeOK, NEW h \in Requests, DrawFails(h)
    PROVE  Alone(h) /\ call'[h].pc = "restart" /\ call'[h].cn = call[h].cn
<1>1. call'[h] = [call[h] EXCEPT !.pc = "restart", !.n = 2] /\ Alone(h)
  BY DEF DrawFails, TypeOK, Alone
<1> QED
  BY <1>1, CallTypes DEF Call

LEMMA FindRowMoves ==
    ASSUME TypeOK, NEW h \in Requests, FindRow(h)
    PROVE  /\ Alone(h)
           /\ call'[h].pc = "upsert" /\ call'[h].cn = call[h].cn
<1> DEFINE k == IF cert[call[h].cn] = NoCert THEN 0 ELSE cert[call[h].cn].id
<1>1. call'[h] = [call[h] EXCEPT !.pc = "upsert", !.row = k] /\ Alone(h)
  BY DEF FindRow, TypeOK, Alone
<1> HIDE DEF k
<1> QED
  BY <1>1, CallTypes DEF Call

LEMMA UpsertMoves ==
    ASSUME TypeOK, NEW h \in Requests, Upsert(h)
    PROVE  /\ Alone(h)
           /\ \/ call'[h].pc = "idle"
              \/ call'[h].pc = "reread" /\ call'[h].cn = call[h].cn
<1> DEFINE id == IF call[h].row = 0 THEN call[h].id ELSE call[h].row
<1>1. \/ Finish(h)
      \/ Alone(h) /\ call'[h] = [call[h] EXCEPT !.pc = "reread", !.row = id]
  BY DEF Upsert, TypeOK, Alone
<1> HIDE DEF id
<1> QED
  BY <1>1, FinishMoves, CallTypes DEF Call

LEMMA WireReadMoves ==
    ASSUME TypeOK, NEW h \in Requests, WireRead(h)
    PROVE  /\ Alone(h)
           /\ \/ call'[h].pc = "idle"
              \/ /\ call'[h].pc = "wire" /\ call'[h].cn = call[h].cn
                 /\ ca.crl => call'[h].copy
<1> DEFINE copy == (IF call[h].op = "create" THEN inst.crl ELSE call[h].copy) \/ ca.crl
<1>1. \/ Finish(h)
      \/ /\ Alone(h)
         /\ call'[h] = [call[h] EXCEPT !.pc = "wire", !.copy = copy]
  BY DEF WireRead, TypeOK, Alone
<1>2. ca.crl => copy
  OBVIOUS
<1> HIDE DEF copy
<1> QED
  BY <1>1, <1>2, FinishMoves, CallTypes DEF Call

LEMMA ListMoves ==
    ASSUME TypeOK, NEW h \in Requests, ListRevoked(h)
    PROVE  /\ Alone(h)
           /\ call'[h].pc = "number" /\ call'[h].op = call[h].op /\ call'[h].cn = call[h].cn
           /\ call'[h].list = Revoked /\ call'[h].solo = call[h].solo
<1>1. call'[h] = [call[h] EXCEPT !.pc = "number", !.list = Revoked] /\ Alone(h)
  BY DEF ListRevoked, TypeOK, Alone
<1> QED
  BY <1>1, CallTypes DEF Call

LEMMA NumberMoves ==
    ASSUME TypeOK, NEW h \in Requests, ReadNumber(h)
    PROVE  /\ Alone(h)
           /\ call'[h].pc = "crl" /\ call'[h].op = call[h].op /\ call'[h].cn = call[h].cn
           /\ call'[h].list = call[h].list /\ call'[h].solo = call[h].solo
<1>1. call'[h] = [call[h] EXCEPT !.pc = "crl", !.n = crlNumber] /\ Alone(h)
  BY DEF ReadNumber, TypeOK, Alone
<1> QED
  BY <1>1, CallTypes DEF Call

(* An issuing call goes on with its leaf, or is done.                        *)
Issuing == {"ca", "import", "insert", "refresh", "draw", "store", "restart", "sign", "find",
            "upsert", "reread", "clear", "instance", "wire"}

LEMMA IssueMoves ==
    ASSUME TypeOK, NEW h \in Requests, IssueStep(h)
    PROVE  /\ Alone(h) /\ call[h].pc \in Issuing
           /\ \/ call'[h].pc = "idle"
              \/ call'[h].pc \in Issuing /\ call'[h].cn = call[h].cn
<1> USE DEF At, Issuing
<1>1. CASE FindCA(h)
  <2>1. Goto(h, "draw") \/ Goto(h, "import")
    BY <1>1 DEF FindCA
  <2> QED
    BY <1>1, <2>1, GotoMoves DEF FindCA
<1>11. CASE Import(h)
  BY <1>11, ImportMoves DEF Import
<1>12. CASE InsertCA(h)
  BY <1>12, GotoMoves DEF InsertCA
<1>13. CASE RefreshCA(h)
  BY <1>13, GotoMoves DEF RefreshCA
<1>2. CASE DrawSerial(h)
  BY <1>2, DrawMoves DEF DrawSerial
<1>14. CASE DrawFails(h)
  BY <1>14, DrawFailsMoves DEF DrawFails
<1>15. CASE RestartSerial(h)
  BY <1>15, GotoMoves DEF RestartSerial
<1>3. CASE StoreSerial(h)
  BY <1>3, GotoMoves DEF StoreSerial
<1>4. CASE Sign(h)
  BY <1>4, GotoMoves DEF Sign
<1>5. CASE FindRow(h)
  BY <1>5, FindRowMoves DEF FindRow
<1>6. CASE Upsert(h)
  BY <1>6, UpsertMoves DEF Upsert
<1>7. CASE Reread(h)
  <2>1. Goto(h, "clear") \/ Goto(h, "instance") \/ Finish(h)
    BY <1>7 DEF Reread
  <2> QED
    BY <1>7, <2>1, GotoMoves, FinishMoves DEF Reread
<1>8. CASE Clear(h)
  BY <1>8, FinishMoves DEF Clear
<1>9. CASE WireRead(h)
  BY <1>9, WireReadMoves DEF WireRead
<1>10. CASE Wire(h)
  BY <1>10, FinishMoves DEF Wire
<1> QED
  BY <1>1, <1>2, <1>3, <1>4, <1>5, <1>6, <1>7, <1>8, <1>9, <1>10, <1>11, <1>12, <1>13,
     <1>14, <1>15 DEF IssueStep

(* So does a rebuild, and keeps whether it met another one.                  *)
LEMMA RevokeMoves ==
    ASSUME TypeOK, NEW h \in Requests, RevokeStep(h), ~Mark(h)
    PROVE  /\ Alone(h) /\ call[h].pc \in RebuildSteps
           /\ \/ call'[h].pc = "idle"
              \/ /\ call'[h].pc \in RebuildSteps
                 /\ call'[h].cn = call[h].cn /\ call'[h].op = call[h].op
                 /\ call'[h].solo = call[h].solo
<1> USE DEF At, RebuildSteps
<1>1. CASE FindCAOfCRL(h)
  BY <1>1, GotoMoves, FinishMoves DEF FindCAOfCRL
<1>2. CASE ListRevoked(h)
  BY <1>2, ListMoves DEF ListRevoked
<1>3. CASE ReadNumber(h)
  BY <1>3, NumberMoves DEF ReadNumber
<1>4. CASE WriteCRL(h)
  BY <1>4, GotoMoves DEF WriteCRL
<1>5. CASE BumpNumber(h)
  BY <1>5, GotoMoves DEF BumpNumber
<1>6. CASE UpdateCACRL(h)
  BY <1>6, GotoMoves, FinishMoves DEF UpdateCACRL
<1>7. CASE AttachCRL(h) \/ AttachFails(h)
  BY <1>7, FinishMoves DEF AttachCRL, AttachFails, Answer
<1> QED
  BY <1>1, <1>2, <1>3, <1>4, <1>5, <1>6, <1>7 DEF RevokeStep

(* A rebuild that starts meets all the others.                               *)
LEMMA EnterMoves ==
    ASSUME TypeOK, NEW h \in Requests, NEW r \in Call, EnterRebuild(h, r)
    PROVE  /\ \A g \in Requests \ {h} :
                 /\ call'[g].pc = call[g].pc /\ call'[g].op = call[g].op
                 /\ call'[g].cn = call[g].cn /\ call'[g].n = call[g].n
                 /\ call'[g].list = call[g].list /\ call'[g].copy = call[g].copy
                 /\ call'[g].path = call[g].path /\ call'[g].solo = FALSE
           /\ call'[h].pc = "rebuild" /\ call'[h].op = r.op /\ call'[h].cn = r.cn
           /\ call'[h].solo = (Rebuilding = {})
<1> DEFINE none == Rebuilding = {}
<1>1. call'[h] = [r EXCEPT !.pc = "rebuild", !.solo = none]
  BY DEF EnterRebuild
<1>2. ASSUME NEW g \in Requests \ {h}
      PROVE  call'[g] = [call[g] EXCEPT !.solo = FALSE] /\ call[g] \in Call
  BY CallTypes DEF EnterRebuild
<1> HIDE DEF none
<1>3. /\ call'[h].pc = "rebuild" /\ call'[h].op = r.op /\ call'[h].cn = r.cn
      /\ call'[h].solo = none
  BY <1>1 DEF Call
<1>4. ASSUME NEW g \in Requests \ {h}
      PROVE  /\ call'[g].pc = call[g].pc /\ call'[g].op = call[g].op
             /\ call'[g].cn = call[g].cn /\ call'[g].n = call[g].n
             /\ call'[g].list = call[g].list /\ call'[g].copy = call[g].copy
             /\ call'[g].path = call[g].path /\ call'[g].solo = FALSE
  <2>1. ASSUME NEW k \in Call, NEW l, l = [k EXCEPT !.solo = FALSE]
        PROVE  /\ l.pc = k.pc /\ l.op = k.op /\ l.cn = k.cn /\ l.n = k.n
               /\ l.list = k.list /\ l.copy = k.copy /\ l.path = k.path
               /\ l.solo = FALSE
    BY <2>1 DEF Call
  <2>2. call'[g] = [call[g] EXCEPT !.solo = FALSE]
    BY <1>2
  <2>3. call[g] \in Call
    BY <1>2
  <2> QED
    BY <2>1, <2>2, <2>3, Zenon
<1> QED
  BY <1>3, <1>4 DEF none

LEMMA RebuildMoves ==
    ASSUME TypeOK, NEW h \in Requests, RebuildBegin(h)
    PROVE  /\ call[h].pc = "idle"
           /\ \A g \in Requests \ {h} :
                 /\ call'[g].pc = call[g].pc /\ call'[g].op = call[g].op
                 /\ call'[g].cn = call[g].cn /\ call'[g].n = call[g].n
                 /\ call'[g].list = call[g].list /\ call'[g].copy = call[g].copy
                 /\ call'[g].path = call[g].path /\ call'[g].solo = FALSE
           /\ call'[h].pc = "rebuild" /\ call'[h].op = "rebuild"
           /\ call'[h].solo = (Rebuilding = {})
<1> DEFINE r == [Idle EXCEPT !.op = "rebuild"]
<1>1. r \in Call /\ r.op = "rebuild"
  BY StepsAre DEF Idle, Call, Ops
<1>2. EnterRebuild(h, r) /\ call[h].pc = "idle"
  BY DEF RebuildBegin, Begin, At
<1> HIDE DEF r
<1> QED
  BY <1>1, <1>2, EnterMoves

(* The start of every other call, and the end of one that dies.              *)
LEMMA ServeMoves ==
    ASSUME TypeOK, NEW h \in Requests, Serve(h), ~RebuildBegin(h)
    PROVE  /\ Alone(h)
           /\ \/ call'[h] = call[h]
              \/ call'[h].pc = "idle"
              \/ call[h].pc = "idle" /\ call'[h].pc \in {"ca", "mark"} /\ call'[h].cn \in CNs
<1> USE DEF Alone
<1>1. ASSUME NEW c \in CNs, RevokeBegin(h, c)
      PROVE  /\ Alone(h) /\ call[h].pc = "idle"
             /\ call'[h] = call[h] \/ (call'[h].pc = "mark" /\ call'[h].cn = c)
  <2> DEFINE r == [Idle EXCEPT !.pc = "mark", !.op = "revoke", !.cn = c, !.row = cert[c].id]
  <2>1. r.pc = "mark" /\ r.cn = c
    BY DEF Idle
  <2>2. call' = call \/ call' = [call EXCEPT ![h] = r]
    BY <1>1 DEF RevokeBegin
  <2> HIDE DEF r
  <2>3. Alone(h) /\ (call'[h] = call[h] \/ call'[h] = r)
    BY <2>2 DEF TypeOK
  <2> QED
    BY <1>1, <2>1, <2>3 DEF RevokeBegin, Begin, At
<1>2. ASSUME NEW c \in CNs, NEW op, IssueBegin(h, c, op)
      PROVE  Alone(h) /\ call[h].pc = "idle" /\ call'[h].pc = "ca" /\ call'[h].cn = c
  BY <1>2 DEF IssueBegin, Begin, At, TypeOK, Idle
<1>3. CASE DeleteCA(h)
  BY <1>3 DEF DeleteCA
<1>4. CASE Die(h)
  BY <1>4, FinishMoves DEF Die
<1> QED
  BY <1>1, <1>2, <1>3, <1>4 DEF Serve

(* And the calls on the instance itself.                                     *)
LEMMA InstanceMoves ==
    ASSUME TypeOK, NEW h \in Requests, InstanceStep(h)
    PROVE  /\ Alone(h)
           /\ \/ call'[h] = call[h]
              \/ /\ call[h].pc \in {"idle", "patch"}
                 /\ \/ call'[h].pc \in {"idle", "patch"}
                    \/ call'[h].pc = "ca" /\ call'[h].cn \in CNs
<1> USE DEF Alone
<1>1. ASSUME NEW uses \in BOOLEAN, NEW c \in CNs \cup {NoCN}, CreateInstance(h, uses, c)
      PROVE  /\ Alone(h)
             /\ \/ call'[h] = call[h]
                \/ call[h].pc = "idle" /\ call'[h].pc = "ca" /\ call'[h].cn \in CNs
  <2> DEFINE r == [Idle EXCEPT !.pc = "ca", !.op = "create", !.cn = c, !.id = calls']
  <2>1. r.pc = "ca" /\ r.cn = c
    BY DEF Idle
  <2>2. call' = call \/ (c \in CNs /\ call' = [call EXCEPT ![h] = r])
    BY <1>1 DEF CreateInstance
  <2> HIDE DEF r
  <2>3. Alone(h) /\ (call'[h] = call[h] \/ (c \in CNs /\ call'[h] = r))
    BY <2>2 DEF TypeOK
  <2> QED
    BY <1>1, <2>1, <2>3 DEF CreateInstance, Begin, At
<1>2. ASSUME NEW uses \in BOOLEAN, NEW op \in {"patch", "set"}, PatchBegin(h, op, uses)
      PROVE  Alone(h) /\ call[h].pc = "idle" /\ call'[h].pc = "patch"
  <2> DEFINE r == [Idle EXCEPT !.pc = "patch", !.op = op, !.path = uses, !.copy = inst.crl]
  <2>1. r.pc = "patch"
    BY DEF Idle
  <2>2. call' = [call EXCEPT ![h] = r] /\ call[h].pc = "idle"
    BY <1>2 DEF PatchBegin, Begin, At
  <2> HIDE DEF r
  <2> QED
    BY <2>1, <2>2 DEF TypeOK
<1>3. CASE DeleteInstance(h)
  BY <1>3 DEF DeleteInstance
<1>4. CASE PatchWrite(h)
  BY <1>4, FinishMoves DEF PatchWrite, At
<1> QED
  BY <1>1, <1>2, <1>3, <1>4 DEF InstanceStep

(* Whoever is at work on a leaf goes on knowing which.                       *)
LEMMA NamedKept ==
    ASSUME TypeOK, Named, [Next]_vars
    PROVE  Named'
<1>1. CASE UNCHANGED vars
  BY <1>1 DEF vars, Named
<1>2. ASSUME NEW h \in Requests, IssueStep(h)
      PROVE  Named'
  BY <1>2, IssueMoves DEF Named, Alone, Issuing, RebuildSteps
<1>3. ASSUME NEW h \in Requests, Mark(h)
      PROVE  Named'
  <2>1. call[h].cn \in CNs /\ (EnterRebuild(h, call[h]) \/ Finish(h))
    BY <1>3 DEF Mark, Named, At, RebuildSteps
  <2>2. CASE EnterRebuild(h, call[h])
    <3>1. call'[h].cn = call[h].cn
      BY <2>2, EnterMoves, CallTypes
    <3>2. \A g \in Requests \ {h} :
              call'[g].pc = call[g].pc /\ call'[g].cn = call[g].cn /\ call'[g].op = call[g].op
      BY <2>2, EnterMoves, CallTypes
    <3> QED
      BY <2>1, <3>1, <3>2 DEF Named
  <2>3. CASE Finish(h)
    BY <2>3, FinishMoves DEF Named, Alone
  <2> QED
    BY <2>1, <2>2, <2>3
<1>4. ASSUME NEW h \in Requests, RevokeStep(h), ~Mark(h)
      PROVE  Named'
  <2>1. "idle" \notin RebuildSteps /\ "patch" \notin RebuildSteps
    BY DEF RebuildSteps
  <2> QED
    BY <1>4, <2>1, RevokeMoves DEF Named, Alone
<1>5. ASSUME NEW h \in Requests, RebuildBegin(h)
      PROVE  Named'
  <2>1. "rebuild" \in RebuildSteps
    BY DEF RebuildSteps
  <2>2. call'[h].op = "rebuild" /\ call'[h].pc = "rebuild"
    BY <1>5, RebuildMoves
  <2>3. \A g \in Requests \ {h} :
            call'[g].pc = call[g].pc /\ call'[g].cn = call[g].cn /\ call'[g].op = call[g].op
    BY <1>5, RebuildMoves
  <2> QED
    BY <2>1, <2>2, <2>3 DEF Named
<1>6. ASSUME NEW h \in Requests, Serve(h), ~RebuildBegin(h)
      PROVE  Named'
  BY <1>6, ServeMoves DEF Named, Alone
<1>7. ASSUME NEW h \in Requests, InstanceStep(h)
      PROVE  Named'
  BY <1>7, InstanceMoves DEF Named, Alone
<1> QED
  BY <1>1, <1>2, <1>3, <1>4, <1>5, <1>6, <1>7 DEF Next

------------------------------------------------------------------------------
(* Serial numbers.                                                           *)

SerialQuiet ==
    /\ serial' = serial /\ signed' = signed /\ raced' = raced /\ restarted' = restarted
    /\ \A g \in Requests : call'[g].pc \in {"store", "restart", "sign"} =>
          call'[g].pc = call[g].pc /\ call'[g].n = call[g].n

LEMMA QuietKeepsFresh ==
    ASSUME Fresh, SerialQuiet
    PROVE  Fresh'
<1>1. \A g \in Requests : At(g, "store")' => At(g, "store") /\ call'[g].n = call[g].n
  BY DEF SerialQuiet, At
<1>2. \A g \in Requests : At(g, "sign")' => At(g, "sign") /\ call'[g].n = call[g].n
  BY DEF SerialQuiet, At
<1>3. serial' = serial /\ signed' = signed /\ raced' = raced /\ restarted' = restarted
  BY DEF SerialQuiet
<1>4. \A g \in Requests : At(g, "restart")' => At(g, "restart")
  BY DEF SerialQuiet, At
<1> QED
  BY <1>1, <1>2, <1>3, <1>4 DEF Fresh

(* Only an issuing call draws, stores and signs.                             *)
LEMMA OthersAreQuiet ==
    ASSUME TypeOK, [Next]_vars,
           \A h \in Requests : /\ ~DrawSerial(h) /\ ~DrawFails(h) /\ ~StoreSerial(h)
                                /\ ~RestartSerial(h) /\ ~Sign(h)
    PROVE  SerialQuiet
<1> USE DEF files, rows, counters, history, signing
<1>1. CASE UNCHANGED vars
  BY <1>1 DEF vars, SerialQuiet
<1>2. ASSUME NEW h \in Requests, IssueStep(h)
      PROVE  SerialQuiet
  <2>1. serial' = serial /\ signed' = signed /\ raced' = raced /\ restarted' = restarted
    BY <1>2 DEF IssueStep, FindCA, Import, InsertCA, RefreshCA, FindRow, Upsert, Reread, Clear,
                WireRead, Wire
  <2>2. call'[h].pc \notin {"store", "restart", "sign"}
    <3>1. CASE FindCA(h) \/ InsertCA(h) \/ RefreshCA(h) \/ Reread(h)
      <4>1. \/ Goto(h, "draw") \/ Goto(h, "import") \/ Goto(h, "clear")
            \/ Goto(h, "instance") \/ Finish(h)
        BY <3>1 DEF FindCA, InsertCA, RefreshCA, Reread
      <4> QED
        BY <4>1, GotoMoves, FinishMoves
    <3>2. CASE Clear(h) \/ Wire(h)
      BY <3>2, FinishMoves DEF Clear, Wire
    <3> QED
      BY <1>2, <3>1, <3>2, ImportMoves, FindRowMoves, UpsertMoves, WireReadMoves DEF IssueStep
  <2> QED
    BY <1>2, <2>1, <2>2, IssueMoves DEF SerialQuiet, Alone
<1>3. ASSUME NEW h \in Requests, Mark(h)
      PROVE  SerialQuiet
  <2>1. serial' = serial /\ signed' = signed /\ raced' = raced /\ restarted' = restarted
    BY <1>3 DEF Mark
  <2>2. CASE EnterRebuild(h, call[h])
    <3>1. call'[h].pc = "rebuild"
      BY <2>2, EnterMoves, CallTypes
    <3>2. \A g \in Requests \ {h} : call'[g].pc = call[g].pc /\ call'[g].n = call[g].n
      BY <2>2, EnterMoves, CallTypes
    <3> QED
      BY <2>1, <3>1, <3>2 DEF SerialQuiet
  <2>3. CASE Finish(h)
    BY <2>1, <2>3, FinishMoves DEF SerialQuiet, Alone
  <2> QED
    BY <1>3, <2>2, <2>3 DEF Mark
<1>4. ASSUME NEW h \in Requests, RevokeStep(h), ~Mark(h)
      PROVE  SerialQuiet
  <2>1. serial' = serial /\ signed' = signed /\ raced' = raced /\ restarted' = restarted
    BY <1>4 DEF RevokeStep, FindCAOfCRL, ListRevoked, ReadNumber, WriteCRL,
                BumpNumber, UpdateCACRL, AttachCRL, AttachFails
  <2>2. call'[h].pc \notin {"store", "restart", "sign"}
    BY <1>4, RevokeMoves DEF RebuildSteps
  <2> QED
    BY <1>4, <2>1, <2>2, RevokeMoves DEF SerialQuiet, Alone
<1>5. ASSUME NEW h \in Requests, RebuildBegin(h)
      PROVE  SerialQuiet
  <2>1. serial' = serial /\ signed' = signed /\ raced' = raced /\ restarted' = restarted
    BY <1>5 DEF RebuildBegin
  <2>2. call'[h].pc = "rebuild"
    BY <1>5, RebuildMoves
  <2>3. \A g \in Requests \ {h} : call'[g].pc = call[g].pc /\ call'[g].n = call[g].n
    BY <1>5, RebuildMoves
  <2> QED
    BY <2>1, <2>2, <2>3 DEF SerialQuiet
<1>6. ASSUME NEW h \in Requests, Serve(h), ~RebuildBegin(h)
      PROVE  SerialQuiet
  <2>1. serial' = serial /\ signed' = signed /\ raced' = raced /\ restarted' = restarted
    BY <1>6 DEF Serve, RevokeBegin, IssueBegin, DeleteCA, Die
  <2> QED
    BY <1>6, <2>1, ServeMoves DEF SerialQuiet, Alone
<1>7. ASSUME NEW h \in Requests, InstanceStep(h)
      PROVE  SerialQuiet
  <2>1. serial' = serial /\ signed' = signed /\ raced' = raced /\ restarted' = restarted
    BY <1>7 DEF InstanceStep, CreateInstance, DeleteInstance, PatchBegin, PatchWrite
  <2> QED
    BY <1>7, <2>1, InstanceMoves DEF SerialQuiet, Alone
<1> QED
  BY <1>1, <1>2, <1>3, <1>4, <1>5, <1>6, <1>7 DEF Next

LEMMA FreshKept ==
    ASSUME TypeOK, Fresh, [Next]_vars
    PROVE  Fresh'
<1> USE DEF At
<1>1. ASSUME NEW h \in Requests, DrawSerial(h)
      PROVE  Fresh'
  <2>1. /\ serial' = serial /\ signed' = signed
        /\ ~raced' => ~raced /\ \A g \in Requests : call[g].pc # "store"
        /\ restarted' = restarted
    BY <1>1 DEF DrawSerial, Drawing, files
  <2>2. call'[h].pc = "store" /\ call'[h].n = serial /\ Alone(h)
    BY <1>1, DrawMoves
  <2> QED
    BY <2>1, <2>2 DEF Fresh, Alone
<1>2. ASSUME NEW h \in Requests, StoreSerial(h)
      PROVE  Fresh'
  <2>1. /\ serial' = call[h].n + 1 /\ signed' = signed /\ raced' = raced
        /\ restarted' = restarted /\ call[h].pc = "store"
    BY <1>2 DEF StoreSerial, NextSerial, history, signing
  <2>2. call'[h].pc = "sign" /\ call'[h].n = call[h].n /\ Alone(h)
    BY <1>2, GotoMoves DEF StoreSerial
  <2>3. SUFFICES ASSUME ~raced, ~restarted PROVE Fresh'
    BY <2>1 DEF Fresh
  <2>4. call[h].n = serial /\ serial' = serial + 1 /\ serial \in Nat
    BY <2>1, <2>3 DEF Fresh, TypeOK
  <2>5. \A g \in Requests : call'[g].pc \notin {"store", "restart"}
    BY <2>1, <2>2, <2>3 DEF Fresh, Alone
  <2>6. \A s \in signed : s.serial < serial' /\ s.serial # serial
    BY <2>3, <2>4 DEF Fresh, TypeOK
  <2>7. \A g \in Requests \ {h} : call'[g].pc = "sign" =>
            /\ call'[g] = call[g] /\ call[g].pc = "sign"
            /\ call[g].n < serial' /\ call[g].n # serial
    BY <2>2, <2>3, <2>4, CallTypes DEF Fresh, Alone
  <2>8. \A g \in Requests : call'[g].pc = "sign" =>
            /\ call'[g].n < serial'
            /\ \A s \in signed : s.serial # call'[g].n
            /\ \A k \in Requests \ {g} : call'[k].pc = "sign" => call'[k].n # call'[g].n
    BY <2>2, <2>3, <2>4, <2>6, <2>7 DEF Fresh
  <2> QED
    BY <2>1, <2>3, <2>5, <2>6, <2>8 DEF Fresh
<1>3. ASSUME NEW h \in Requests, Sign(h)
      PROVE  Fresh'
  <2> DEFINE new == [serial |-> call[h].n, id |-> call[h].id]
  <2>1. /\ signed' = signed \cup {new} /\ serial' = serial /\ raced' = raced
        /\ restarted' = restarted /\ call[h].pc = "sign"
    BY <1>3 DEF Sign
  <2>2. call'[h].pc = "find" /\ Alone(h)
    BY <1>3, GotoMoves DEF Sign
  <2>3. new.serial = call[h].n
    OBVIOUS
  <2> HIDE DEF new
  <2>4. SUFFICES ASSUME ~raced, ~restarted PROVE Fresh'
    BY <2>1 DEF Fresh
  <2>5. new.serial < serial /\ \A s \in signed : s.serial # new.serial
    BY <2>1, <2>3, <2>4 DEF Fresh
  <2>6. \A g \in Requests : call'[g].pc \in {"store", "restart", "sign"} =>
            g # h /\ call'[g] = call[g]
    BY <2>2 DEF Alone
  <2>7. \A g \in Requests : call'[g].pc = "sign" => call'[g].n # new.serial
    BY <2>1, <2>3, <2>4, <2>6 DEF Fresh
  <2>8. /\ \A s \in signed' : s.serial < serial'
        /\ \A s, t \in signed' : s.serial = t.serial => s = t
    BY <2>1, <2>4, <2>5 DEF Fresh
  <2> QED
    BY <2>1, <2>4, <2>6, <2>7, <2>8 DEF Fresh
<1>4. ASSUME NEW h \in Requests, DrawFails(h)
      PROVE  Fresh'
  BY <1>4 DEF DrawFails, Fresh
<1>5. ASSUME NEW h \in Requests, RestartSerial(h)
      PROVE  Fresh'
  <2>1. call[h].pc = "restart" /\ raced' = raced /\ restarted' = restarted
    BY <1>5 DEF RestartSerial, history, signing
  <2> QED
    BY <2>1 DEF Fresh
<1> QED
  BY <1>1, <1>2, <1>3, <1>4, <1>5, OthersAreQuiet, QuietKeepsFresh

------------------------------------------------------------------------------
(* The CRL.                                                                  *)

(* Steps that revoke no row and that the rebuilds do not notice.             *)
CRLQuiet ==
    /\ crl' = crl /\ (stale => stale') /\ NoneRevoked
    /\ \A g \in Requests :
          \/ call'[g] = call[g]
          \/ call[g].pc \notin RebuildSteps /\ call'[g].pc \notin RebuildSteps

LEMMA QuietKeepsPublished ==
    ASSUME Solo, Published, CRLQuiet
    PROVE  Solo' /\ Published'
<1>1. Rebuilding' = Rebuilding
  BY DEF Rebuilding, CRLQuiet
<1>2. \A g \in Rebuilding : call'[g] = call[g]
  BY DEF Rebuilding, CRLQuiet
<1>3. crl' = crl /\ (stale => stale')
  BY DEF CRLQuiet
<1>4. \A s : AllIn(s) => \A c \in CNs :
          (cert'[c] # NoCert /\ cert'[c].revoked) => cert'[c].serial \in s
  BY DEF AllIn, CRLQuiet, NoneRevoked
<1>5. Solo'
  BY <1>1, <1>2, <1>3 DEF Solo
<1>6. \A h \in Rebuilding' : call'[h].solo =>
          /\ call'[h].pc \in {"number", "crl"} => AllIn(call[h].list)
          /\ call'[h].pc \in {"bump", "path", "attach"} => AllIn(crl.serials)
  BY <1>1, <1>2 DEF Published
<1>7. (~stale' /\ Rebuilding' = {}) => AllIn(crl.serials)
  BY <1>1, <1>3 DEF Published
<1>8. Published'
  BY <1>1, <1>2, <1>3, <1>4, <1>6, <1>7 DEF Published, AllIn
<1> QED
  BY <1>5, <1>8

(* A rebuild that starts leaves nobody solitary but, at most, itself.        *)
LEMMA EnterKeepsPublished ==
    ASSUME NEW h \in Requests,
           \A g \in Requests \ {h} : call'[g].pc = call[g].pc /\ call'[g].solo = FALSE,
           call'[h].pc = "rebuild", call'[h].solo = (Rebuilding = {}),
           call[h].pc \notin RebuildSteps,
           stale' = (stale \/ Rebuilding # {})
    PROVE  Solo' /\ Published'
<1>1. Rebuilding' = Rebuilding \cup {h} /\ h \notin Rebuilding
  BY DEF Rebuilding, RebuildSteps
<1>2. \A g \in Rebuilding' : call'[g].solo => g = h /\ Rebuilding = {}
  BY DEF Rebuilding
<1>3. ~stale' => Rebuilding' = {h} /\ call'[h].solo
  BY <1>1
<1>4. Solo'
  BY <1>1, <1>2, <1>3 DEF Solo
<1>5. Published'
  BY <1>1, <1>2 DEF Published
<1> QED
  BY <1>4, <1>5

(* A rebuild that gives up says so.                                          *)
LEMMA GiveUpKeepsPublished ==
    ASSUME Solo, Published, NEW h \in Requests, Alone(h), h \in Rebuilding,
           call'[h].pc = "idle", stale', cert' = cert, crl' = crl
    PROVE  Solo' /\ Published'
<1>1. Rebuilding' = Rebuilding \ {h}
  BY DEF Rebuilding, RebuildSteps, Alone
<1>2. \A g \in Rebuilding' : call'[g] = call[g]
  BY <1>1 DEF Alone, Rebuilding
<1>3. Solo'
  BY <1>1, <1>2 DEF Solo
<1>4. Published'
  BY <1>1, <1>2 DEF Published, AllIn
<1> QED
  BY <1>3, <1>4

(* One that goes on keeps what it has, and what it adds is complete.         *)
LEMMA GoOnKeepsPublished ==
    ASSUME Solo, Published, NEW h \in Requests, Alone(h), h \in Rebuilding,
           call'[h].pc \in RebuildSteps, call'[h].solo = call[h].solo,
           stale' = stale, cert' = cert,
           call'[h].pc \in {"number", "crl"} =>
              call'[h].list = Revoked \/ (call'[h].list = call[h].list /\ call[h].pc = "number"),
           \/ crl' = crl /\ (call'[h].pc \in {"bump", "path", "attach"} =>
                                call[h].pc \in {"bump", "path", "attach"})
           \/ call[h].pc = "crl" /\ crl'.serials = call[h].list
    PROVE  Solo' /\ Published'
<1>1. Rebuilding' = Rebuilding
  BY DEF Rebuilding, Alone
<1>2. \A g \in Rebuilding \ {h} : call'[g] = call[g]
  BY DEF Alone, Rebuilding
<1>3. Solo'
  BY <1>1, <1>2 DEF Solo
<1>4. AllIn(Revoked)
  BY DEF AllIn, Revoked
<1>5. call[h].solo =>
          /\ call'[h].pc \in {"number", "crl"} => AllIn(call'[h].list)
          /\ call'[h].pc \in {"bump", "path", "attach"} => AllIn(crl'.serials)
  BY <1>4 DEF Published
<1>6. \A g \in Rebuilding \ {h} : ~call'[g].solo
  BY <1>2 DEF Solo
<1>7. \A g \in Rebuilding' : call'[g].solo =>
          /\ call'[g].pc \in {"number", "crl"} => AllIn(call'[g].list)
          /\ call'[g].pc \in {"bump", "path", "attach"} => AllIn(crl'.serials)
  BY <1>1, <1>5, <1>6
<1>8. Published'
  BY <1>1, <1>7 DEF Published, AllIn
<1> QED
  BY <1>3, <1>8

LEMMA IssuesAreQuiet ==
    ASSUME TypeOK, NEW h \in Requests, IssueStep(h)
    PROVE  CRLQuiet
<1> USE DEF files, rows, history, signing
<1>1. crl' = crl /\ stale' = stale
  BY DEF IssueStep, FindCA, Import, InsertCA, RefreshCA, DrawSerial, DrawFails, StoreSerial,
         RestartSerial, Sign, FindRow, Upsert, Reread, Clear, WireRead, Wire
<1>2. NoneRevoked
  <2>1. CASE cert' = cert
    BY <2>1 DEF NoneRevoked
  <2>2. CASE Upsert(h)
    <3> DEFINE id == IF call[h].row = 0 THEN call[h].id ELSE call[h].row
               new == Reissued(call[h].cn, id, call[h].n)
    <3>1. cert' = cert \/ cert' = [cert EXCEPT ![call[h].cn] = new]
      BY <2>2 DEF Upsert
    <3>2. ~new.revoked
      BY DEF Reissued
    <3> HIDE DEF new
    <3> QED
      BY <3>1, <3>2 DEF NoneRevoked, TypeOK
  <2>3. CASE Clear(h)
    <3>1. cert' = cert \/ cert' = [cert EXCEPT ![call[h].cn].revoked = FALSE]
      BY <2>3 DEF Clear
    <3>2. ASSUME NEW c \in CNs, cert' = [cert EXCEPT ![c].revoked = FALSE], cert[c] \in Cert
          PROVE  NoneRevoked
      <4>1. cert'[c] = [cert[c] EXCEPT !.revoked = FALSE]
        BY <3>2 DEF TypeOK
      <4>2. ~cert'[c].revoked
        BY <4>1, <3>2 DEF Cert
      <4>3. \A d \in CNs \ {c} : cert'[d] = cert[d]
        BY <3>2 DEF TypeOK
      <4> QED
        BY <4>2, <4>3 DEF NoneRevoked
    <3>3. CASE call[h].cn \in CNs /\ cert[call[h].cn] # NoCert
      BY <2>1, <3>1, <3>2, <3>3 DEF TypeOK
    <3>4. CASE ~(call[h].cn \in CNs /\ cert[call[h].cn] # NoCert)
      <4>1. cert' = cert
        BY <2>3, <3>1, <3>4 DEF Clear, TypeOK
      <4> QED
        BY <2>1, <4>1
    <3> QED
      BY <3>3, <3>4
  <2> QED
    BY <2>1, <2>2, <2>3 DEF IssueStep, FindCA, Import, InsertCA, RefreshCA,
         DrawSerial, DrawFails, StoreSerial, RestartSerial, Sign, FindRow, Reread, WireRead, Wire
<1>3. call[h].pc \notin RebuildSteps /\ call'[h].pc \notin RebuildSteps
  BY IssueMoves DEF Issuing, RebuildSteps
<1> QED
  BY <1>1, <1>2, <1>3, IssueMoves DEF CRLQuiet, Alone

LEMMA MarkKeepsPublished ==
    ASSUME TypeOK, Solo, Published, NEW h \in Requests, Mark(h)
    PROVE  Solo' /\ Published'
<1>1. call[h].pc \notin RebuildSteps /\ crl' = crl
  BY DEF Mark, At, RebuildSteps, files
<1>2. CASE EnterRebuild(h, call[h])
  <2>1. call'[h].pc = "rebuild" /\ call'[h].solo = (Rebuilding = {})
    BY <1>2, EnterMoves, CallTypes
  <2>2. \A g \in Requests \ {h} : call'[g].pc = call[g].pc /\ call'[g].solo = FALSE
    BY <1>2, EnterMoves, CallTypes
  <2>3. stale' = (stale \/ Rebuilding # {})
    BY <1>2 DEF EnterRebuild
  <2> QED
    BY <1>1, <2>1, <2>2, <2>3, EnterKeepsPublished
<1>3. CASE Finish(h) /\ cert' = cert /\ stale' = stale
  <2>1. CRLQuiet
    BY <1>1, <1>3, FinishMoves DEF CRLQuiet, NoneRevoked, Alone, RebuildSteps
  <2> QED
    BY <2>1, QuietKeepsPublished
<1> QED
  BY <1>2, <1>3 DEF Mark

LEMMA RebuildKeepsPublished ==
    ASSUME TypeOK, Solo, Published, NEW h \in Requests, RevokeStep(h), ~Mark(h)
    PROVE  Solo' /\ Published'
<1> USE DEF files, rows, history, signing, At
<1>1. Alone(h) /\ h \in Rebuilding /\ cert' = cert
  BY RevokeMoves DEF Rebuilding, RevokeStep, FindCAOfCRL, ListRevoked, ReadNumber,
                     WriteCRL, BumpNumber, UpdateCACRL, AttachCRL, AttachFails
<1>2. CASE FindCAOfCRL(h)
  <2>1. CASE Goto(h, "list") /\ stale' = stale
    BY <1>1, <1>2, <2>1, GotoMoves, GoOnKeepsPublished DEF FindCAOfCRL, RebuildSteps
  <2>2. CASE Finish(h) /\ stale' = TRUE
    BY <1>1, <1>2, <2>2, FinishMoves, GiveUpKeepsPublished DEF FindCAOfCRL
  <2> QED
    BY <1>2, <2>1, <2>2 DEF FindCAOfCRL
<1>3. CASE ListRevoked(h)
  BY <1>1, <1>3, ListMoves, GoOnKeepsPublished DEF ListRevoked, RebuildSteps
<1>4. CASE ReadNumber(h)
  BY <1>1, <1>4, NumberMoves, GoOnKeepsPublished DEF ReadNumber, RebuildSteps
<1>5. CASE WriteCRL(h)
  <2>1. crl'.serials = call[h].list /\ stale' = stale /\ Goto(h, "bump") /\ call[h].pc = "crl"
    BY <1>5 DEF WriteCRL
  <2> QED
    BY <1>1, <2>1, GotoMoves, GoOnKeepsPublished DEF RebuildSteps
<1>6. CASE BumpNumber(h)
  BY <1>1, <1>6, GotoMoves, GoOnKeepsPublished DEF BumpNumber, RebuildSteps
<1>7. CASE UpdateCACRL(h)
  <2>1. CASE Goto(h, "attach") /\ stale' = stale
    BY <1>1, <1>7, <2>1, GotoMoves, GoOnKeepsPublished DEF UpdateCACRL, RebuildSteps
  <2>2. CASE Finish(h) /\ stale' = TRUE
    BY <1>1, <1>7, <2>2, FinishMoves, GiveUpKeepsPublished DEF UpdateCACRL
  <2> QED
    BY <1>7, <2>1, <2>2 DEF UpdateCACRL
<1>8. CASE AttachCRL(h) \/ AttachFails(h)
  <2>1. /\ crl' = crl /\ call[h].pc = "attach" /\ call'[h].pc = "idle"
        /\ stale' = (stale /\ ~call[h].solo)
    BY <1>8, FinishMoves DEF AttachCRL, AttachFails, Answer
  <2>2. CASE stale'
    BY <1>1, <2>1, <2>2, GiveUpKeepsPublished
  <2>3. CASE ~stale'
    <3>1. call[h].solo
      BY <1>1, <2>1, <2>3 DEF Solo
    <3>2. Rebuilding = {h} /\ AllIn(crl.serials)
      BY <1>1, <2>1, <3>1 DEF Solo, Published
    <3>3. Rebuilding' = {}
      BY <1>1, <2>1, <3>2 DEF Rebuilding, RebuildSteps, Alone
    <3> QED
      BY <1>1, <2>1, <3>2, <3>3 DEF Solo, Published, AllIn
  <2> QED
    BY <2>2, <2>3
<1> QED
  BY <1>2, <1>3, <1>4, <1>5, <1>6, <1>7, <1>8 DEF RevokeStep

LEMMA InstancesAreQuiet ==
    ASSUME TypeOK, NEW h \in Requests, InstanceStep(h)
    PROVE  CRLQuiet
<1>1. crl' = crl /\ stale' = stale /\ cert' = cert
  BY DEF InstanceStep, CreateInstance, DeleteInstance, PatchBegin, PatchWrite,
         files, rows, history
<1> QED
  BY <1>1, InstanceMoves DEF CRLQuiet, NoneRevoked, Alone, RebuildSteps

LEMMA ServeKeepsPublished ==
    ASSUME TypeOK, Solo, Published, NEW h \in Requests, Serve(h)
    PROVE  Solo' /\ Published'
<1> USE DEF files, rows, history, signing
<1>1. CASE RebuildBegin(h)
  <2>1. /\ call[h].pc = "idle" /\ call'[h].pc = "rebuild"
        /\ call'[h].solo = (Rebuilding = {})
    BY <1>1, RebuildMoves
  <2>2. \A g \in Requests \ {h} : call'[g].pc = call[g].pc /\ call'[g].solo = FALSE
    BY <1>1, RebuildMoves
  <2>3. stale' = (stale \/ Rebuilding # {})
    BY <1>1 DEF RebuildBegin, EnterRebuild
  <2>4. call[h].pc \notin RebuildSteps
    BY <2>1 DEF RebuildSteps
  <2> QED
    BY <2>1, <2>2, <2>3, <2>4, EnterKeepsPublished
<1>2. CASE Die(h)
  <2>1. Alone(h) /\ call'[h].pc = "idle"
    BY <1>2, FinishMoves DEF Die
  <2>2. CASE h \in Rebuilding
    BY <1>2, <2>1, <2>2, GiveUpKeepsPublished DEF Die
  <2>3. CASE h \notin Rebuilding
    <3>1. crl' = crl /\ cert' = cert /\ stale' = (stale \/ h \in Rebuilding)
      BY <1>2 DEF Die
    <3>2. stale' = stale
      BY <2>3, <3>1 DEF TypeOK
    <3>3. CRLQuiet
      BY <2>1, <2>3, <3>1, <3>2 DEF CRLQuiet, NoneRevoked, Alone, Rebuilding, RebuildSteps
    <3> QED
      BY <3>3, QuietKeepsPublished
  <2> QED
    BY <2>2, <2>3
<1>3. CASE ~RebuildBegin(h) /\ ~Die(h)
  <2>1. crl' = crl /\ stale' = stale
    BY <1>3 DEF Serve, RevokeBegin, IssueBegin, DeleteCA
  <2>2. NoneRevoked
    <3>1. cert' = cert \/ \A c \in CNs : cert'[c] = NoCert
      BY <1>3 DEF Serve, RevokeBegin, IssueBegin, DeleteCA
    <3> QED
      BY <3>1 DEF NoneRevoked
  <2>3. \/ call'[h] = call[h]
        \/ call[h].pc = "idle" /\ call'[h].pc \in {"ca", "mark"}
        \/ call[h].pc = "idle" /\ call'[h].pc = "idle"
    <3>1. call[h].pc = "idle" \/ call' = call
      BY <1>3 DEF Serve, RevokeBegin, IssueBegin, DeleteCA, Begin, At
    <3> QED
      BY <1>3, <3>1, ServeMoves
  <2>4. CRLQuiet
    BY <1>3, <2>1, <2>2, <2>3, ServeMoves DEF CRLQuiet, Alone, RebuildSteps
  <2> QED
    BY <2>4, QuietKeepsPublished
<1> QED
  BY <1>1, <1>2, <1>3

------------------------------------------------------------------------------
(* The instance.                                                             *)

(* Steps that neither touch the row nor are about to.                        *)
WireQuiet ==
    /\ inst' = inst /\ (loose => loose') /\ (loose' \/ ~ca'.crl \/ ca.crl)
    /\ \A g \in Requests : call'[g].pc \in {"wire", "patch"} =>
          /\ call'[g].pc = call[g].pc /\ call'[g].copy = call[g].copy
          /\ call'[g].op = call[g].op /\ call'[g].path = call[g].path

LEMMA QuietKeepsWired ==
    ASSUME Wired, WireQuiet
    PROVE  Wired'
BY DEF Wired, WireQuiet, At

LEMMA IssueKeepsWired ==
    ASSUME TypeOK, Wired, NEW h \in Requests, IssueStep(h)
    PROVE  Wired'
<1> USE DEF files, rows, history, signing, At
<1>1. Alone(h) /\ call'[h].pc # "patch"
  BY IssueMoves DEF Issuing
<1>2. (loose => loose') /\ (loose' \/ ~ca'.crl \/ ca.crl)
  <2>1. CASE RefreshCA(h)
    BY <2>1 DEF RefreshCA
  <2>2. CASE InsertCA(h)
    BY <2>2 DEF InsertCA
  <2>3. CASE ~RefreshCA(h) /\ ~InsertCA(h)
    <3>1. ca' = ca /\ loose' = loose
      BY <2>3 DEF IssueStep, FindCA, Import, DrawSerial, DrawFails, StoreSerial, RestartSerial,
                  Sign, FindRow, Upsert, Reread, Clear, WireRead, Wire
    <3> QED
      BY <3>1
  <2> QED
    BY <2>1, <2>2, <2>3
<1>3. CASE WireRead(h)
  <2>1. ca' = ca /\ inst' = inst
    BY <1>3 DEF WireRead
  <2>2. call'[h].pc = "wire" => (ca.crl => call'[h].copy)
    BY <1>3, WireReadMoves
  <2> QED
    BY <1>1, <1>2, <2>1, <2>2 DEF Wired, Alone
<1>4. CASE Wire(h)
  <2>1. /\ ca' = ca /\ call[h].pc = "wire"
        /\ inst' = inst \/ inst' = Row(TRUE, call[h].copy)
    BY <1>4 DEF Wire, Written
  <2>2. call'[h].pc = "idle"
    BY <1>4, FinishMoves DEF Wire
  <2>3. ~loose => (ca.crl /\ inst'.ca => inst'.crl)
    BY <2>1 DEF Wired, Row
  <2> QED
    BY <1>1, <1>2, <2>1, <2>2, <2>3 DEF Wired, Alone
<1>5. CASE ~WireRead(h) /\ ~Wire(h)
  <2>1. inst' = inst
    BY <1>5 DEF IssueStep, FindCA, Import, InsertCA, RefreshCA, DrawSerial, DrawFails,
                StoreSerial, RestartSerial, Sign, FindRow, Upsert, Reread, Clear
  <2>2. call'[h].pc # "wire"
    <3>1. CASE \/ FindCA(h) \/ InsertCA(h) \/ RefreshCA(h) \/ StoreSerial(h)
               \/ RestartSerial(h) \/ Sign(h) \/ Reread(h) \/ Clear(h)
      <4>1. \/ Goto(h, "draw") \/ Goto(h, "import") \/ Goto(h, "sign") \/ Goto(h, "find")
            \/ Goto(h, "clear") \/ Goto(h, "instance") \/ Finish(h)
        BY <3>1 DEF FindCA, InsertCA, RefreshCA, StoreSerial, RestartSerial, Sign, Reread, Clear
      <4> QED
        BY <4>1, GotoMoves, FinishMoves
    <3> QED
      BY <1>5, <3>1, ImportMoves, DrawMoves, DrawFailsMoves, FindRowMoves, UpsertMoves
         DEF IssueStep
  <2> QED
    BY <1>1, <1>2, <2>1, <2>2, QuietKeepsWired DEF WireQuiet, Alone
<1> QED
  BY <1>3, <1>4, <1>5

LEMMA RevokeKeepsWired ==
    ASSUME TypeOK, Wired, NEW h \in Requests, RevokeStep(h)
    PROVE  Wired'
<1> USE DEF files, rows, history, signing, At
<1>1. CASE Mark(h)
  <2>1. inst' = inst /\ ca' = ca /\ loose' = loose
    BY <1>1 DEF Mark
  <2>2. CASE EnterRebuild(h, call[h])
    <3>1. call'[h].pc = "rebuild"
      BY <2>2, EnterMoves, CallTypes
    <3>2. \A g \in Requests \ {h} :
              /\ call'[g].pc = call[g].pc /\ call'[g].copy = call[g].copy
              /\ call'[g].op = call[g].op /\ call'[g].path = call[g].path
      BY <2>2, EnterMoves, CallTypes
    <3> QED
      BY <2>1, <3>1, <3>2, QuietKeepsWired DEF WireQuiet
  <2>3. CASE Finish(h)
    BY <2>1, <2>3, FinishMoves, QuietKeepsWired DEF WireQuiet, Alone
  <2> QED
    BY <1>1, <2>2, <2>3 DEF Mark
<1>2. CASE ~Mark(h)
  <2>1. Alone(h) /\ call'[h].pc \notin {"wire", "patch"}
    BY <1>2, RevokeMoves DEF RebuildSteps
  <2>2. CASE AttachCRL(h)
    <3>1. /\ inst' = [inst EXCEPT !.crl = inst.crl \/ inst.ca] /\ ca' = ca
          /\ loose' = (loose /\ \E g \in Requests : call[g].pc \in {"wire", "patch"})
      BY <2>2 DEF AttachCRL, Attached
    <3>2. inst'.ca => inst'.crl
      BY <3>1 DEF TypeOK
    <3>3. CASE \E g \in Requests : call[g].pc \in {"wire", "patch"}
      BY <2>1, <3>1, <3>2, <3>3 DEF Wired, Alone, TypeOK
    <3>4. CASE ~ \E g \in Requests : call[g].pc \in {"wire", "patch"}
      BY <2>1, <3>2, <3>4 DEF Wired, Alone
    <3> QED
      BY <3>3, <3>4
  <2>3. CASE ~AttachCRL(h)
    <3>1. inst' = inst /\ (loose => loose') /\ (loose' \/ ~ca'.crl \/ ca.crl)
      <4>1. CASE UpdateCACRL(h)
        BY <4>1 DEF UpdateCACRL
      <4>2. CASE ~UpdateCACRL(h)
        <5>1. inst' = inst /\ ca' = ca /\ loose' = loose
          BY <1>2, <2>3, <4>2 DEF RevokeStep, FindCAOfCRL, ListRevoked, ReadNumber, WriteCRL,
                                  BumpNumber, AttachFails
        <5> QED
          BY <5>1
      <4> QED
        BY <4>1, <4>2
    <3> QED
      BY <2>1, <3>1, QuietKeepsWired DEF WireQuiet, Alone
  <2> QED
    BY <2>2, <2>3
<1> QED
  BY <1>1, <1>2

LEMMA ServeKeepsWired ==
    ASSUME TypeOK, Wired, NEW h \in Requests, Serve(h)
    PROVE  Wired'
<1> USE DEF files, rows, history, signing, At
<1>1. inst' = inst /\ loose' = loose /\ (~ca'.crl \/ ca.crl)
  <2>1. CASE DeleteCA(h)
    BY <2>1 DEF DeleteCA
  <2>2. CASE ~DeleteCA(h)
    BY <2>2 DEF Serve, RevokeBegin, IssueBegin, RebuildBegin, Die
  <2> QED
    BY <2>1, <2>2
<1>2. CASE RebuildBegin(h)
  <2>1. call'[h].pc = "rebuild"
    BY <1>2, RebuildMoves
  <2>2. \A g \in Requests \ {h} :
            /\ call'[g].pc = call[g].pc /\ call'[g].copy = call[g].copy
            /\ call'[g].op = call[g].op /\ call'[g].path = call[g].path
    BY <1>2, RebuildMoves
  <2> QED
    BY <1>1, <2>1, <2>2, QuietKeepsWired DEF WireQuiet
<1>3. CASE ~RebuildBegin(h)
  BY <1>1, <1>3, ServeMoves, QuietKeepsWired DEF WireQuiet, Alone
<1> QED
  BY <1>2, <1>3

LEMMA InstanceKeepsWired ==
    ASSUME TypeOK, Wired, NEW h \in Requests, InstanceStep(h)
    PROVE  Wired'
<1> USE DEF files, rows, history, signing, At
<1>1. Alone(h) /\ ca' = ca
  BY InstanceMoves DEF InstanceStep, CreateInstance, DeleteInstance, PatchBegin, PatchWrite
<1>2. ASSUME NEW uses \in BOOLEAN, NEW c \in CNs \cup {NoCN}, CreateInstance(h, uses, c)
      PROVE  Wired'
  <2>1. inst' = Row(uses, FALSE) /\ loose' = (loose \/ uses)
    BY <1>2 DEF CreateInstance
  <2>2. call'[h] = call[h] \/ call'[h].pc = "ca"
    <3> DEFINE r == [Idle EXCEPT !.pc = "ca", !.op = "create", !.cn = c, !.id = calls']
    <3>1. r.pc = "ca"
      BY DEF Idle
    <3>2. call' = call \/ call' = [call EXCEPT ![h] = r]
      BY <1>2 DEF CreateInstance
    <3> HIDE DEF r
    <3> QED
      BY <3>1, <3>2 DEF TypeOK
  <2> QED
    BY <1>1, <2>1, <2>2 DEF Wired, Alone, Row
<1>3. ASSUME NEW uses \in BOOLEAN, NEW op \in {"patch", "set"}, PatchBegin(h, op, uses)
      PROVE  Wired'
  <2>1. inst' = inst /\ loose' = loose /\ (op = "patch" => uses = inst.ca)
    BY <1>3 DEF PatchBegin
  <2> DEFINE r == [Idle EXCEPT !.pc = "patch", !.op = op, !.path = uses, !.copy = inst.crl]
  <2>2. r.pc = "patch" /\ r.op = op /\ r.path = uses /\ r.copy = inst.crl
    BY DEF Idle
  <2>3. call' = [call EXCEPT ![h] = r]
    BY <1>3 DEF PatchBegin
  <2> HIDE DEF r
  <2>4. call'[h] = r
    BY <2>3 DEF TypeOK
  <2> QED
    BY <1>1, <2>1, <2>2, <2>4 DEF Wired, Alone
<1>4. CASE DeleteInstance(h)
  BY <1>4 DEF DeleteInstance, NoInst, Wired
<1>5. CASE PatchWrite(h)
  <2>1. /\ inst' = inst \/ inst' = Row(call[h].path, call[h].copy)
        /\ loose' = (loose \/ call[h].op = "set") /\ call[h].pc = "patch"
    BY <1>5 DEF PatchWrite, Written
  <2>2. call'[h].pc = "idle"
    BY <1>5, FinishMoves DEF PatchWrite
  <2> DEFINE new == Row(call[h].path, call[h].copy)
  <2>3. new.ca = call[h].path /\ new.crl = call[h].copy
    BY DEF Row
  <2>4. inst' = inst \/ inst' = new
    BY <2>1
  <2> HIDE DEF new
  <2>5. ~loose' => (ca.crl /\ inst'.ca => inst'.crl)
    BY <2>1, <2>3, <2>4 DEF Wired
  <2> QED
    BY <1>1, <2>1, <2>2, <2>5 DEF Wired, Alone
<1> QED
  BY <1>2, <1>3, <1>4, <1>5 DEF InstanceStep

------------------------------------------------------------------------------
LEMMA NextKeepsInv == Inv /\ [Next]_vars => Inv'
<1> SUFFICES ASSUME Inv, [Next]_vars PROVE Inv'
  OBVIOUS
<1>1. Named' /\ Fresh'
  BY NamedKept, FreshKept DEF Inv
<1>2. CASE UNCHANGED vars
  <2>1. TypeOK'
    BY <1>2 DEF vars, rows, files, counters, history, signing, Inv, TypeOK
  <2>2. CRLQuiet /\ WireQuiet
    BY <1>2 DEF vars, rows, files, counters, history, signing, CRLQuiet, NoneRevoked, WireQuiet
  <2> QED
    BY <1>1, <2>1, <2>2, QuietKeepsPublished, QuietKeepsWired DEF Inv
<1>3. ASSUME NEW h \in Requests, IssueStep(h)
      PROVE  Inv'
  BY <1>1, <1>3, IssueKeepsTypes, IssuesAreQuiet, QuietKeepsPublished, IssueKeepsWired DEF Inv
<1>4. ASSUME NEW h \in Requests, RevokeStep(h)
      PROVE  Inv'
  BY <1>1, <1>4, RevokeKeepsTypes, MarkKeepsPublished, RebuildKeepsPublished,
     RevokeKeepsWired DEF Inv
<1>5. ASSUME NEW h \in Requests, Serve(h)
      PROVE  Inv'
  BY <1>1, <1>5, ServeKeepsTypes, ServeKeepsPublished, ServeKeepsWired DEF Inv
<1>6. ASSUME NEW h \in Requests, InstanceStep(h)
      PROVE  Inv'
  BY <1>1, <1>6, InstanceKeepsTypes, InstancesAreQuiet, QuietKeepsPublished,
     InstanceKeepsWired DEF Inv
<1> QED
  BY <1>2, <1>3, <1>4, <1>5, <1>6 DEF Next

LEMMA InvHolds == Spec => []Inv
BY InitInv, NextKeepsInv, PTL DEF Spec

(* Every variable has its type, whatever the interleaving of the calls.      *)
THEOREM TypeCorrect == Spec => []TypeOK
<1>1. Inv => TypeOK
  BY DEF Inv
<1> QED
  BY <1>1, InvHolds, PTL

(* Serials are unique as long as no two calls draw one at the same time and  *)
(* the serial file can be read: the file is ahead of every certificate that  *)
(* was signed, and a serial that was drawn is signed at most once.           *)
THEOREM UniqueSerials == Spec => []SerialsUnique
<1>1. Inv => SerialsUnique
  BY DEF Inv, Fresh, SerialsUnique
<1> QED
  BY <1>1, InvHolds, PTL

(* After a rebuild that ran alone, the CRL covers the revoked rows until     *)
(* another rebuild dies or meets one.                                        *)
THEOREM RevocationsListed == Spec => []RevokedIsListed
<1>1. Inv => RevokedIsListed
  BY DEF Inv, Published, AllIn, RevokedIsListed
<1> QED
  BY <1>1, InvHolds, PTL

(* From an attach that nobody's write of the row could undo on, the instance *)
(* that uses the CA checks the CRL, until the CA gets a new CRL path or a    *)
(* request names the CA in the instance.                                     *)
THEOREM ServersCheckTheCRL == Spec => []ServersCheckCRL
<1>1. Inv => ServersCheckCRL
  BY DEF Inv, Wired, ServersCheckCRL
<1> QED
  BY <1>1, InvHolds, PTL
===============================================================================
