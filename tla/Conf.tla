--------------------------------- MODULE Conf ---------------------------------
(***************************************************************************)
(* OpenVPN configurations: what the daemon reads when it adopts or imports *)
(* one (confimport, adopt), what it fills in (instance.Prepare), and what  *)
(* it writes for OpenVPN (confgen.RenderInstance) and for the users of a   *)
(* server (RenderClientProfile).                                           *)
(*                                                                         *)
(* A configuration is its sequence of directives, each a keyword and its   *)
(* arguments; quotes, comments and white space are gone.  A file is what   *)
(* is in it, so that a path, an inline block and the file an import writes *)
(* for the block are one value.                                            *)
(*                                                                         *)
(* A node adopts a configuration it finds on its host, renders it, may     *)
(* lose its database and adopt what it rendered, and hands out profiles    *)
(* that another node imports, by API or by the console.                    *)
(***************************************************************************)
EXTENDS Naturals, Sequences, SequencesExt, FiniteSets

CONSTANTS
    Confs,          \* the configurations found on the host
    Patches,        \* [k, v]: the changes administrators make to a row
    Features,       \* the feature sets a row may name, each a sequence of directives
    MaxRounds,      \* bound: how often the database is lost, and the row patched
    NoRow, NoConf, Unset

VARIABLES
    conf,       \* the configuration on the host that is to be adopted
    row,        \* the instance it became
    file,       \* what the reconciler wrote for it
    profile,    \* a client profile of the instance
    peer,       \* the instance another node made of the profile
    rounds

vars == <<conf, row, file, profile, peer, rounds>>

------------------------------------------------------------------------------
D(k, v) == [k |-> k, v |-> v]
Flag(k) == <<D(k, <<>>)>>
Arg(k, v) == IF v = Unset THEN <<>> ELSE <<D(k, <<v>>)>>
Each(seq, Op(_)) == [i \in DOMAIN seq |-> Op(seq[i])]
Keywords(c) == {c[i].k : i \in DOMAIN c}
Lines(c, k) == {i \in DOMAIN c : c[i].k = k}

(* One value each: the row has a column for it, and the import fills it.     *)
Columns == {"proto", "port", "local", "device", "dev-type", "topology", "cipher",
            "data-ciphers", "auth", "ca", "cert", "key", "dh", "tls-crypt", "tls-auth"}
(* The row has columns for these too, but the import folds what it reads of  *)
(* them into the row's extra directives.  No number is written as none.      *)
Folded == {"max-clients", "tls-version-min", "tun-mtu", "sndbuf", "rcvbuf", "server-ipv6"}
Numbers == {"max-clients", "tun-mtu", "sndbuf", "rcvbuf"}
Number(k, v) == Arg(k, IF v = "0" THEN Unset ELSE v)
FoldedArgs(f) ==
    Number("max-clients", f["max-clients"]) \o Arg("tls-version-min", f["tls-version-min"])
    \o Number("tun-mtu", f["tun-mtu"]) \o Number("sndbuf", f["sndbuf"])
    \o Number("rcvbuf", f["rcvbuf"]) \o Arg("server-ipv6", f["server-ipv6"])

(* Mutant of Ignored: the list has no management lines.                      *)
IgnoredTooFew ==
    {"status", "writepid", "verb", "persist-key", "persist-tun", "script-security",
     "daemon", "user", "group", "chroot", "setenv opt", "keepalive"}

(* The daemon's own, dropped on import (ignorePrefixes), and every directive *)
(* that `setenv opt` makes optional.  Lines are compared in lower case, so   *)
(* the entry `setenv FORWARD_COMPATIBLE` drops none.                         *)
Ignored == {"management", "management-client-user", "management-client-group", "status",
            "writepid", "verb", "persist-key", "persist-tun", "persist-local-ip",
            "persist-remote-ip", "script-security", "daemon", "user", "group", "chroot",
            "setenv opt", "keepalive"}

(* The type of a device that is named by its type; others have no type.      *)
DevKind(v) == CASE v \in {"tun", "tun7"} -> "tun" [] v \in {"tap", "tap7"} -> "tap"
                [] OTHER -> Unset

(* The two words `setenv opt` are one keyword, as they are to the import.    *)
Directives ==
    {d \in [k : STRING, v : Seq(STRING)] : d.k = "setenv" => d.v = <<>> \/ d.v[1] # "opt"}

ASSUME ConfAssumption ==
    /\ MaxRounds \in Nat
    /\ Confs \subseteq Seq(Directives) /\ Features \subseteq Seq(Directives)
    /\ Patches \subseteq [k : Columns \cup Folded, v : STRING]
    /\ Unset \notin {"client", "server", "net-auto", "ours", "udp", "tun", "tap", "1194",
                     "GCM", "SHA256", "ourCert"}

------------------------------------------------------------------------------
(* confimport.Parse                                                          *)

NoResult ==
    [role |-> Unset, col |-> [k \in Columns |-> Unset], static |-> FALSE,
     fold |-> [k \in Folded |-> Unset], network |-> Unset, remotes |-> <<>>,
     routes |-> <<>>, dns |-> <<>>, domain |-> Unset, redirect |-> FALSE,
     plugins |-> <<>>, pushed |-> <<>>, extra |-> <<>>, inline |-> <<>>]

(* dhcp-option DOMAIN wins over its variants; the arguments of a pushed      *)
(* redirect-gateway are not kept; other pushes are.                          *)
ParsePush(r, v) ==
    CASE v[1] = "redirect-gateway" -> [r EXCEPT !.redirect = TRUE]
      [] v[1] = "DNS" -> [r EXCEPT !.dns = Append(@, v[2])]
      [] v[1] \in {"DOMAIN", "DOMAIN-SEARCH"} ->
            IF v[1] = "DOMAIN" \/ r.domain = Unset THEN [r EXCEPT !.domain = v[2]] ELSE r
      [] v[1] = "route" -> [r EXCEPT !.routes = Append(@, v[2])]
      [] OTHER -> [r EXCEPT !.pushed = Append(@, D("push", v))]

ParseRole(r, d) ==
    CASE d.k = "client" -> [r EXCEPT !.role = "client"]
      [] d.k = "server" -> [r EXCEPT !.role = "server", !.network = d.v[1]]
      [] d.k = "mode" -> IF d.v[1] = "server" THEN [r EXCEPT !.role = "server"] ELSE r
      [] d.k = "tls-server" -> IF r.role = Unset THEN [r EXCEPT !.role = "server"] ELSE r
      [] d.k = "tls-client" -> IF r.role = Unset THEN [r EXCEPT !.role = "client"] ELSE r

(* remote host [port] [proto]; its protocol is a default for the whole.      *)
ParseRemote(r, v) ==
    LET rem == [host |-> v[1], port |-> IF Len(v) > 1 THEN v[2] ELSE "1194",
                proto |-> IF Len(v) > 2 THEN v[3] ELSE Unset]
    IN [r EXCEPT !.remotes = Append(@, rem),
                 !.col["proto"] = IF @ = Unset THEN rem.proto ELSE @]

(* A bare tun or tap is a type, any other value is the name of a device.     *)
ParseDev(r, v) ==
    IF v[1] \in {"tun", "tap"} THEN [r EXCEPT !.col["dev-type"] = v[1]]
    ELSE [r EXCEPT !.col["device"] = v[1],
                   !.col["dev-type"] = IF DevKind(v[1]) = Unset THEN @ ELSE DevKind(v[1])]

(* Mutant of ParseValue: the first of two lines counts.                      *)
FirstCounts(r, d) ==
    IF d.k \in Columns THEN [r EXCEPT !.col[d.k] = IF @ = Unset THEN d.v[1] ELSE @]
    ELSE [r EXCEPT !.fold[d.k] = d.v[1]]

(* The first argument is kept, the last line counts.                         *)
ParseValue(r, d) ==
    IF d.k \in Columns THEN [r EXCEPT !.col[d.k] = d.v[1]]
    ELSE [r EXCEPT !.fold[d.k] = d.v[1]]

(* ExtractInlineBlocks: a block is a directive whose keyword is in brackets. *)
ParseBlock(r, d) == [r EXCEPT !.inline = Append(@, d)]

ParseLine(r, d) ==
    CASE d.k \in Ignored -> r
      [] d.k = "<>" -> ParseBlock(r, d)
      [] d.k \in {"client", "server", "mode", "tls-server", "tls-client"} -> ParseRole(r, d)
      [] d.k = "lport" -> ParseValue(r, D("port", d.v))
      [] d.k \in (Columns \ {"device"}) \cup Folded ->
            IF d.k = "dh" /\ d.v[1] = "none" THEN r ELSE ParseValue(r, d)
      [] d.k = "dev" -> ParseDev(r, d.v)
      [] d.k = "secret" -> [r EXCEPT !.col["tls-auth"] = d.v[1], !.static = TRUE]
      [] d.k = "remote" -> ParseRemote(r, d.v)
      [] d.k = "push" -> ParsePush(r, d.v)
      [] d.k = "plugin" -> [r EXCEPT !.plugins = Append(@, d)]
      [] d.k = "redirect-gateway" ->
            [r EXCEPT !.redirect = TRUE, !.extra = IF d.v = <<>> THEN @ ELSE Append(@, d)]
      [] OTHER -> [r EXCEPT !.extra = Append(@, d)]

InferredRole(r) ==
    IF r.role # Unset THEN r.role
    ELSE IF r.remotes # <<>> THEN "client"
    ELSE IF r.network # Unset THEN "server" ELSE Unset

Parse(c) ==
    LET r == FoldLeft(ParseLine, NoResult, c) IN
    [r EXCEPT !.role = InferredRole(r), !.extra = r.pushed \o r.extra]

(* Mutant of Materialize1: either block of a static key makes the key of a   *)
(* tunnel without certificates.                                              *)
StaticByHeader(r, b) ==
    IF b.v[1] \in {"secret", "tls-crypt"}
    THEN [r EXCEPT !.col["tls-auth"] = b.v[2], !.static = TRUE]
    ELSE IF b.v[1] \in {"extra-certs", "tls-crypt-v2"}
    THEN [r EXCEPT !.extra = Append(@, D(b.v[1], <<b.v[2]>>))]
    ELSE [r EXCEPT !.col[b.v[1]] = b.v[2]]

(* Result.Materialize: every block becomes a file and its path a column, or, *)
(* for two kinds of block, a directive.                                      *)
Materialize1(r, b) ==
    LET tag == b.v[1] body == b.v[2] IN
    CASE tag = "secret" -> [r EXCEPT !.col["tls-auth"] = body, !.static = TRUE]
      [] tag \in {"extra-certs", "tls-crypt-v2"} ->
            [r EXCEPT !.extra = Append(@, D(tag, <<body>>))]
      [] OTHER -> [r EXCEPT !.col[tag] = body]

Materialize(r) == [FoldLeft(Materialize1, r, r.inline) EXCEPT !.inline = <<>>]

(* Result.ToCreateRequest                                                    *)
ToCreateRequest(r) ==
    [r EXCEPT !.extra = @ \o FoldedArgs(r.fold), !.fold = NoResult.fold]

------------------------------------------------------------------------------
(* instance.Prepare, for the columns a configuration has: checks, defaults.  *)

Protos == {"udp", "tcp", "udp4", "tcp4", "udp6", "tcp6"}
Or(v, default) == IF v = Unset THEN default ELSE v

Rejected(r) ==
    \/ r.role = Unset
    \/ Or(r.col["proto"], "udp") \notin Protos
    \/ Or(r.col["dev-type"], "tun") \notin {"tun", "tap"}
    \/ r.role = "server" /\ Or(r.col["topology"], "subnet") \notin {"subnet", "net30", "p2p"}
    \/ r.role = "server" /\ r.remotes # <<>>
    \/ r.role = "client" /\ (r.remotes = <<>> \/ r.network # Unset)
    \/ \E k \in {"ca", "cert", "key", "tls-crypt", "dh", "tls-auth"} : r.col[k] = "relative"

(* The defaults are only for servers with certificates; a leaf is issued     *)
(* when the request has none.                                                *)
Prepared(r) ==
    LET server == r.role = "server"
        pki == server /\ ~r.static
        col == [r.col EXCEPT
                  !["proto"] = Or(@, "udp"), !["dev-type"] = Or(@, "tun"),
                  !["topology"] = IF server THEN Or(@, "subnet") ELSE @,
                  !["port"] = IF server THEN Or(@, "1194") ELSE @,
                  !["data-ciphers"] =
                      IF pki /\ r.col["cipher"] = Unset THEN Or(@, "GCM") ELSE @,
                  !["auth"] = IF pki THEN Or(@, "SHA256") ELSE @]
        issue == pki /\ col["cert"] = Unset /\ col["key"] = Unset
    IN [role |-> r.role, static |-> r.static, remotes |-> r.remotes,
        network |-> IF server THEN Or(r.network, "net-auto") ELSE Unset,
        routes |-> r.routes, dns |-> r.dns, domain |-> r.domain, redirect |-> r.redirect,
        plugins |-> r.plugins, typed |-> NoResult.fold, features |-> <<>>, extra |-> r.extra,
        col |-> IF issue THEN [col EXCEPT !["ca"] = "ourCA", !["cert"] = "ourCert",
                                          !["key"] = "ourKey",
                                          !["tls-crypt"] = Or(@, "ourTC")]
                ELSE col]

Imported(c) == ToCreateRequest(Materialize(Parse(c)))

------------------------------------------------------------------------------
(* confgen.RenderInstanceOpts, in the order of the file.                     *)

RenderHead(i) ==
    i.plugins
    \o (IF i.col["device"] # Unset
        THEN Arg("dev", i.col["device"]) \o Arg("dev-type", Or(i.col["dev-type"], "tun"))
        ELSE Arg("dev", Or(i.col["dev-type"], "tun")))
    \o Arg("proto", Or(i.col["proto"], "udp"))
    \o (IF i.col["local"] # Unset THEN Arg("local", i.col["local"])
        ELSE IF i.role = "server" /\ Or(i.col["proto"], "udp") \in {"udp", "udp4", "udp6"}
        THEN Flag("multihome") ELSE <<>>)

RenderServer(i) ==
    Arg("port", Or(i.col["port"], "1194")) \o Arg("mode", "server") \o Flag("tls-server")
    \o Arg("server", i.network)
    \o Arg("topology", Or(i.col["topology"], "subnet"))
    \o Arg("client-config-dir", "ours") \o Flag("ccd-exclusive")
    \o Each(i.routes, LAMBDA n : D("push", <<"route", n>>))
    \o Each(i.dns, LAMBDA a : D("push", <<"DNS", a>>))
    \o (IF i.domain = Unset THEN <<>> ELSE <<D("push", <<"DOMAIN", i.domain>>)>>)
    \o (IF i.redirect THEN <<D("push", <<"redirect-gateway", "def1">>)>> ELSE <<>>)
    \o Flag("duplicate-cn")

RenderClient(i) ==
    Flag("client") \o Flag("tls-client") \o Flag("nobind") \o Arg("remote-cert-tls", "server")
    \o Arg("resolv-retry", "infinite")
    \o Each(i.remotes, LAMBDA r :
          D("remote", IF r.proto = Unset THEN <<r.host, r.port>> ELSE <<r.host, r.port, r.proto>>))

(* StaticKeyPath is the static key of a tunnel without certificates, and the *)
(* tls-auth key of one with them.                                            *)
RenderCrypto(i) ==
    IF i.static THEN Arg("secret", i.col["tls-auth"])
    ELSE Arg("ca", i.col["ca"]) \o Arg("cert", i.col["cert"]) \o Arg("key", i.col["key"])
         \o (IF i.role = "server" THEN Arg("dh", Or(i.col["dh"], "none")) ELSE <<>>)
         \o Arg("tls-crypt", i.col["tls-crypt"]) \o Arg("tls-auth", i.col["tls-auth"])

RenderCiphers(i) ==
    Arg("cipher", i.col["cipher"]) \o Arg("data-ciphers", i.col["data-ciphers"])
    \o Arg("auth", i.col["auth"])

RenderTyped(i) == FoldedArgs(i.typed)

RenderOwned ==
    Arg("keepalive", "10 60") \o Flag("persist-key") \o Flag("persist-tun")
    \o Arg("tmp-dir", "ours") \o Arg("writepid", "ours") \o Arg("status", "ours")
    \o Arg("management", "ours") \o Arg("management-client-user", "root") \o Arg("verb", "2")

(* features.Expand: the row's own directives, then those of its features.    *)
Expand(i) == i.extra \o i.features

RenderInstance(i) ==
    RenderHead(i) \o (IF i.role = "server" THEN RenderServer(i) ELSE RenderClient(i))
    \o RenderCrypto(i) \o RenderCiphers(i) \o RenderTyped(i) \o RenderOwned \o Expand(i)

------------------------------------------------------------------------------
(* confgen.RenderClientProfile with the material of the client loaded.       *)

ProfileRefused(i) == i.col["ca"] = Unset

(* Mutant of ProfileCiphers: the digest of the row is not looked at.         *)
FixedDigest(i) == Arg("cipher", "GCM") \o Arg("data-ciphers", "GCM") \o Arg("auth", "SHA256")

ProfileCiphers(i) ==
    LET data == Or(i.col["data-ciphers"], "GCM") IN
    Arg("cipher", Or(i.col["cipher"], data)) \o Arg("data-ciphers", data)
    \o Arg("data-ciphers-fallback", "CBC") \o Arg("auth", Or(i.col["auth"], "SHA256"))

Block(tag, v) == IF v = Unset THEN <<>> ELSE <<D("<>", <<tag, v>>)>>

RenderClientProfile(i) ==
    LET proto == Or(i.col["proto"], "udp") IN
    Flag("client") \o Arg("dev", Or(i.col["dev-type"], "tun")) \o Arg("proto", proto)
    \o <<D("remote", <<"endpoint", Or(i.col["port"], "1194")>>)>>
    \o Arg("resolv-retry", "infinite") \o Flag("nobind") \o Flag("persist-key")
    \o Flag("persist-tun") \o Arg("remote-cert-tls", "server") \o Flag("auth-nocache")
    \o Arg("verb", "3") \o Arg("ignore-unknown-option", "data-ciphers")
    \o (IF proto \in {"udp", "udp4", "udp6"} THEN Arg("explicit-exit-notify", "1") ELSE <<>>)
    \o ProfileCiphers(i) \o Flag("float") \o Arg("reneg-sec", "0")
    \o Block("ca", i.col["ca"]) \o Block("cert", "clientCert") \o Block("key", "clientKey")
    \o Block("tls-crypt", i.col["tls-crypt"])

------------------------------------------------------------------------------
(* The console has a parser of its own for profiles (tui parseClientProfile) *)
(* and fills the create form with the result.                                *)

Kept == {"remote-cert-tls", "verb", "nobind", "resolv-retry", "persist-key", "persist-tun",
         "explicit-exit-notify", "mssfix", "tun-mtu", "sndbuf", "rcvbuf", "comp-lzo",
         "compress", "pull", "auth-nocache", "redirect-gateway"}

ConsoleLine(r, d) ==
    CASE d.k = "remote" -> ParseRemote(r, d.v)
      [] d.k \in {"dev", "dev-type"} ->
            IF DevKind(d.v[1]) = Unset THEN r ELSE [r EXCEPT !.col["dev-type"] = DevKind(d.v[1])]
      \* the expressions for paths match lines with one argument
      [] d.k \in {"proto", "cipher", "auth", "ca", "cert", "key", "tls-crypt", "tls-auth"} ->
            IF Len(d.v) = 1 THEN ParseValue(r, d) ELSE r
      [] d.k = "data-ciphers" -> ParseValue(r, d)
      [] d.k = "secret" ->
            IF Len(d.v) = 1 THEN [r EXCEPT !.col["tls-auth"] = d.v[1], !.static = TRUE] ELSE r
      [] d.k \in Kept -> [r EXCEPT !.extra = Append(@, d)]
      [] OTHER -> r

ConsoleBlock(r, d) ==
    IF d.k # "<>" \/ d.v[1] \in {"dh", "extra-certs", "tls-crypt-v2"} THEN r
    ELSE Materialize1(r, d)

ConsoleImported(c) ==
    LET r == FoldLeft(ConsoleLine, NoResult, c)
    IN [FoldLeft(ConsoleBlock, r, c) EXCEPT !.role = "client"]

------------------------------------------------------------------------------
Init ==
    /\ conf \in Confs
    /\ row = NoRow /\ file = NoConf /\ profile = NoConf /\ peer = NoRow
    /\ rounds = 0

(* POST /v1/instances/adopt, or import of the same text.                     *)
Adopt ==
    /\ row = NoRow /\ conf # NoConf
    /\ LET request == Imported(conf) IN
       /\ ~Rejected(request)
       /\ row' = Prepared(request)
    /\ UNCHANGED <<conf, file, profile, peer, rounds>>

(* The reconciler renders the row; the material of profiles follows.         *)
Render ==
    /\ row # NoRow
    /\ file' = RenderInstance(row)
    /\ UNCHANGED <<conf, row, profile, peer, rounds>>

(* PATCH of a column, or of the feature sets: the row has its own life now,  *)
(* what was rendered and handed out is renewed.                              *)
Patch(p) ==
    /\ row # NoRow /\ rounds < MaxRounds
    /\ row' = IF p.k \in Columns THEN [row EXCEPT !.col[p.k] = p.v]
              ELSE [row EXCEPT !.typed[p.k] = p.v]
    /\ rounds' = rounds + 1
    /\ conf' = NoConf /\ file' = NoConf /\ profile' = NoConf /\ peer' = NoRow

AddFeature(f) ==
    /\ row # NoRow /\ rounds < MaxRounds
    /\ row' = [row EXCEPT !.features = @ \o f]
    /\ rounds' = rounds + 1
    /\ conf' = NoConf /\ file' = NoConf /\ profile' = NoConf /\ peer' = NoRow

(* The database is lost; the rendered file is still there and its process    *)
(* runs, so discovery offers it.                                             *)
LoseDatabase ==
    /\ file # NoConf /\ rounds < MaxRounds
    /\ conf' = file
    /\ row' = NoRow /\ file' = NoConf /\ profile' = NoConf /\ peer' = NoRow
    /\ rounds' = rounds + 1

HandOut ==
    /\ row # NoRow /\ row.role = "server" /\ ~row.static /\ ~ProfileRefused(row)
    /\ profile' = RenderClientProfile(row)
    /\ UNCHANGED <<conf, row, file, peer, rounds>>

(* Another node imports the profile by API (TRUE) or by its console.         *)
ImportProfile(api) ==
    /\ profile # NoConf
    /\ LET request == IF api THEN Imported(profile) ELSE ConsoleImported(profile) IN
       /\ ~Rejected(request)
       /\ peer' = Prepared(request)
    /\ UNCHANGED <<conf, row, file, profile, rounds>>

Next ==
    \/ Adopt \/ Render \/ LoseDatabase \/ HandOut
    \/ \E p \in Patches : Patch(p)
    \/ \E f \in Features : AddFeature(f)
    \/ \E api \in BOOLEAN : ImportProfile(api)

Spec == Init /\ [][Next]_vars

------------------------------------------------------------------------------
(* What OpenVPN makes of a configuration: of a keyword with one value the    *)
(* last line counts, of the others every line.                               *)
Repeated == {"remote", "push", "plugin", "route", "setenv"}
Normal(d) == IF d.k = "remote" /\ Len(d.v) = 1 THEN D(d.k, Append(d.v, "1194")) ELSE d
Said(c, k) == {Normal(c[i]) : i \in Lines(c, k)}
Value(c, k) == IF Lines(c, k) = {} THEN Unset ELSE c[Max(Lines(c, k))].v

(* What the import does not keep: what is the daemon's own, what `setenv opt` *)
(* makes optional, roles and types (stated below by what follows from them), *)
(* the local port and topology of a client, the direction given with a       *)
(* tls-auth key, pushed search domains, and redirect-gateway, pushed or      *)
(* bare, whose flags are replaced.                                           *)
Lost(d, i) ==
    \/ d.k \in Ignored \cup {"client", "mode", "tls-server", "tls-client", "dev-type", "lport",
                             "redirect-gateway", "<>"}
    \/ d.k \in {"port", "topology"} /\ i.role = "client"
    \/ d.k = "tls-auth" /\ Len(d.v) > 1
    \/ d.k = "push" /\ d.v[1] \in {"DOMAIN-SEARCH", "DOMAIN", "redirect-gateway"}

(* A number of zero asks for the default, as no line does.                   *)
SaidIn(c, f, d) ==
    IF d.k \in Repeated THEN Normal(d) \in Said(f, d.k)
    ELSE \/ Value(f, d.k) = Value(c, d.k)
         \/ d.k \in Numbers /\ Value(c, d.k) = <<"0">> /\ Value(f, d.k) = Unset

(* Prepared rows are of one role and have what it needs; a column the import *)
(* folds into the extra directives is only set by a change of the row, and a *)
(* profile makes a client with certificates.                                 *)
TypeOK ==
    /\ rounds \in 0..MaxRounds
    /\ row # NoRow =>
         /\ row.role \in {"server", "client"}
         /\ row.role = "client" => row.remotes # <<>> /\ row.network = Unset
         /\ row.role = "server" => row.remotes = <<>> /\ row.network # Unset
         /\ \A k \in Folded : row.typed[k] # Unset => rounds > 0
    /\ peer # NoRow => peer.role = "client" /\ ~peer.static

(* What an adopted configuration says, the file the daemon renders in its    *)
(* place says too, but for what is Lost: the running server is replaced by   *)
(* one that is configured like it, on the first adoption and on that of a    *)
(* file of the daemon's own.  Inline blocks become files (Materialize),      *)
(* whatever API.md:152 says of them.                                         *)
SaidIsKept ==
    conf # NoConf /\ file # NoConf =>
        /\ \A i \in DOMAIN conf : ~Lost(conf[i], row) => SaidIn(conf, file, conf[i])
        /\ \A i \in DOMAIN conf :
              conf[i].k = "<>" => Value(file, conf[i].v[1]) = <<conf[i].v[2]>>

(* The process answers to the daemon: its management socket, pid file and    *)
(* status file are the daemon's whatever was adopted.  (client-config-dir    *)
(* and tmp-dir are not among what the import drops: an adopted one comes     *)
(* after the daemon's and counts.)                                           *)
OursControl ==
    file # NoConf =>
        /\ \A k \in {"management", "writepid", "status"} : Value(file, k) = <<"ours">>
        /\ \A k \in {"tmp-dir", "client-config-dir"} :
              Value(file, k) \in {<<"ours">>, Unset} \/ k \in Keywords(row.extra)

(* No feature set has lines of these, as none of features.Builtin has: what  *)
(* an administrator adds by hand may still take the process away.            *)
Control == {"management", "writepid", "status", "tmp-dir", "client-config-dir"}
FeaturesLeaveControl == \A f \in Features : Keywords(f) \cap Control = {}

(* A node that imports the profile of a server, by either parser, connects   *)
(* to it: port, protocol and device, digest and ciphers, authority and       *)
(* control channel key are the server's.  (Profiles have no tls-auth key.)   *)
ProfileFits ==
    peer # NoRow =>
        LET server == RenderInstance(row) client == RenderInstance(peer) IN
        /\ \A k \in {"proto", "auth", "ca", "tls-crypt"} : Value(client, k) = Value(server, k)
        /\ \A k \in {"cipher", "data-ciphers"} :
              Value(server, k) \in {Unset, Value(client, k)}
        /\ row.col["dev-type"] = peer.col["dev-type"]
        /\ Said(client, "remote") = {D("remote", <<"endpoint">> \o Value(server, "port"))}

(* What a profile takes from the columns of a row: no preset sets it besides.*)
(* The API takes any PATCH of a column; the changes made here leave the      *)
(* device of a type and the digest a digest.  (With none, the server would   *)
(* fall back on that of OpenVPN and the profile on the daemon's.)            *)
Transport == {"proto", "port", "remote", "ca", "tls-crypt", "cipher", "data-ciphers", "auth"}
FeaturesLeaveTransport == \A f \in Features : Keywords(f) \cap Transport = {}
PatchesAreDefinite ==
    \A p \in Patches : /\ p.k = "dev-type" => p.v \in {"tun", "tap"}
                       /\ p.k = "auth" => p.v # Unset

(* Configurations that say each thing in one way: every line has the words   *)
(* its keyword takes, and no two lines, or a line and a block, say one thing *)
(* differently where the import and OpenVPN count them differently.          *)
InlineTags == {"ca", "cert", "key", "tls-crypt", "tls-auth", "secret", "dh", "extra-certs",
               "tls-crypt-v2"}
Names(d, k) == d.k = k \/ (d.k = "<>" /\ d.v[1] = k)
Named(c, k) == \E i \in DOMAIN c : Names(c[i], k)
Pushed(d) == d.k = "push" /\ d.v[1] \in {"DNS", "route"}
OneWord == (Columns \ {"device", "tls-auth"}) \cup Folded \cup {"dev", "server", "secret"}
DevTypes == {"tun", "tap"}

PlainLine(d) ==
    /\ d.k \in OneWord => Len(d.v) = 1
    /\ d.k = "tls-auth" => Len(d.v) > 0
    /\ d.k = "remote" => Len(d.v) \in 1..3
    /\ Pushed(d) => Len(d.v) = 2
    /\ d.k = "<>" => Len(d.v) = 2 /\ d.v[1] \in InlineTags
    /\ d.k \in OneWord \cup {"tls-auth", "remote", "<>"} =>
         \A n \in 1..Len(d.v) : d.v[n] # Unset

PlainPair(d, e) ==
    /\ d.k = "dev" /\ e.k = "dev" => d.v = e.v
    /\ d.k = "dev" /\ e.k = "dev-type" /\ d.v[1] \in DevTypes => d.v = e.v
    /\ d.k = "dh" /\ e.k = "dh" => (d.v[1] = "none" <=> e.v[1] = "none")
    /\ d.k = "tls-auth" /\ e.k = "tls-auth" => (Len(d.v) = 1 <=> Len(e.v) = 1)
    /\ d.k = "<>" /\ e.k = "<>" /\ d.v[1] = e.v[1] => d.v[2] = e.v[2]
    /\ d.k = "<>" /\ d.v[1] = e.k => e.k = "tls-auth" /\ Len(e.v) > 1

Plain(c) ==
    /\ \A i \in DOMAIN c : PlainLine(c[i])
    /\ \A i, j \in DOMAIN c : PlainPair(c[i], c[j])
    /\ \/ ~Named(c, "secret")
       \/ \A k \in {"ca", "cert", "key", "dh", "tls-crypt", "tls-auth"} : ~Named(c, k)
    /\ \/ /\ Named(c, "remote") /\ ~Named(c, "dh")
          /\ \A i \in DOMAIN c : ~Pushed(c[i])
       \/ /\ ~Named(c, "remote") /\ (~Named(c, "port") \/ ~Named(c, "lport"))
          /\ Named(c, "ca") => Named(c, "cert") \/ Named(c, "key")

(* What is adopted says each thing in one way, and what is added to a row by *)
(* features and changes leaves it so.                                        *)
Elsewhere == (Columns \ {"device"}) \cup {"dev", "server", "secret", "remote", "<>", "lport"}
OwnLine(d) == PlainLine(d) /\ ~Pushed(d) /\ d.k \notin Elsewhere
ConfsArePlain == \A c \in Confs : Plain(c) \/ Rejected(Imported(c))
FeaturesArePlain == \A f \in Features : \A i \in DOMAIN f : OwnLine(f[i])
PatchesArePlain ==
    \A p \in Patches : /\ p.k = "device" => p.v \notin DevTypes
                       /\ p.k \in {"cert", "key"} => p.v # Unset

(* Comment at render.go:176: the direction of a tls-auth key is preserved by *)
(* the extra directives of an import.                                        *)
KeyDirectionKept ==
    conf # NoConf /\ file # NoConf =>
        \A i \in DOMAIN conf :
            conf[i].k = "tls-auth" /\ Len(conf[i].v) = 2 =>
                \/ conf[i].v \in {file[j].v : j \in Lines(file, "tls-auth")}
                \/ Value(file, "key-direction") = <<conf[i].v[2]>>

(* What an administrator sets on a row is what OpenVPN is told.              *)
PatchCounts ==
    file # NoConf =>
        \A k \in Folded : row.typed[k] # Unset => Value(file, k) = <<row.typed[k]>>

(* A static key excludes the roles of TLS, which OpenVPN refuses together.   *)
StaticKeyStarts ==
    file # NoConf /\ "secret" \in Keywords(file) =>
        Keywords(file) \cap {"tls-server", "tls-client", "client"} = {}
===============================================================================
