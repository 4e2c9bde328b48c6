-------------------------------- MODULE MCConf --------------------------------
(* Configurations: one of five bases with any two of the fragments that      *)
(* administrators add to one, the second of which may repeat a keyword.      *)
EXTENDS Conf, TLC

Tls == <<D("ca", <<"ca1">>), D("cert", <<"crt1">>), D("key", <<"key1">>)>>
InlineTls == <<D("<>", <<"ca", "ca2">>), D("<>", <<"cert", "crt2">>), D("<>", <<"key", "key2">>)>>

Bases == {
    <<D("port", <<"1194">>), D("dev", <<"tun">>), D("server", <<"net1">>)>> \o Tls,
    <<D("mode", <<"server">>), D("tls-server", <<>>), D("dev", <<"tun7">>),
      D("proto", <<"tcp">>)>> \o InlineTls,
    <<D("server", <<"net1">>), D("dev", <<"vpn0">>), D("dev-type", <<"tap">>)>>,
    <<D("client", <<>>), D("dev", <<"tap7">>), D("remote", <<"host1">>)>> \o InlineTls,
    <<D("dev", <<"tun">>), D("remote", <<"host1", "443", "tcp">>), D("secret", <<"psk">>)>>}

ServerFragments == {
    <<D("remote", <<"host3">>)>>,
    <<D("dh", <<"relative">>)>>, <<D("dh", <<"dh1">>)>>,
    <<D("push", <<"route", "lan1">>), D("push", <<"DNS", "dns1">>)>>,
    <<D("push", <<"DOMAIN-SEARCH", "corp1">>), D("push", <<"block-outside-dns">>)>>,
    <<D("push", <<"redirect-gateway", "local">>)>>,
    <<D("client-config-dir", <<"theirs">>), D("tmp-dir", <<"theirs">>)>>,
    <<D("max-clients", <<"20">>), D("server-ipv6", <<"net6">>)>>,
    <<D("port", <<"443">>), D("topology", <<"net30">>)>>}
ClientFragments == {
    <<D("remote", <<"host2", "443", "tcp">>)>>,
    <<D("remote", <<"host2", "443", "tcp4">>), D("lport", <<"5000">>)>>,
    <<D("redirect-gateway", <<"def1">>)>>}
AnyFragments == {
    <<>>,
    <<D("proto", <<"tcp4">>)>>,
    <<D("management", <<"theirs">>), D("status", <<"theirs">>), D("writepid", <<"theirs">>),
      D("setenv opt", <<"block-outside-dns">>)>>,
    <<D("cipher", <<"CBC">>), D("auth", <<"SHA1">>)>>,
    <<D("data-ciphers", <<"CHACHA">>), D("auth", <<"SHA512">>)>>,
    <<D("tun-mtu", <<"1400">>), D("tls-version-min", <<"1.2">>)>>,
    <<D("tun-mtu", <<"1300">>), D("sndbuf", <<"0">>)>>,
    <<D("plugin", <<"p1">>), D("route", <<"lan2">>), D("setenv", <<"SITE", "hq">>)>>,
    <<D("local", <<"addr1">>)>>}
TlsFragments == {
    <<D("tls-auth", <<"ta1", "1">>)>>,
    <<D("<>", <<"tls-auth", "ta2">>), D("key-direction", <<"1">>)>>,
    <<D("<>", <<"tls-crypt", "tc2">>)>>, <<D("<>", <<"extra-certs", "ec2">>)>>}

IsClient(c) == \E i \in DOMAIN c : c[i].k = "remote"
IsStatic(c) == \E i \in DOMAIN c : c[i].k = "secret"
Fragments(c) == AnyFragments \cup (IF IsStatic(c) THEN {} ELSE TlsFragments)
                             \cup (IF IsClient(c) THEN ClientFragments ELSE ServerFragments)
SomeConfs == UNION {{b \o f \o g : f, g \in Fragments(b)} : b \in Bases}

SomePatches == {[k |-> "proto", v |-> "tcp6"], [k |-> "auth", v |-> "SHA384"], [k |-> "tun-mtu", v |-> "1200"]}

(* Presets of features.Builtin.                                              *)
SomeFeatures == {<<D("tls-version-min", <<"1.2">>), D("tls-groups", <<"X25519">>)>>,
                 <<D("script-security", <<"2">>), D("auth-user-pass-verify", <<"script">>)>>}

(* What FoldProofs asks of the sets of feature directives holds of the presets, *)
(* and what it asks of changes and configurations of those here.                *)
ASSUME PresetsLeaveControl == FeaturesLeaveControl /\ FeaturesLeaveTransport
ASSUME ChangesAreDefinite == PatchesAreDefinite
ASSUME AllArePlain == ConfsArePlain /\ FeaturesArePlain /\ PatchesArePlain
===============================================================================
