----------------------------- MODULE MCMaintenance -----------------------------
(* Two certificates; an old program with an old companion, with a newer one, *)
(* without one, and a development build; an older release, a release         *)
(* candidate and its release, a release with bare programs, one with a bare  *)
(* program and no digests, one with digests of the programs only, one whose  *)
(* digests forget a program, and one whose digests forget the archive.       *)
EXTENDS Maintenance

Version(core, pre, age) == [core |-> core, pre |-> pre, age |-> age, dev |-> FALSE]
Development == [core |-> 0, pre |-> 0, age |-> 9, dev |-> TRUE]
Host(daemon, client) ==
    [p \in Programs |-> IF p = "openvpnd" THEN Program(daemon, TRUE, Missing) ELSE client]

Old == Version(1, 0, 2)
SomeInstalls == {
    Host(Old, Program(Old, TRUE, Missing)),
    Host(Old, Program(Version(2, 1, 3), TRUE, Missing)),
    Host(Old, Missing),
    Host(Development, Program(Old, TRUE, Missing))}
SomeReleases == {
    Release(Version(1, 1, 1), {"archive"}, {"archive"}),
    Release(Version(2, 1, 3), {"archive"} \cup Programs, {"archive"} \cup Programs),
    Release(Version(2, 0, 4), Programs, Programs),
    Release(Version(3, 0, 5), {"openvpnd"}, NoSums),
    Release(Version(4, 0, 6), {"archive"}, Programs),
    Release(Version(4, 0, 6), Programs, {"openvpnd"}),
    Release(Version(5, 0, 7), {"archive"}, {})}

(* A build of three commits after the release of version 1: its suffix makes *)
(* it older than that release.                                               *)
Described == {Host(Version(1, 3, 3), Missing)}
OneRelease == {Release(Old, {"archive"}, {"archive"})}
===============================================================================
