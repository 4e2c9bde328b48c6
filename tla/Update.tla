--------------------------------- MODULE Update ---------------------------------
(***************************************************************************)
(* `openvpnd update` and `openvpnctl update`, one at a time: a release is  *)
(* fetched, its files are checked against SHA256SUMS, and the program and  *)
(* the companion in the same directory are replaced.                       *)
(***************************************************************************)
EXTENDS Integers, Sequences

CONSTANTS
    Releases,       \* what is published (see Release)
    Installs,       \* the programs at the beginning (see Program)
    MaxUpdates,     \* bound: commands that are begun
    MaxBad,         \* bound: downloads that are not the published file
    Missing, NoSums

ASSUME UpdateAssumption == {MaxUpdates, MaxBad} \subseteq Nat

Programs == {"openvpnd", "openvpnctl"}

ASSUME InstallsAssumption == \A b \in Installs : b = [p \in Programs |-> b[p]]

VARIABLES
    bins,           \* the two programs
    job,            \* the command that runs
    updates, bad

updateVars == <<bins, job, updates, bad>>

NoJob == [todo |-> <<>>]
Program(version, genuine, release) ==
    [version |-> version, genuine |-> genuine, release |-> release]

------------------------------------------------------------------------------
(* A version is its numbers (core), its suffix (pre: 0 when it has none,     *)
(* else its place in the order of strings), whether it is a development      *)
(* build, and when it was built (age), which no program knows.               *)
CompareVersions(a, b) ==
    CASE a.dev /\ b.dev -> 0
      [] a.dev /\ ~b.dev -> -1
      [] ~a.dev /\ b.dev -> 1
      [] OTHER -> IF a.core # b.core THEN (IF a.core < b.core THEN -1 ELSE 1)
                  ELSE IF a.pre = b.pre THEN 0
                  ELSE IF a.pre = 0 THEN 1
                  ELSE IF b.pre = 0 THEN -1
                  ELSE IF a.pre < b.pre THEN -1 ELSE 1

(* Mutant of IsNewer: another version is a newer one.                        *)
IsOther(candidate, current) == CompareVersions(candidate, current) # 0

IsNewer(candidate, current) == CompareVersions(candidate, current) > 0

(* A release has the archive of this platform or bare programs, and may have *)
(* SHA256SUMS, which list the archive and the programs or some of them.      *)
Release(version, assets, sums) == [version |-> version, assets |-> assets, sums |-> sums]

Listed(release, name) == release.sums # NoSums /\ name \in release.sums

(* A listed file has the listed digest.                                      *)
Verified(release, name, fakes) ==
    Listed(release, name) =>
        name \notin fakes /\ ("archive" \in release.assets => "archive" \notin fakes)

(* What is downloaded: the archive if there is one, else the bare programs.  *)
Planned(release) ==
    IF "archive" \in release.assets THEN {"archive"} ELSE Programs \cap release.assets

(* The programs of an archive, checked each where SHA256SUMS list it.        *)
FromArchive(release, fakes) ==
    IF \A name \in {"archive"} \cup Programs : Verified(release, name, fakes)
    THEN Programs ELSE {}

(* Bare programs, each of which SHA256SUMS have to list if there are any.    *)
FromBinaries(release, fakes) ==
    IF \A p \in Planned(release) :
          Verified(release, p, fakes) /\ (release.sums = NoSums \/ Listed(release, p))
    THEN Planned(release) ELSE {}

Offered(release, fakes) ==
    IF "archive" \in release.assets THEN FromArchive(release, fakes)
    ELSE FromBinaries(release, fakes)

------------------------------------------------------------------------------
(* A program that is not older than the release, and no development build,   *)
(* is left alone unless a version was asked for.                             *)
Wanted(release, current, explicit) ==
    explicit \/ current.dev \/ IsNewer(release.version, current)

(* Apply until the first program is installed.  What was downloaded may not  *)
(* be what was published with the digests.                                   *)
UpdateBegin(self, release, explicit, fakes) ==
    /\ job = NoJob /\ updates < MaxUpdates /\ updates' = updates + 1
    /\ bins[self] # Missing /\ Wanted(release, bins[self].version, explicit)
    /\ self \in Offered(release, fakes)
    /\ IF fakes = {} THEN UNCHANGED bad ELSE bad < MaxBad /\ bad' = bad + 1
    /\ LET companion == Programs \ {self}
           genuine(p) == fakes \cap {"archive", p} = {}
       IN job' = [self |-> self, explicit |-> explicit,
                  new |-> [p \in Programs |-> Program(release.version, genuine(p), release)],
                  todo |-> <<self>> \o
                     (IF companion \subseteq Offered(release, fakes)
                      THEN <<CHOOSE p \in companion : TRUE>> ELSE <<>>)]
    /\ UNCHANGED bins

(* Each program is replaced by a rename; a companion that is missing is not  *)
(* made.                                                                     *)
Install(p) ==
    /\ job.todo # <<>> /\ p = Head(job.todo)
    /\ bins' = IF bins[p] = Missing THEN bins ELSE [bins EXCEPT ![p] = job.new[p]]
    /\ job' = IF Len(job.todo) = 1 THEN NoJob ELSE [job EXCEPT !.todo = Tail(@)]
    /\ UNCHANGED <<updates, bad>>

(* An error, or the end of the process: one program is replaced or none.     *)
UpdateFails ==
    /\ job # NoJob
    /\ job' = NoJob
    /\ UNCHANGED <<bins, updates, bad>>

UpdateInit ==
    /\ bins \in Installs
    /\ job = NoJob /\ updates = 0 /\ bad = 0

UpdateNext ==
    \/ \E self \in Programs, r \in Releases, explicit \in BOOLEAN :
          \E fakes \in {{}} \cup {{a} : a \in Planned(r)} :
             UpdateBegin(self, r, explicit, fakes)
    \/ \E p \in Programs : Install(p)
    \/ UpdateFails

------------------------------------------------------------------------------
(* No digest was compared with the file that p comes from.  There are no     *)
(* SHA256SUMS; or the release has an archive, and they name neither that nor *)
(* p, which installs it all the same.                                        *)
Unlisted(release, p) ==
    IF "archive" \in release.assets THEN ~Listed(release, "archive") /\ ~Listed(release, p)
    ELSE release.sums = NoSums

(* Where SHA256SUMS name the archive, or the program itself, a program is    *)
(* only ever replaced by a file of that digest.  An archive that they do not *)
(* name is installed unverified, and so is anything without SHA256SUMS       *)
(* (Unlisted).  Unless a version was asked for or the program is a           *)
(* development build, an update of a program is to a newer one; a missing    *)
(* companion stays missing.                                                  *)
UpdatesAreSound ==
    [][\A p \in Programs :
         bins'[p] # bins[p] =>
            /\ bins[p] # Missing
            /\ bins'[p].genuine \/ Unlisted(bins'[p].release, p)
            /\ (p = job.self /\ ~job.explicit /\ ~bins[p].version.dev) =>
                  bins'[p].version.age > bins[p].version.age]_updateVars

(* docs/INSTALL.md:53: SHA256SUMS are verified when the release includes     *)
(* them.                                                                     *)
SumsAreVerified ==
    [][\A p \in Programs :
         bins'[p] # bins[p] => bins'[p].genuine \/ bins'[p].release.sums = NoSums]_updateVars
===============================================================================
