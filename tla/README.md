# openvpnd in TLA+

This directory models openvpnd, a daemon that supervises OpenVPN server and
client processes from a SQLite database, an HTTP API and a periodic
reconciler.  It holds TLA+ modules translated from the Go source, TLC
configurations that check them on small instances, and theorems that TLAPS
proves for every value of the constants.

- `X.tla` models a component, `MCX.tla` with its `.cfg` files checks it with
  TLC, `XProofs.tla` holds its theorems.  Two modules of proofs are shared:
  `ClientProofs` (`Peers`, `ProfileTokens`) and `FoldProofs` (`Lifetime`, `Conf`,
  and of `Bandwidth` that a sequence of commands is a chain of kernels).
- `PROJECT.json` lists the components, the runs, the source lines behind every
  definition, the hazards of the code, the findings and the theorems.

Run `tlc -config MCPeers.cfg MCPeers.tla` to check a model, `tlapm
InstancesProofs.tla` to check a proof module.

## 1. Inventory

### 1.1 The system's parts

| Part | State | Operations | Talks to |
|---|---|---|---|
| Store (`internal/db`) | SQLite tables: instances, clients, cas, certificates, profile_tokens, events, samples; WAL | one SQL statement per method; read-modify-write where a method or handler uses two | called by everything; `AddEvent` calls the webhook hook |
| Reconciler (`internal/reconcile`) | mutex, `prevUp`, `prevConn`; statistics cache | `RunOnce`, `Loop` (ticker), `applyInstance` per row | store, host backend, management sockets, bandwidth, cache, events |
| Host backend (`internal/ovpnbackend`) | mutex, `managed[name]` = {desired, pid, cmd}; conf and pid files; openvpn processes; one reaper goroutine per child | `EnsureInstance`, `StopInstance`, `RemoveInstance`, `ListLive`, `Management`, `Close` | kernel (`/proc`, signals), OpenVPN management |
| API (`internal/api`) | none of its own; one goroutine per request | instance, client, PKI, profile, backup, feature handlers | store, backend, `ForceReconcile` |
| Policy (`internal/policy`) | none | `ShouldAutoSuspend`, quota arithmetic | called twice per reconcile |
| Counters (`internal/stats`) | durable `lifetime_rx/tx`, `last_raw_*` | `AccumulateLifetime`, reset | called by the reconciler |
| Webhook (`internal/webhook`) | bounded channel, `closed`, `done`, worker goroutine | `Emit`, `Start`, `loop`, `Close` | event hook of the store; HTTP POST to the controller |
| Profile links (`internal/db/tokens.go`, `api/handlers_profile.go`) | profile_tokens rows | mint, list, revoke, public download | store, PKI files |
| PKI (`internal/pki`, `db/pki.go`, `api/handlers_pki.go`) | files: `serial`, `crl_number`, `ca.crl`, `*.crt`, `*.key`; rows cas, certificates | create/delete CA, issue, renew, revoke, rebuild CRL | file system and store with no common lock |
| Bandwidth (`internal/bandwidth`) | `applied` cache per instance, class ids; tc state in the kernel | apply, clear, remove instance | `tc` |
| Instance preparation (`internal/instance`, `netutil`) | none | next free name, port, network, host address; checks and defaults | store lists |
| Adoption (`internal/adopt`), import (`internal/confimport`) | foreign processes and confs | discover, parse, materialise keys, insert, stop foreign, start own | backend, store |
| Rendering (`internal/confgen`, `internal/features`) | conf files | `RenderInstance`, `RenderClientProfile`, expansion of feature sets | read by OpenVPN, by users and by other nodes |
| Backup (`internal/backup`) | archive of database, log, time series, PKI and conf directories | backup (command or API), restore | the files of a daemon that may be running |
| Self update (`internal/update`) | the two programs on disk | check, download, verify, replace | GitHub |
| Daemon (`internal/daemon`) | servers, signal context | start, shutdown order | all of the above |
| SNMP, metrics, TUI, CLIs, configuration files | views and clients | read | API, cache |

### 1.2 What is hard about it

*Concurrency.*  Every request is a goroutine; the reconciler is another; each
child process has a reaper; the webhook has a worker.  There are two mutexes
that matter (`Reconciler.mu`, `HostBackend.mu`) and they are never held by
handlers across store calls, so handlers read rows, decide and write back while
reconciles and other handlers run.

*Snapshots.*  A reconcile lists the rows once and works through the copy: rows
may be disabled, deleted or re-created before their turn comes.

*Failure.*  Processes exit, hang or cannot start; management does not answer;
the daemon crashes and comes back to processes that still run; OpenVPN's
counters restart at zero.

*Caches.*  The enforcer believes a device has what it once applied; an adopted
process is believed to run the configuration it was started with; a backup
believes that the log it copies belongs to the database it has copied.

*Order.*  CCD files, sessions and rows of one peer are changed by different
actors in different orders; the webhook worker stops before its producers do;
a use of a link is counted before it is delivered.

### 1.3 What makes each part correct

- Supervision: at most one process per instance, across crashes; a disabled
  instance is down; what runs is what was configured; the reconciler catches
  up; healthy processes are left alone.
- Peers: a suspended peer ends up without a session and unable to open one; a
  limit that is passed ends in suspension; CCD files end up as the rows say;
  nobody is suspended for somebody else's row.
- Counters: nobody is charged for bytes that were not moved; totals do not drop.
- Webhook: in order, at most once, nothing accepted is forgotten, never blocks
  the reconciler, shutdown ends.
- Profile links: each use is counted; limits hold up to concurrency; dead links
  serve nothing.
- PKI: serials are unique; a revoked certificate is on the CRL; CRL numbers
  grow; a certificate and its key belong together.
- Bandwidth: what the kernel has is what the rows say, and nothing else.
- Preparation: what the daemon chooses is free; an adopted instance is not
  started beside the process it takes over, and nothing but OpenVPN is signalled.
- Rendering and import: what a configuration says survives adoption, rendering
  and another adoption; the daemon keeps its own control lines; a profile fits
  the server it was made for.
- Backup: an archive is a state the daemon was in; a restore gives it back.
- Update: programs are replaced by verified and newer ones.

## 2. Plan

Order of the modules; those with a tick are here.

1. [x] `Instances`: reconciler, host backend, instance handlers, crash.
2. [x] `Peers`: admission, suspension, CCD.
3. [x] `Lifetime`: durable counters.
4. [x] `Webhook`: event delivery and shutdown order.
5. [x] `ProfileTokens`: links.
6. [x] `PKI`: serials, certificate rows and files, CRL.
7. [x] `Bandwidth`: the enforcer's cache against the kernel's rules.
8. [x] `Conf`: adoption, rendering, profiles and their import as functions on
   directives, composed to the ways a configuration takes.
9. [x] `Provision`: choose-or-check, then insert, for instances and clients; the
   take-over of a foreign process.
10. [x] `Backup`, `Update`, and `Maintenance`, which checks both: archives and
    restores that stop half way, releases that are not what they should be.
11. [x] `Delivery`: the abstract queue that `Webhook` implements.
12. [ ] A reconcile in progress when `backend.Close` stops the processes.
13. [ ] Functions: `SafeCNFilename`, OID order and GETNEXT.

Abstract specifications still worth stating: a *usage ledger* that `Lifetime`
implements (bytes moved, bytes charged, charged never above moved), and a
*supervised service* (up, down, changing) that `Instances` implements per
instance.

Theorems: the type invariant of each module and every safety invariant and
action property of a run is proved.

## 3. What is modelled

### 3.1 `Instances`

| TLA+ | Code |
|---|---|
| `row` | instances table: the enabled flag and the configuration |
| `proc` | openvpn processes; `ready` is a management socket that answers |
| `managed` | `HostBackend.managed`: `conf` is `st.desired`, `pid` and `cmd` as there |
| `child` | which reaper goroutine waits for which process |
| `rec` | the reconcile in progress: its snapshot, what it has still to do |
| `call` | API handlers between two of their store or backend calls |
| `known` | `prevUp` and the cache's `Up` |

A configuration is a value that stands for the hash of the rendered file
together with the binary's path.  The methods of the backend hold its mutex, so
each is one step: `EnsureDisabled`, `EnsureKeep`, `EnsureStart` and its ways to
fail are the paths through `EnsureInstance`.  `RemoveInstance` is two lock
sections and therefore two steps.  A handler is a sequence of steps separated
by its store and backend calls; `ForceReconcile` is a wait for the reconciler's
mutex.  `Crash` forgets everything in memory, keeps rows and processes, and
drops calls.

Abstractions: pids are not reused while a handle or a reaper refers to them;
the pid file is folded into the search by configuration path; instances of a
snapshot are processed in any order; a request that is cancelled in the middle
of a reconcile is a skipped instance; foreign servers are in `Provision`, and
`Exclusive` is left out.

### 3.2 `Peers`

Rows of clients (`peer`), the CCD files as `none`, `allow`, `disable` (`ccd`),
the live sessions (`connected`), whether a peer's limit has been passed, and a
reconcile in its phases: the first policy check, the CCD files, the status
query, and per client the second policy check and the kill.  Handlers suspend,
resume, patch, create (with issue and roll back), delete.  OpenVPN admits a
client with an `allow` file, as `ccd-exclusive` makes it.  The instance is
enabled and runs.

### 3.3 `Lifetime`

`AccumulateLifetime` with every place of `applyInstance` that calls it, for one
direction of traffic: per client and for the instance, whose raw counter is the
sum over the sessions.  Sessions come, move bytes and go, several of one name at
a time if they like, because every rendered server has `duplicate-cn`
(render.go:412); of those the sample reads the one that is listed last.  The
server restarts, the daemon restarts, management is absent, an administrator
resets a client.  `traffic` and `shared` are history: what each client has
moved, and which clients have had two sessions at once.

### 3.4 `Webhook`

`AddEvent` with its hook, `Emit` (checks of `closed` and `done`, then the
non-blocking send), the worker, the signal that cancels its context, the
shutdown of the servers, `Close`.  The kind filter and the payload are left
out: only events that match are emitted.

`Delivery` is what all of this promises: an event is accepted or dropped when it
is offered, what is accepted is tried once and in order, and the worker does not
leave before.  `Webhook!Promise` is the mapping: an event is offered when `Emit`
has decided on it (one that was added and not decided is subtracted), and it is
pending until its POST has ended, in the worker's hands or in the channel.

### 3.5 `ProfileTokens`

One common name: its client row, its links, and downloads as the sequence
SELECT and checks, UPDATE, render.  Links are revoked, expire and die with
their client; the material needed to render comes and goes.

### 3.6 `PKI`

One CA, one server instance and the leaf certificates of one kind.  The files
(`serial`, `crlNumber`, `crl`, `leaf`) and the rows (`ca`, `cert`, `inst`) are
separate state, and `call` is where each handler is between two file accesses
or statements: `issueAndStore` with the re-import of a CA whose row was
deleted, the renewal that clears a revocation, `issue-server-cert`, POST and
PATCH that write their copy of the instance back, the revocation and the rebuild
of the CRL.  A call may die between any two steps (`Die`): the request's context
is that of the client, and any statement or write may fail.  Two errors the code
does not look at: of reading the serial file (`DrawFails`) and of attaching the
CRL path (`AttachFails`).

| TLA+ | Code |
|---|---|
| `FindCA`, `Import`, `InsertCA`, `RefreshCA` | `issueAndStore` and `UpsertCA` |
| `DrawSerial`, `StoreSerial` | `nextSerial`: read the file, replace the file |
| `DrawFails`, `RestartSerial` | `nextSerial` when it cannot read the file: 2, and the file begins again |
| `Sign` | `Issue`: the certificate in its file |
| `FindRow`, `Upsert`, `Reread` | `UpsertCertificate`, three statements |
| `Clear` | `handleRenewCert` that finds the row revoked |
| `WireRead`, `Wire` | `handleIssueServerCert` after the issue, and `createInstanceFromRequest` when it issues |
| `CreateInstance`, `PatchBegin`, `PatchWrite`, `DeleteInstance` | the instance handlers, as far as a row names a CA and a CRL |
| `Written` | `UpdateInstance`: all columns, by name |
| `RevokeBegin`, `Mark` | `handleRevokeCert` up to the rebuild |
| `FindCAOfCRL` ... `AttachCRL`, `AttachFails` | `rebuildCRLForCA`, `RebuildCRL` |

History variables say when a promise is off.  `raced`: two calls were between
reading and replacing the serial file at the same time.  `restarted`: the file
could not be read, and numbers began at 2 again.  `stale`: since the last rebuild
that ran alone, one died or met another one, or a re-import wrote back an older
`crl_path`.  `loose`: since the last attach that nobody's pending write of the
instance's row could undo, the CA got a CRL path or a POST or PATCH named the CA
in the instance, which sets `pki_ca_path` and no `pki_crl_path`.  `barred`: for
which leaves a revoke has answered OK.  Files are replaced atomically, as
`writeFile0600` does by renaming, though two writers share the temporary name;
certificate and key are one file; tls-crypt keys are left out, and `CreateCA`
is the initial state because it refuses a name whose files exist.

### 3.7 `Bandwidth`

| TLA+ | Code |
|---|---|
| `instance`, `peers` | the instance's device, role and ceiling; the limits, addresses and suspension of its clients |
| `kernel` | what `tc` has set up, by device: default class, classes, filters, ingress policers |
| `book`, `ceiling`, `next` | `Enforcer.applied`, `devices`, `nextCls` |
| `run` | a `syncBandwidth` of one instance, with the rows its reconcile has read |
| `Plan`, `RemoveRules`, `PlanDevice`, `RemoveDeviceRules` | the rules of the same names, as sequences of commands |
| `Exec`, `Tc` | what a command does to a device (external), folded over a sequence |
| `Unshape`, `Apply`, `SyncDevice` | `Remove`, `Apply`, `SyncDevice`; a sync goes over the peers in the order of their names |
| `ClearEnd` | the end of `ClearInstance`, which removes the peers of a disabled or deleted instance with `Unshape` before |

An apply runs its commands until one fails; an undo ignores what fails.  The
properties say that an address has exactly the rates of the peer that has it, so
a filter left behind, a class reused or a command in the wrong order shows.
`hurt` records which of six events happened and a run chooses which of them
excuse (`Excused`): a failed command (residue stays), a device that was
re-created under its name (the enforcer skips equal limits), a renamed device,
a ceiling on a server (it shares the root qdisc and class 1:10 with the peers),
class ids that wrapped, and a restarted daemon.  Ids have wrapped from the draw
on that takes the counter back to the first, be the id applied or not.  An undo
fails by itself, in `Unshape` and `ClearDevice`; where an apply undoes what it
replaces, only the new commands fail.  Rates are numbers, class ids
run from 10 to a small bound instead of 9000, bursts are left out, and mode
`log`, which runs nothing, is not modelled.

### 3.8 `Conf`

A configuration is a sequence of directives [keyword, arguments]; a file is what
is in it.  `Parse`, `Materialize`, `ToCreateRequest`, `Rejected`, `Prepared`,
`RenderInstance`, `RenderClientProfile` and `ConsoleImported` are functions
translated line by line of the switch they stand for, and the actions chain them
the way a deployment does: a configuration found on a host is adopted, rendered,
the database may be lost and the rendered file adopted again; a column or a
feature set may be changed; a profile is handed out and imported by another
node, by API or by the console's own parser.  What OpenVPN makes of a file
(`Value`, `Said`: of a keyword with one value the last line counts) belongs to
the properties.

`Lost` names what an import does not keep, with the properties excused for
exactly that: the direction given with a tls-auth key, pushed search domains,
the flags of redirect-gateway, a client's lport and topology, and every line that
begins with `setenv opt`, which the import drops (parse.go:82).  Inline blocks are
kept: creating or adopting an instance materialises them as files
(`materialize`), and only the preview of an import skips them, as
docs/API.md:152 says of all imports.  An adopted
client-config-dir or tmp-dir is kept among the extra directives, comes after the
daemon's and counts, which `OursControl` excuses.  Not in the model: crl-verify,
bridges, hooks, the shaper, script-security and quoting; a CA is assumed to
exist when a leaf is to be issued; a profile is for an instance with a CA.

### 3.9 `Provision`

| TLA+ | Code |
|---|---|
| `rows`, `clients` | the two tables; names and common names are unique, nothing else is |
| `material` | of which request the keys in `imported/<name>` are |
| `calls` | where each handler is between its reads, its insert, its reconciles and its looks at a process |
| `proc` | foreign processes by pid; `gen` tells one process from the next with the same pid |
| `managed` | instances that have a process of the daemon after a reconcile |
| `Context`, `Prepare` | `buildInstanceContext`, `instance.Prepare` |
| `Issue`, `Wire` | the end of a create that issues a certificate: read the row, write every column back by name |
| `PatchBegin`, `PatchWrite` | `handleUpdateInstance`: the same, from before the body is read to after it |
| `Columns`, `Written` | what `UpdateInstance` writes of a row: all columns, `enabled` too |
| `Inspect` ... `Reap` | `adopt.StopProcess`: each look at `/proc` and each signal a step |

`sure` is history: no row was written since the handler read what is taken.
`over` and `up` are history too: the process an instance takes over, until the
stop fails, and whether somebody else brought the instance up.  A write-back that
turns a disabled row into an enabled one counts as that: the row may be another
one than was read, deleted and adopted again under the name.  Foreign
processes come and go only while a handler has one to look at, because nothing
else in the model depends on them; and a behaviour handles instances or clients
at a time, which share no state (`NoClients`, `NoInstances`).  Networks are
blocks of consecutive addresses, as prefixes are; names and ports are numbers.  Configurations are in `Conf`,
certificates in `PKI`.

### 3.10 `Backup`, `Update`, `Maintenance`

`Backup`: a database is the number of rows it has, certificate n being on disk
before row n is inserted; a log is [from, to], the rows it adds.  Rows are
inserted, the log is checkpointed in part or truncated, the daemon closes or is
killed and opens again.  A backup copies database, log, certificates and
configuration one after the other next to all of that, a restore writes them
one after the other and may stop in between.  `Recover` is what SQLite reads
back (external): rows of a log that does not belong to the database make a
`Torn` one.  `whole` and `least` say what an archive promises, `stale` that a
log was left which the archive does not have, or that a log could not be written.
A `-wal` is outside what an unforced restore refuses to overwrite: the refusal
looks at the database, and the log beside it is written with no question asked
(backup.go:326).

`Update`: versions with their order, releases with an archive or bare programs
and digests for all, some or none of them, downloads that are not what was
published, the two installs and an end between them.  `Unlisted` is where no digest
is compared: there are no SHA256SUMS, or they name neither the archive nor the
program (update.go:174); such an archive is installed, while a bare program that
they do not name is refused (update.go:213).  One command runs at a time.

`Maintenance` is their composition.  They share no state, so it lets a behaviour
do one or the other: the product would add nothing but states.

## 4. Runs

| Run | Instance | Shows | States |
|---|---|---|---|
| `instances` | 1 instance, 1 configuration, 3 pids, 2 handlers, 2 calls of any kind, 1 failure, 1 crash | one process, right handles, disabled is down, healthy is left alone | 444,291 |
| `instances_live` | 1 instance, 2 configurations, 1 handler, 2 calls, 1 failure, fairness | what was applied runs; the reconciler converges | 133,429 |
| `peers` | 1 peer, 2 handlers, 2 calls, 1 failure, fairness | barred peers are out, verdicts hit the judged row, suspension and limits are enforced in the end, CCD files converge | 649,007 |
| `lifetime` | 2 clients, 2 sessions each | no overcharge of a client that never had two sessions at once; totals never drop | 2,350,764 |
| `webhook` | 2 emitters, channel of 2, shutdown at any moment, fairness | order, at most once, accepted is tried, `Delivery` is implemented with its fairness, Close ends | 83,116 |
| `profile_tokens` | 3 concurrent downloads, limits 0, 1 and 2 | every download counted, bounded overuse, dead links serve nothing | 11,584 |
| `pki` | 2 leaves, 2 concurrent calls, 3 calls of any kind, 1 failure | serials are unique unless two draws meet or the serial file cannot be read; after a rebuild that ran alone revoked rows are on the CRL; after an attach that nobody undoes the server checks it | 1,233,583 |
| `bandwidth` | 2 peers, 2 addresses, 2 devices, 3 changes of any kind, 1 failing command | until one of six events, a failed command among them: what is booked is shaped after every step, what the rows say after every sync | 695,856 |
| `conf` | 5 bases with any 2 fragments of up to 22 each, 3 changes, 2 feature sets, 2 rounds of changing, losing the database and adopting | what was said is kept, the daemon keeps control, profiles fit | 167,968 |
| `provision` | 2 handlers, 3 requests of instances and clients, 1 change, 1 pid used twice | choices are free; nothing runs beside what it takes over unless someone else brought it up; only OpenVPN is signalled | 1,991,158 |
| `maintenance` | 2 certificates, 3 backups or restores, 1 write that fails unnoticed; or 3 updates, 1 wrong download | an archive is a state (unless its log began anew), a restore is exact (unless an older log is left), updates are newer, and verified where SHA256SUMS have a digest | 2,203,631 |

One run ends in a counterexample, against a statement of the repository
(`findings` in `PROJECT.json`):

- `pki_revoke`: a revocation whose rebuild of the CRL failed is answered OK when
  it is tried again, and the certificate is not on the CRL, though
  docs/PKI.md:48 says "Revoke leaf + rebuild CA CRL".

More configurations end in a counterexample when they are given to TLC.  They
are not listed as runs: they repeat a property that another run checks without
the excuse, or show something else that a maintainer may want to know of.

| Configuration | Shows |
|---|---|
| `MCInstancesAdopt` | a process that a restarted daemon adopts keeps its old binary and configuration, though a change of the binary "restarts the process on the next reconcile" (README.md:126); and it is restarted, though it is healthy, when the row is changed back to what it runs |
| `MCInstancesExcused` | a disabled instance whose binary or rendering fails is never stopped; a start between the two lock sections of RemoveInstance is forgotten; a PATCH writes back the whole row it read and undoes an up or a down in between |
| `MCInstancesDown` | an instance that cannot restart is never reported down |
| `MCPeersExcused` | a deleted peer keeps its session; a PATCH writes back the whole row it read and undoes a suspension |
| `MCLifetimeSum` | the instance counter is a sum over sessions; when one leaves, the rest is taken for a counter that restarted and is added again |
| `MCLifetimeDuplicateCN` | the same for two sessions of one name, which `NeverOvercharged` excuses: whichever is listed last is sampled, and its smaller counter is taken for one that restarted |
| `MCWebhookClose` | events enqueued after the worker has gone stay in the channel |
| `MCProfileTokensSingle` | two concurrent downloads of a single-use link both succeed |
| `MCPKIServers` | a revocation is answered OK although the statement that makes the server check the CRL failed (handlers_pki.go:455), though docs/PKI.md:59 says "Server instances using that CA get `pki_crl_path`" |
| `MCPKITwins` | two issues of one name at a time: the file of one, the row of the other, and the certificate in the file cannot be revoked |
| `MCBandwidthExcused` | a device that was re-created has no limits while the book says so; a ceiling and a peer's shaping undo one another |
| `MCConfExcused` | the direction of an adopted tls-auth key is lost (render.go:176 says it is preserved); a static key is rendered next to tls-server; a value folded into the extra directives shadows the column that is set later |
| `MCProvisionExcused` | a refused import has overwritten the keys of the instance of that name; two handlers or a PATCH make networks overlap (docs/API.md:209); a take-over goes on with another OpenVPN that was given the pid (stop.go:137) |
| `MCMaintenanceExcused` | a truncating checkpoint between the copies of database and log makes a torn archive (docs/PRODUCTION.md:94); a log left next to the database that `--force` overwrites comes back (docs/PRODUCTION.md:119); a build between two releases (git describe) counts as older than the first of them, so that an update installs the older program |
| `MCMaintenanceSums` | an archive that SHA256SUMS do not name is installed with no digest compared (update.go:174), though docs/INSTALL.md:53 says "Verifies `SHA256SUMS` when the release includes it" |

### Bounds and why they are enough

Instances and peers do not interact with one another except through the order
in which a reconcile takes them, so one of each shows the races; the theorems
hold for any number.  Three pids are one more than can be alive or waited for
at a time in these runs (an old child whose reaper is late, the current process
and the next).  Two calls are what every race found takes: one that reads, one
that changes what was read; the reconciler is a third actor.  One failure and
one crash each hit every step of such a schedule.  Two values of a
configuration tell "changed" from "not changed".  The channel of two is full
and empty with two emitters, and three downloads are one more than the two that
overdraw a limit of one.  In `pki` two concurrent calls and a third one are
enough for two rebuilds to overlap, for a rebuild to meet an issue, and for a
CA to be deleted and imported twice; one failure leaves each of the files and
rows behind its neighbour.

In `bandwidth` two peers share a device and may swap addresses, and three
changes are a limit, its change and a change of what it depends on; three class
ids before the wrap are one more than the peers.  In `conf` two
fragments after a base are every pair of lines that may repeat, override or
exclude one another; two rounds are a change and a loss, or two losses, after which nothing
new happens to a file of the daemon's own.  In `provision` two names and two
ports are exhausted by the third request, one network contains another, and a
pid is used by a second process, which may be OpenVPN or not.  One change is a
deletion between the read and the write of a create that issues a certificate;
a PATCH that meets a deletion takes two and is followed in the proofs only.  In `maintenance`
two certificates make a log that begins in the middle, three commands a backup,
a restore and another one on top, and the releases are one of each kind of
asset and of digests.

### Fairness

Only what the daemon does by itself is fair: the ticker starts a reconcile
again and again, the goroutine in a reconcile goes on (each external command
and dial has a timeout), a handler goes on, a reaper returns once its child has
exited, the webhook worker goes on (a POST is bounded by the client's timeout)
and the shutdown goes on (`Shutdown` waits ten seconds at most).  Users,
administrators and failures are never fair.  Counted failures stop, and so
`Converges` speaks of what happens after the last one.  `Delivery` asks that
what can be tried is tried; its condition is written out, because TLC does not
evaluate ENABLED under the mapping.  Deadlock is not checked where the system
may stop: in the webhook runs, because the daemon does, and in those of `pki`,
`bandwidth`, `conf`, `provision` and `maintenance`, where nothing happens by
itself once the bounded changes are used up.

## 5. Proofs

| Theorem | Statement | Assumes |
|---|---|---|
| `InstancesProofs!TypeCorrect` | `Spec => []TypeOK` | the named assumptions of `Instances` |
| `InstancesProofs!OneProcess` | `Spec => []AtMostOneProcess` | " |
| `InstancesProofs!ChildrenTracked` | `Spec => []ChildTracked` | " |
| `InstancesProofs!DisabledIsDown` | `Spec => []DisabledStaysDown` | " |
| `InstancesProofs!AppliedConfIsRun` | `Spec => []AppliedConfRuns` | `NothingIsForgotten`: no crash, no deletion |
| `InstancesProofs!HealthyIsKept` | `Spec => KeepsHealthy` | `NothingIsForgotten`, or a single configuration |
| `ClientProofs!TypeCorrect` | `Spec => []TypeOK` | the named assumptions of `Peers` |
| `ClientProofs!SuspendedPeersAreOut` | `Spec => []BarredIsOut` | " |
| `ClientProofs!JudgedRowsOnly` | `Spec => SuspendsJudgedRow` | " |
| `FoldProofs!ClientsNeverOvercharged` | `LifetimeSpec => []NeverOvercharged`, which speaks of clients that never had two sessions at once | the named assumption of `Lifetime` |
| `FoldProofs!CountersAreNumbers` | `LifetimeSpec => []LifetimeTypeOK` | the named assumption of `Lifetime` |
| `FoldProofs!ClientTotalsNeverDrop` | `LifetimeSpec => LifetimeNeverDrops` | " |
| `FoldProofs!InstanceTotalNeverDrops` | `LifetimeSpec => InstanceLifetimeNeverDrops` | " |
| `FoldProofs!RowsAreOfOneRole` | `Spec => []TypeOK` of `Conf` | the named assumption of `Conf` |
| `FoldProofs!DaemonKeepsControl` | `Spec => []OursControl` | `FeaturesLeaveControl`: no feature set brings a keyword the daemon steers by; so it is of the presets, and a custom feature could do otherwise |
| `FoldProofs!ProfilesFit` | `Spec => []ProfileFits` of `Conf` | `FeaturesLeaveTransport`: no feature set brings a keyword of port, protocol, ciphers, digest, CA or tls-crypt; `PatchesAreDefinite`: a change leaves the device tun or tap and the digest named |
| `FoldProofs!AdoptionKeepsWhatIsSaid` | `Spec => []SaidIsKept` of `Conf` | `ConfsArePlain`: what is on the host says each thing in one way, or is refused; `FeaturesArePlain`: no feature set brings a keyword the row has a place for; `PatchesArePlain`: a change leaves certificate and key in place and names no device `tun` or `tap` |
| `BandwidthProofs!LimitsAreTyped` | `BandwidthSpec => []BandwidthTypeOK` | the named assumptions of `Bandwidth` |
| `BandwidthProofs!BookIsTrue` | `BandwidthSpec => []BookedIsShaped` | `Excused = Events`: until one of the six events that `hurt` records |
| `BandwidthProofs!SyncShapes` | `BandwidthSpec => []ShapedAfterSync` | " |
| `WebhookProofs!DeliveryInOrder` | `Spec => []InOrderAtMostOnce` | any capacity, any emitters |
| `WebhookProofs!DispatcherDelivers` | `Spec => Promise!Spec`: the dispatcher implements `Delivery`, without its fairness | " |
| `ClientProofs!EveryDownloadCounted` | `TokensSpec => []CountsEveryDownload` | |
| `ClientProofs!OveruseIsBounded` | `TokensSpec => []BoundedOveruse` | finitely many requests |
| `ClientProofs!DeadLinksAreRefused` | `TokensSpec => []DeadLinksServeNothing` | " |
| `PKIProofs!TypeCorrect` | `Spec => []TypeOK` | the named assumptions of `PKI` |
| `PKIProofs!UniqueSerials` | `Spec => []SerialsUnique`: unless two draws met or the serial file could not be read | " |
| `PKIProofs!RevocationsListed` | `Spec => []RevokedIsListed` | " |
| `PKIProofs!ServersCheckTheCRL` | `Spec => []ServersCheckCRL`: from an attach that no pending write undoes, until the CA gets a new path or a request names the CA | " |
| `ProvisionProofs!TypeCorrect` | `Spec => []TypeOK` | the named assumptions of `Provision` |
| `ProvisionProofs!AdoptedRunAlone` | `Spec => []NotBesideForeign`: unless the process could not be stopped or someone else brought the instance up, be it by a write-back | " |
| `ProvisionProofs!ChosenIsFree` | `Spec => ChoicesAreFree` | " |
| `ProvisionProofs!OnlyOpenVPNIsSignalled` | `Spec => SignalsOpenVPN` | " |
| `MaintenanceProofs!ArchivesAreStates` | `Spec => []ArchiveIsState`: of archives whose log did not begin anew between the copies | the named assumptions of `Backup` and `Update` |
| `MaintenanceProofs!RestoresAreExact` | `Spec => []RestoreIsExact`: a log is overwritten unforced, and a log that is left over or could not be written is excused | " |
| `MaintenanceProofs!UpdatesAreChecked` | a program that is replaced has the digest that SHA256SUMS have for its archive or itself, if they have one; and, unless a version was asked for, is a newer one by `CompareVersions` | " |
| `MaintenanceProofs!UpdatesNeverGoBack` | `Spec => UpdatesAreSound` | `VersionsFollowAge`: the order of versions is that of their releases |

*Instances.*  `AtMostOneProcess` alone is not inductive: `EnsureInstance` may
spawn because it believes no process is there.  The invariant `ProcInv` adds
`Tracking`: a live child is the process its handle tracks, whatever a handle
tracks belongs to its instance, and a handle with a process has a
configuration, so that the search by configuration is made before each start.
`DisabledStaysDown` needs both: between the disabled branch and the end of the
reconcile only the reconciler starts processes, and it has passed the instance.

*Instances, configurations.*  `EnsureInstance` decides by what the handle says
of its process, and the process runs what it was started with.  `Remembers`
says that the two agree, `Applied` that the instance being applied runs what
the run's snapshot says, and `TracksOwn` and `Swept` that no live process
escapes both.  They agree only while no handle is forgotten, hence
`NothingIsForgotten`: after a crash or a deletion the handle is made up from the
row, and `MCInstancesAdopt.cfg` shows both properties fail.  With one
configuration nothing can disagree, and `KeepsHealthy` needs no more.  `Quiet`
names what a step may do without touching any of this; most steps are quiet.

*Peers.*  A reconcile bars a peer by the CCD file it writes (`BarredByFile`),
so that whoever reconnects after `Status` was asked is refused; whoever was
there before is in its answer (`BarredSeen`) and is killed.  That is why the
file has to be written before the question is asked.  `JudgedRowsOnly` follows
from the write naming the row's id, which is drawn once.

*Lifetime.*  What has been charged plus what the last sample has not seen yet
never exceeds what was moved; the last raw value never exceeds the session's
counter unless the session is new, in which case `AccumulateLifetime` takes the
whole new counter.  This holds of the clients that are not in `shared`: of those
every two sessions at a time are one, so the sample reads the one there is.
`MCLifetimeDuplicateCN.cfg` shows what happens to the others.  That no total goes
down needs no such condition, only that what is sampled is a number.  The raw value
of an instance is a sum over the sessions, a recursion over a finite set.  `SubsetsIn` is induction over the subsets of a
finite set, got from the order of strict subsets being well-founded, and
`RecursionOnSubsets` that a function is defined by recursion over them; so the
sum exists and is a number (`SumIsNatural`), the session that a sample picks
exists (`MaxIsMember`), and what is accumulated from a number never lowers a
total (`AccumulateNeverLowers`).

*Conf.*  A fold over lines or directives is the last of a chain of values, each
the step's result on the one before (`FoldIsChain` and, for the fold of each
parser, `LineChain` and its like); what every step keeps, the fold has.
Existence of the chain is again induction on a recursion that the library's
`FoldLeft` makes, so `Conf` and `Lifetime` share a module of proofs and its
induction lemmas.  `TypeOK` follows the shape of the parser's result and of the
row line by line, and a profile's way through the API and through the console
(`PeerByAPI`, `PeerByConsole`).  `OursControl` is about order in the rendered
file: extra directives hold no keyword the import ignores, because the import
drops those on its way in, feature sets hold none by the hypothesis, and of
everything else the daemon's own line is the last
(`ValueOfLater`, `ValueOfEarlier`).
`ProfileFits` compares two rendered files between which lie a profile and a
parser.  `RenderedFit` says what either file has for the keywords of the
transport, by the columns of its row; `ProfileOffers` which lines a profile has
for the columns.  For the parsers, `Fit` says that every column is as it was or
as wanted, and `Noted` that the lines read so far have filled theirs: each step
of the four folds (lines and inline blocks, of either parser) fills one column
with what is wanted or leaves them all, and undoes nothing (`StepFits`), so all
lines of the profile have been noted at the end, in whatever order they stand
(`RequestByAPIFits`, `RequestByConsoleFits`).  `FitInv` holds of the row what the
steps before the profile must not break: a device of a type, a digest, and
feature sets that leave the transport alone.  The hypothesis about changes is
needed: `handleUpdateInstance` writes a device type or an empty digest as it
gets them.  Without a digest, the server's file has no `auth` and OpenVPN takes
its own default, while the profile still names SHA256.

`SaidIsKept` compares the lines of a configuration with those of the file of the
row it becomes.  `LineReads` says what one line does to every part of the
parser's result; `ReadSo` what has been read of the first n lines: a part is
that of the latest line of its keyword (`Latest`), a list has an element for
every line of its own, and whatever the import has no place for is among the
extra directives.  The blocks are filed after that, one by one (`FiledSo`), and
`Asked` sums up what the request asks for.  `PreparedAs` says what the row has
of it, and `FileHolds` the file as a set of lines.  Of most keywords a file has
one line or none, with the words the row has for them (`Told`), so that its
value is known (`ToldCounts`); `LineIsKept` and `BlockIsKept` go through the
kinds of lines.  After a loss of the database the file is what is adopted, so
the invariant `SaidInv` needs that files are plain themselves (`FileIsPlain`).
That holds of rows without a device called `tun` or `tap` and, for servers, with
a certificate or a key (`PlainRow`); adoption makes such rows, and the last two
hypotheses keep them so.

`Plain` is a condition on the lines alone.  What it leaves out are
configurations that say a thing twice or in a place where it has no meaning, and
where the file may say something else than they did; a reader of `confimport` may
want to know of them.

| Configuration | What becomes of it |
|---|---|
| `dev tun7` and then `dev tun` | each writes a column of its own, where OpenVPN takes the last: the device is tun7 |
| `ca` next to an inline block of the same tag | the file of the block, whichever comes last |
| `port 1` and `lport 2` of a server | one column, filled by the last of both |
| `dh none` after `dh file`, or `dh` of a client | `none` is not noted and the file stays; a client's is not written |
| `secret` next to `ca`, `cert` or `tls-auth` | the row has a static key and no certificates, or one file for both keys |
| `secret file 1` | the direction is not kept, like that of `tls-auth`, which `Lost` names |
| `ca` of a server without `cert` or `key` | instance.Prepare issues a certificate and puts its own CA in the place of the one that was named (create.go:345) |
| `push` of a route or DNS server in a client's configuration | is read into columns that are written for servers only |
| a keyword of one value without one, or with more | the first word is kept |

*Bandwidth.*  `CommandChain` of `FoldProofs` makes a plan a chain of kernels, and
one lemma for each plan says what it changes.  `LimitsInv` is the types together
with what the sync in progress may find: it applies only on a device and only to
peers that want it, and nothing is booked that limits nothing.  `KernelInv` holds
until one of the six events happens (`ShapedInv`).  Peers booked on one device
have different classes, below the next one to be drawn (`ClassesApart`); their
filters, classes and policers are set up, and there is no other filter or
policer (`PeersShaped`; a class without a filter may stay, because one that a
filter points to cannot be deleted, and nothing goes through it); the ceiling is
set up if it is booked (`CeilingShaped`); and never are peers and a ceiling
booked together (`OneKind`).  `BookedIsShaped` alone is not inductive: it speaks
of an address that one peer has booked, while in the middle of a sync two may
have it, and not of the classes by which the next undo works.  The addresses follow from the
classes: the filters of an address are those of the entries that have it.
`SyncInv` says how far a sync is while no row has changed since it began
(`Progress`): after the removals only wanted peers are booked, and whoever was
applied is booked with what its row wants; so that at the end the book is what
the rows say (`Synced`), and `BookedIsShaped` that the kernel does it.  The proof
attempt found a hole in an earlier model: a class id that was drawn and then not
used counts as a wrap, too.

*Webhook.*  The invariant concatenates what was received, what is being posted
and what is queued, and says that the events of one emitter occur in it in
strictly increasing order, and that an event its emitter has not enqueued yet
is newer than all of them.  For the refinement it takes one fact more, that a
worker that has gone posts nothing (`WorkerPosts`): then `Posted` is a `Try`, the
exit of the worker, which finds the channel empty, a `Leave`, the decision of
`Emit` on either path an `Offer`, and everything else changes nothing that
`Delivery` can see.

*ProfileTokens.*  Every link's `use_count` is what was served plus the requests
that have counted and not rendered plus the counted ones that failed
(`Accounted`); the requests past the check were admitted below the limit
(`Admitted`), which bounds the overdraft by the number of the others.  A dead
link stays dead, because no row is revived and no token is drawn twice; so a
request finds at its check what it would have found when it arrived
(`ChecksSeeDeath`).

*PKI.*  `Fresh`: while no two draws have met and the serial file could always be
read, it is above every serial that was signed or is about to be, so dying
between the file and the signature loses a serial and never repeats one.  `Solo` and `Published`: a
rebuild that no other one met is the only one, and has every revoked row in its
list from its query on, then on the CRL; no issue, renewal or deletion adds a
revoked row, and the only step that does (`Mark`) starts a rebuild, which either
is alone or makes the CRL stale.  `Wired`: while nothing is `loose`, whoever is
about to write the instance back knows of the CRL path, because it read the row
after the path was attached; the rest, a write that was pending then and a request
that names the CA, is what `loose` records.  Each
part is kept by steps it does not notice (`SerialQuiet`, `CRLQuiet`,
`WireQuiet`) for one reason, and by the others one by one.

*Provision.*  `TypeCorrect` is where choosing is: a scan of ports or addresses
returns one of its range.  `FitsOK` says that what was prepared fits while
nothing has been written since (`sure`); the write that would break it resets
`sure`.  For networks the argument is that two blocks of consecutive addresses
meet only if the first address of one lies in the other (`ApartIsDisjoint`),
which is what `Overlap` asks.  `RowsOK` and `OwnRowsOK` follow a take-over: its
row is disabled until the process has been seen to end, and a process that was
seen to end has another generation from then on.  They are said of rows that are
enabled or already run (`Runs`), whoever enabled them: a write-back may put an
older `enabled` on a row (`RowWritten`), and either leaves it disabled or marks it
as brought up.  `LooksOK` says that a signal
is only sent between a look that found openvpn and the next look.

*Backup.*  `OpenIsReadable`: the database file is somewhere in the log of an
open database.  `SavesState` follows a backup that may be relied on file by
file: the database is copied no earlier than the beginning of the log copied
with it, what is copied is never ahead of what is on disk, certificates are
copied last.  Daemon steps only add (`Grows`).  `RestoresArchive` is the same for
a restore: which of the archive's files are there at each stage.

*Update.*  What a command still has to install has been checked
(`JobIsChecked`); one of two programs may have been replaced already.
`UpdatesAreChecked` says all the code decides by, and where it compares no digest
(`Unlisted`).  That no update goes back
needs `VersionsFollowAge`, which is so of numbered releases and not of builds
that `git describe` names (`MCMaintenanceExcused.cfg`).

### Checked by TLC only

Liveness (`Converges`, `SuspendedStaysOut`, `LimitsAreEnforced`,
`CCDConverges`, `AcceptedIsTried`, `CloseEnds`, the fairness in `KeepsPromise`)
and everything that needs ENABLED is outside TLAPS here.  Every invariant and
every action property of a passing run is stated by a theorem.  The hypotheses
of theorems about `Conf` are assumptions of `MCConf`, so that TLC evaluates
them: of its 1,763 configurations 18 are not plain, and all of these are among
the 243 that an import refuses.

The type invariants of `Lifetime`, `Webhook`, `ProfileTokens`
(`TokensTypeOK`), `Peers` and `Backup` are no property of a run, which would show
nothing the others do not; those of `Lifetime` and `Peers` and, as parts of an
invariant, of the others are proved.

## 6. Not modelled

Listed with the reason in `PROJECT.json`.

- Access roles and middleware, the daemon's configuration file, metrics, SNMP:
  tables from input to output, or views that change nothing.
- The console's screens and forms, and the command line clients apart from
  backup, restore and update: each sends a request that is modelled where it is
  served.
- A reconcile that is running while `backend.Close` stops the processes.
- The scan of `/proc` and of directories for servers to adopt: what it finds is
  the choice of a request.
- The schema and its migrations, time series and their pruning.  A statement is
  one atomic step, as SQLite gives it.
- Text: quoting, comments, white space, paths; and of the rendered file
  crl-verify, bridges, hooks, the shaper and the contents of CCD files beyond
  `disable`.
- What the code does where a model excuses it is kept visible: every excuse is
  named at its property, and the configurations of section 4 take it away.
- Two updates, two restores, or an update and a restore at the same time: the
  commands take no lock; the model has one at a time.
