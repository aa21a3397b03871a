# awg-hop: a TLA+ model of the control plane

awg-hop is one Go process in a container. It keeps an AmneziaWG server (the
*ingress*) with clients, and outgoing AmneziaWG tunnels (the *upstreams*). Every
client either leaves by the node's external interface (`direct`) or through one
upstream (`via_upstream`). The HTTP API edits a SQLite database, and after every
change the process rebuilds the network state of the node from it with `ip`,
`iptables` and `awg-quick`.

This directory models the parts of it where order, failure and boundaries
matter, checks them with TLC on small instances and proves some of the results
with TLAPS for all instances. Paths below are relative to the root of the
repository.

## 1. Inventory

| Component | State it keeps | Operations | Modelled in |
|---|---|---|---|
| Network controller, `internal/netctl` | kernel rules, routes, POSTROUTING rules, interfaces, peers; `policy_state.json`, `nat_state.json`, `wireguard-runtime-state.json`; `lastErr` | `Controller.Apply` = roll back, sync interfaces, route, NAT, persist | `Netctl` |
| Registry, `internal/api/handlers` + `internal/store` + `internal/domain` | tables `clients`, `upstream_tunnels`, `ingress_settings`, their AUTOINCREMENT sequences | create, patch, enable, disable, delete of clients and upstreams; PUT of the ingress settings | `Tables`, `Catalogue`, `Registry` |
| Address allocation, `internal/ipalloc` | none | `NextPeerPrefix` | `IpAlloc` |
| Database replacement, `internal/store/backup.go` | the database file, `.bak`, `.tmp`; `Store.db` | `ReplaceDatabase`, `Open` at startup | `DbReplace` |
| wg-easy import, `internal/wgeasy`, `handlers/wgeasy.go` | the same tables | one request that updates the ingress and inserts clients | `Registry` (clients and addresses), `Ingress` (keys and parameters) |
| System settings, `internal/domain/system.go` | external interface override, offline policy | read by Apply, written without one | the `policy` and `ext` fields of `Netctl!db` |
| Access, `internal/api/middleware`, `handlers.go` | `admin_account`, `sessions`; the login buckets, in memory | bootstrap, login, logout, session check, rate limit | `LoginLimiter`, `Access` |
| AmneziaWG parameters, `internal/amnezia/defaults.go` | the row of `ingress_settings` | completed at bootstrap and by every Apply, edited on the settings page, replaced by imports, exported to clients | `Amnezia`, `Ingress` |
| Schema migrations, `internal/db` | `schema_migrations` | run inside `db.Open`, one transaction each | `DbReplace` |
| Text given to awg-quick, `internal/wgquick` | none | `StripInterfaceDirective`, `SetInterfaceDirective` | `WgQuick` |
| Configuration text, `internal/amnezia/conf.go`, `server_conf.go`; keys, `internal/wgk` | none | render, generate | only that the text passes the row on; keys are names |
| Runtime status, CSRF/CORS, configuration, logging, web UI | none of their own, or static | read-only or plumbing | no |

How they interact:

- A mutating handler runs some statements against the store and then calls
  `applyAfterMutation`, which calls `Controller.Apply` in the same goroutine.
  Nothing serialises two requests: the store has one connection
  (`SetMaxOpenConns(1)`) so statements are atomic, but handlers open no
  transaction, and `Apply` takes no lock (`Controller.mu` guards only `lastErr`).
- `Apply` reads the database in several separate queries, runs commands one by
  one and writes three JSON files with `os.WriteFile`, which truncates and writes.
- `PUT /settings/system` and the wg-easy import commit and do not apply; `POST /system/apply` applies
  and commits nothing; `POST /backup/import` replaces the file under the open
  store and then applies.
- At startup `main` opens the database, runs one `Apply` limited to 60 seconds,
  and only then opens the listener, whatever the Apply returned.

What is hard to test in this, and where the model looks:

- two Applies interleaved command by command;
- an Apply that fails, is cancelled or dies at any command, and what the next
  one finds in the kernel and in its state files;
- a file truncated by a restart;
- requests that check a row in one statement and rely on it in a later one;
- requests that commit and are cut off before they apply;
- requests that write back a row they have read, over what others wrote since;
- requests decided by a clock they read before they waited for a lock;
- the database file being renamed or migrated while the process may die, and
  replaced between two statements of a login;
- ids used as rule preferences and table numbers; uint32 arithmetic at the ends
  of a subnet; a pool with no free address.

The properties that would make each component correct:

- *controller*: after a rollback nothing of an earlier Apply is left; an Apply
  that reports no error has installed the whole database and recorded how to
  undo it; no rule of the kernel is deleted for one of a client; every Apply returns
  and a sound database is eventually installed after a restart.
- *registry*: a client names only an upstream that exists and is enabled; an
  allocated address is free and usable; each handler is all-or-nothing; what was
  committed is applied.
- *database replacement*: the data last worked on is under one of two names, at
  every moment; an import that fails leaves the service on what it had; no request
  works on a database that lacks a migration.
- *access*: at most one setup, whole; a session was opened with the password of
  the account it is stored beside; the rate limit bounds attempts over every stretch
  of time and never starves a caller.
- *parameters*: what was given is never replaced by what was drawn; what Apply brings up is acceptable
  to awg and is what is stored; keys stay pairs; an exported configuration stays good
  until somebody changes the settings.

## 2. Modules

```
Netctl  <-- NetctlRequirements <-- MCNetctl                (5 runs)
                   ^
                   +-- NetctlTypeProofs <-- NetctlApplyProofs <-- NetctlProofs   (9 theorems)

IpAlloc <-- Tables <-- Registry <-- RegistryRequirements <-- MCRegistry   (2 runs)
                 ^                        |    ^
                 |                        |    +-- RegistryProofs          (7 theorems)
                 |                        | INSTANCE
                 +------ Catalogue <------+
                            ^
                            +-- CatalogueProofs                            (1 theorem)

DbReplace <-- MCDbReplace                                  (2 runs)
    ^
    +-- DbReplaceProofs                                    (4 theorems)

LoginLimiter <-- Access <-- MCAccess                       (1 run)
   | INSTANCE      ^
   v               +-- AccessProofs                        (7 theorems)
TokenBucket

Amnezia <-- Ingress <-- IngressRequirements <-- MCIngress  (2 runs)
                               ^                   |
            IngressProofs -----+       WgQuick <---+       (6 theorems)
```

An arrow points from a module to one that EXTENDS it. In each component the
machine, what it owes to others, the instances for TLC and the proofs are apart,
except in `DbReplace`, `LoginLimiter` and `Access`, which state their properties themselves. Operators with the
comment `mutant` are not part of any next-state relation: each is the definition
after it with a plausible bug, used to see that the properties notice.

### Netctl: one Apply, command by command

The state is the database `db`, the kernel (`rules`, `routes`, `nat`, `links`,
`peers`), the three files (`polFile`, `natFile`, `wgFile`), `lastErr`, `serving`
(the listener is open) and, for each goroutine in `Jobs`, its place `pc` and its
locals `job`. A step is one command, one query or one half of a file write.

| Action | Code |
|---|---|
| `LoadPolicy`, `UndoRule`, `FlushTable` | `loadState`, `undo`: preferences, then tables, errors ignored |
| `LoadNATState`, `UndoNAT` | `loadNATState`, `undoNAT`: one `iptables -D` for each recorded rule |
| `LoadWGRuntime`, `Down` | `teardownWireGuard`: the file must parse, then `awg-quick down` in reverse |
| `ReadIngress`, `Heal`, `ReadPeers`, `ReadTunnels`, `UpIngress`, `UpTunnel` | `syncWireGuard` |
| `TruncateRuntime`, `WriteRuntime` | `saveWGRuntime`, after which the joined errors of the upstreams are returned |
| `ListUpstreamTunnels`, `ListClients`, `GetSystemSettings`, `DetectExternalInterface` | the second look of `Apply` at the tables, and the `ip route get` |
| `AddRoute`, `SkipClient`, `RefuseOffline`, `PlaceDirect`, `PlaceRouted` | the two loops of `Apply` |
| `AppendNAT`, `TruncateNAT`, `WriteNAT`, `TruncatePolicy`, `WritePolicy` | `applyNAT`, `saveNATState`, `saveState` |
| `Mutate`, `SystemApply`, `SilentMutate` | a request that commits and applies; `POST /system/apply`; one that only commits |
| `Cancel`, `DiskFull`, `Reboot`, `Kill` | request context done or startup limit; failed write; container recreated; only the process dies |

The commands are modelled by what they do to the kernel: `ip rule del pref p`
removes the first rule at `p`, which is the kernel's own where there is one;
`iptables -A` adds a copy and `-D` removes one; `awg-quick up` refuses an
interface that exists; a link that goes takes its routes with it. The conf files
that `syncWireGuard` writes are rewritten whole before each use and are not
state. An upstream's text is one of `good`, `bad` (awg-quick refuses it) and
`empty` (skipped by the sync, but its route is still asked for, so Apply fails).
When `ip route get` fails, direct clients silently get no NAT rule: that is in
the model too (`DetectExternalInterface`).

Left out: failed reads of state files other than "missing" and "does not parse";
the branch for systems other than Linux; `AWGHOP_EXTERNAL_IFACE`, which nothing
reads; `AWGHOP_AUTO_APPLY=0` (it is taken to be on).

### IpAlloc, Tables, Catalogue, Registry

`IpAlloc` is `NextPeerPrefix` on numbers modulo `Space`. `Tables` holds the rows,
the forms that requests carry and the pure parts of the handlers: the defaults of a
new client, a patch laid over a row, `resolveUpstreamSpec`, the UNIQUE
constraint on interface names, AUTOINCREMENT.

`Registry` models a handler as the list of its statements. Receiving a request
puts the list into `todo[r]`; each statement is an action that reads or
writes a table, keeps what it read in `form[r]`, and either continues with the tail
or answers by dropping the list. `HangUp` drops the list at any point, `Restart`
drops all of them. Apply is one step here (`ApplyAfterMutation`); `unapplied` and
`left` record whether a committed change waits for one.

`Catalogue` is the abstract specification: every request is one atomic step that
checks what it relies on and writes, or does nothing. `RegistryRequirements`
instantiates it over the tables (`Promise`), and the run `registry` checks that
Registry implements it, with requests that meet, hang-ups and restarts, but for one
kind of step: the write of a request during which another has changed a table
(`overtaken`). Such writes are what `registry_race` is about; the refinement says that
nothing else can go wrong. The clients of a wg-easy export come in any order, as the importer
takes them from a Go map.

Left out: `allowed_ips` with several prefixes or that does not parse; keys,
names and other columns that no other row depends on; Apply's own failures.

### DbReplace: files, names and open descriptors

A directory maps `main`, `bak` and `tmp` to files and files to contents, so
that a rename moves a file from under a connection that has it open. Each system call
of `ReplaceDatabase` is an action which may also fail, followed by what the code
does then: `Close`, `BeginWrite`/`EndWrite`, `Stat`, `DropBak`, `MoveAside`, `Install`,
`PutBack`, `Open`, `Serve`, `Discard`, `Restore`, `Reopen`. `Edit` is any request
that writes, `Crash` and `Start` end and begin the process; `Start` opens the
database, and makes one where there is none. Between opening a file and serving it
come its migrations, one transaction at a time (`Migrate`, `MigrateFails`,
`MigrateAtStart`); the version is read once, before the first of them, as the code does. `kept` and `met` are history: what users last
worked on, and whether two imports were ever in progress at once.

Left out: SQLite's own journal files, and writes lost with the power. A migration
and its row in `schema_migrations` are taken to be atomic, which SQLite promises.

### LoginLimiter, TokenBucket, Access

`LoginLimiter` is `Allow` in two steps, as the code has it: `Arrive` reads the
clock, `Admit` or `Refuse` decides under the lock by that reading, so that requests
overtake each other in between by up to `MaxLag` ticks. `admitted` and `refused` are
history. `TokenBucket` is the abstract specification: a credit of time that grows
with the clock, pays for attempts and may be rounded down by less than an interval. The
refinement mapping gives a bucket the credit `tokens * Interval + clock - last`, or the
full capacity when there is no bucket or that is more.

`Access` puts the handlers behind it, one statement a step: `PostBootstrap`, `PostLogin`
(`Arrive`), `Proceed`, `TooMany`, `SetupComplete`, `Bootstrap`, `CheckPassword`,
`CreateSession`; `PostLogout`, `DeleteSession`; and the export and the import of the database
behind `Authorize` (`Copy`, `Close`, `Install`), because an import replaces the account,
the ingress and the sessions under everybody. A cookie may be any token that was ever
given out, here, before the model begins or by the instance an archive comes from; an archive
of another instance holds the session that exported it. `DbReplace` has the steps of an import in full; here they are closing, and installing
or failing.

Left out: requests refused by CSRF, bodies that do not parse, passwords that are too short (none of them
changes anything, but they pass the limiter where the code has it first); bcrypt and the random
tokens are taken to be ideal.

### Amnezia, Ingress, WgQuick

`Amnezia` is `EnsureAmneziaDefaults` as a relation between the parameters it gets and
those it may return: `Completes(p, q)`, one conjunct per padding in the order in which they are
drawn, each with the values the code tells the draw to avoid. `Sound` is what `awg setconf` asks for
according to the comments of defaults.go, which is outside the repository.

`Ingress` follows the row: `OpenPage` (GET, without the private key), `PutIngress`, `GetIngress`,
`UpdateIngress` (PUT, which takes the missing keys from the row it reads), `WgEasyImport`,
`ImportIngress`, `ClientConfig` (the export), and of an Apply `Teardown`, `ReadIngress`, `Heal` (the
whole row is written back) and `Up`. `given`, `age` and `from` in a row are history: the parameters before
any were drawn, and the imports that brought the two keys; they travel with the copies of the row. What the
row was given last is kept apart from it: every write by a page, an import or the bootstrap (`Give`) sets
`asked`, `missed` has the requests that read the row before that, and `overwritten` says that one of
them has put its copy back. The JSON of the API never carries the private key
(`json:"-"`), so a body never does.

`WgQuick` is the text of an upstream as a sequence of lines and the two functions that
take `DNS` out of it and force `Table = off`. It has no state; `ConfSound` is an assumption of
`MCIngress`, which TLC evaluates for every text of up to four lines.

Left out: paddings that are neither blank nor numbers, Jc, Jmin and Jmax, which are never drawn.

## 3. What each run shows

Passing runs:

| Run | Instance | Shows |
|---|---|---|
| `netctl_serial` | one Apply at a time, ten databases sound and unsound, container restarts | `RollbackIsComplete`: nothing of an earlier Apply is left when the interfaces are rebuilt; `QuietMeansCurrent`: at rest without an error the kernel carries exactly the database; `NothingForgotten`: at rest, after a failed Apply too, every rule, copy of a NAT rule and interface in the kernel is named by a state file |
| `netctl_faults` | one Apply at a time, all five faults, databases Apply must refuse, client ids around the kernel's preferences | with leftovers possible, at rest without an error still means installed (`QuietMeansInstalled`); success is reported after the NAT rules of all clients, direct ones included, were recorded, and leaves policy, NAT and interfaces in their files (`SuccessIsRecorded`); no client of an offline upstream was passed over (`BlockPolicyHeld`); a rollback deletes no rule of the kernel but the main rule, to client 766 (`BuiltinStays`) |
| `netctl_live` | sound databases, commits between the separate reads of an Apply, restarts | `EveryApplyReturns`, `ServesEventually`, `KeepsConverging` (again and again at rest without an error, unless a restart tore the runtime file), `RulesLeadSomewhere` (whatever was read in between, every rule leads to a table with a live interface) |
| `registry` | three requests, two at once, with a hang-up or a restart | `KeepsPromise`: the handlers implement `Catalogue`, but for writes of overtaken requests; `ReferencesKept`: without such a write a client names a tunnel that is there and enabled; `AllocationSound`: a new address is usable and free unless its request was overtaken; `ApplyFollows`: a committed change is not left unapplied unless its caller hung up |
| `dbreplace` | two importers, archives of old, current and broken databases, failing system calls, crashes | `NothingLost`, `ServesMigrated` and `ImportSettles`, for one import at a time; the types for two |
| `access` | two goroutines, one address, four requests of any kind, a hang-up or a restart | `WindowBound`, `NeverStarves`, `KeepsBucket` (the refinement) of the limiter; `OneSetup`, `SetupWhole` whatever bootstraps and imports meet; `SessionsEarned` |
| `ingress` | two requests at once of four, a failure or a restart | `GivenKept`: the row keeps what it was given last through every Apply, but for one that puts back a row read before; `HealsSound`, `KeysPair`, `RunsStored`, `ExportsHold`; and `ConfSound` |

Runs that show the code and its documents part (the counterexample is the
finding, listed with its source line in PROJECT.json):

| Run | What TLC finds |
|---|---|
| `netctl_race` | two Applies interleave; both report success, part of the database is not installed |
| `netctl_torn` | a restart while the runtime file is written leaves it unparsable; the listener opens all the same, but the `/system/apply` that is to retry fails as every Apply does, before it does anything |
| `registry_race` | a tunnel goes between the check and the write of another request; a client names it |
| `dbreplace_atomic` | the process dies between two renames; the next start makes an empty database and serves it |
| `ingress_export` | a wg-easy import without S3 and S4 leaves them blank until the next Apply; what was exported in between differs from what the server then runs on |

Things the model agrees with the code on where a document or comment says
otherwise, but which have no run of their own:

- Rule preferences are 32000 plus the id of the client (upstream.go:25 calls them unique), so client 766 has 32766, the
  preference of the kernel's main rule, which the next rollback deletes: TLC finds it in `netctl_faults` when
  `BuiltinStays` is strengthened to `Builtin \subseteq rules`. `BuiltinStays` and `BuiltinSafe` (section 6) say that
  this is the only way to lose one.
- An Apply that has completed the parameters writes the whole row back (wg_runtime.go:84), so that keys and parameters
  that an import or a PUT stored since it read the row are lost. `GivenKept`, `KeysPair` and `ExportsHold` except it,
  and say that nothing else does such damage: `GivenKept` without `~overwritten` fails in `ingress`.
- A padding is drawn to avoid those before it only (defaults.go:47-69): a page that blanks S1 and keeps S2 to S4 has the next
  Apply draw an S1 that may clash with one of them and save it, though `awg setconf` refuses such a row (wg_runtime.go:77). `HealsSound` leaves it out.
- The policy state is saved only by an Apply that succeeds, so the rules of one that failed at NAT are recorded nowhere and
  the next rollback leaves them, against README.md:165. `RollbackIsComplete` is therefore claimed of Applies without
  failing commands (`netctl_serial`, `netctl_live`).
- A settings page that saves the answer of its last PUT blanks what the Apply has drawn since, and the next Apply draws anew.
- A row with some of its markers zero is never completed, and every Apply fails on it.
- A logout answers ok when its DELETE failed. The `schema_version` of a backup is never compared.
- One upstream that does not come up fails the whole Apply, so `direct` clients
  lose NAT as well (`WriteRuntime` returns the joined errors); README.md:239 suggests
  only that tunnel is affected.
- README.md:232 says every mutation applies; the wg-easy import and
  `PUT /settings/system` do not.
- wg_runtime.go:119 promises not to forget interfaces that came up; a failed write of
  the runtime file does forget them.
- Undo errors are ignored: a refused `ip rule del` makes the next `ip rule add`
  of the same rule fail, and the rule is then recorded nowhere.
- After a failed write of the `.tmp`, or a failed rename, `Store.db` stays
  closed until the process restarts.
- Two `POST /clients` may be given the same address (the list is read before
  either inserts), and of two PATCHes the later write undoes the earlier; this is
  why `AllocationSound` and `KeepsPromise` except requests that were overtaken.

## 4. Bounds, and why they are enough

- `Netctl`: two clients and two upstreams with three interface names and two
  addresses: enough for a client that moves between upstreams, two clients on one,
  an upstream renamed to the name another had, an interface name that collides
  with the ingress, two clients with one address. `MaxEvents` bounds commits and faults
  together (3 or 4: a database, a fault in it, another database, a fault in the retry).
  Ids are 1 and 2, but in `netctl_faults` 765 and 768, whose preferences lie around 32766 and 32767 of the
  kernel, and in one database 766, which has that of its main rule.
  `MaxCopies` = 2 bounds how many copies of a leaked NAT rule the operator may
  pile up with `POST /system/apply`, which is otherwise unlimited.
- `Registry`: 16 addresses, subnets of 4 (two hosts, one the server's: one
  client fills it) and 8; 3 requests, two of them at once; one hang-up
  or restart. Three requests are what it takes to make a tunnel, name it and take it
  away.
- `DbReplace`: one write, two imports, two faults, five files: two imports
  one after the other with a fault in each, or both at once. `dbreplace_atomic`
  allows one more edit and import. Two migrations and archives of two versions: one cut short between two.
- `Access`: an interval of two ticks and a lag of one, so that a reading may be from before the last refill; four requests
  take two bootstraps, a login and an import; sessions live for two ticks. The theorems of section 6 need none of this.
- `Ingress`: four paddings to draw from and an overhead of two, which separates two pairs of them, so that every draw has
  something to avoid; two markers of four; four requests take a page, an import, a PUT and an Apply.

`CHECK_DEADLOCK FALSE` is given where these budgets run out and everything is
idle (all runs but those of Netctl), and in `netctl_faults`, where
leaked copies of a rule may reach `MaxCopies` and the operator is then kept from applying
again. The other Netctl runs check for deadlock. `registry` and `ingress` use the symmetry of
the goroutines, which nothing orders; ids are numbers and the code orders them.

## 5. Fairness

Only `FairSpec` of Netctl assumes any: weak fairness of `ApplyStep(j)` for each
goroutine, i.e. a goroutine inside Apply goes on to its next command. The code
justifies it in that no lock is held across steps and each loop is over a finite
list; it also takes the commands to return, which `runner_linux.go` does not
enforce with a timeout of its own (the startup has one, a request has its caller).
Nothing is assumed of requests, the operator or faults.

## 6. Proofs

Everything is proved for every value of the constants that satisfies the
named assumptions of the modules: any number of clients, upstreams, goroutines or
requests in progress, every set of databases, bodies and faults. TLC evaluates those
assumptions on the instances of section 3.

- `NetctlTypeProofs!TypeCorrect`: `Spec => []TypeOK`. TypeOK is not inductive by itself: the type of
  `links` needs that Apply never brings up an ingress without a name. `IngressKnown`
  adds it: between reading the ingress row and `UpIngress` the name is set. Looking up a
  row that was not read is excluded inside TypeOK by `LookupsDefined`. The proof has one lemma
  per group of actions and one case per action.
- `NetctlProofs!BuiltinSafe`: `Spec => []BuiltinStays`, with no hypothesis on faults or on Applies that meet: a client id
  that, counted from 32000, is the preference of a rule of the kernel is the *only* way in which Apply can lose that rule.
  The inductive invariant is `PrefsAreOurs`: the preferences in `policy_state.json`, in
  the list a rollback is working through and in the policy under construction
  all come from `RulePreference`. Without it the rollback could be deleting anything. The theorems below
  that need the kernel's rules to be there assume `BuiltinApart`, that no client has such an id.
- `NetctlApplyProofs`: `AppliedInstalled` (`QuietMeansInstalled`), `AppliedBlocks` (`BlockPolicyHeld`) and
  `AppliedRecorded` (`SuccessIsRecorded`): what a reported success means, after any faults in any order.
  `AppliedInstalled` counts the NAT rules of clients that go via an upstream: when `ip route get` is refused, an Apply
  succeeds without those of direct clients. `AppliedRecorded` has them: what was planned for the uplink that was found is in
  `nat_state.json` before success is reported, and at rest the direct ones are there all or none. It speaks of what the
  Apply itself made; what an earlier, refused one left may be in no file.
  - The invariant is `Progress`: at each place in Apply, what is behind it. The interfaces that the sync
    has worked through are up and in the list for the runtime file (`LinksRaised`); the routes and rules that the
    two loops have asked for are in the kernel and in the policy under construction (`RoutesPlaced`, `RulesPlaced`);
    the plan for NAT has each rule as often as the clients worked through ask for it (`NATPlanned`), and what
    of the plan has been appended is in the kernel that often (`NATPlaced`). `Current` says that what Apply
    has read is still what the database holds, and `Committed` that the database is one of those committed.
    One lemma per action says what it changes (`UndoRuleEffect`, ...), and the later ones use
    only that. Counts of a rule in a sequence need `CountAppend` and `CountTail`, which are proved with bijections.
  - Hypotheses: `Alone`, one goroutine, because Applies that meet do break all three (`netctl_race`); `NoSilence`, nobody
    commits without applying, because then success is only about what was read. `AppliedRecorded` needs
    `AllConfigured` too: an enabled upstream with an empty configuration is not brought up, so when an earlier
    `awg-quick down` was refused, the interface left over carries its route without being in the runtime file. That
    is a false statement without the hypothesis (TLC finds it when such a database is added to those of
    `netctl_faults`), not a gap of the proof. The constants of `netctl_serial` satisfy the first two, those of
    `netctl_faults` all three.
- `NetctlProofs`: `RollbackComplete` (`RollbackIsComplete`), `NothingIsForgotten` (`NothingForgotten`), `RulesLead` (`RulesLeadSomewhere`)
  and `QuietCurrent` (`QuietMeansCurrent`): nothing is left over that the state files do not name.
  - The invariant is `Clean`, the other direction of `Progress`: every rule, NAT rule, route and interface of ours that is in
    the kernel is known to the Apply under way or, at rest, to a state file, so that the next rollback
    finds it. Each of its parts says how far that has come: recorded, then still in the list to be
    undone, then gone, then part of the new plan. `OnePref` is needed with it: one `ip rule del pref p` removes
    one rule, so two rules of ours never share a preference. After the last step that can refuse, everything
    will be recorded unless the containers are recreated, which empties the kernel. `QuietCurrent`
    puts `Progress` (nothing missing) and `Clean` (nothing more) together.
  - Hypotheses: `Alone`; `RebootOnly`, the only fault is that containers are recreated, at any step, in
    the middle of a write too; `BuiltinApart`; `NeverRefused`, no mixture of commits that Apply can read has an
    external interface that iptables rejects or, under the block policy, a client whose upstream is offline. Such a
    refusal comes when rules are already in the kernel and recorded nowhere (section 3), so without it the theorem
    is false: with the databases of `netctl_faults` TLC violates `RollbackIsComplete` even without a single fault. Applies that fail earlier, at the ingress or an upstream, are
    covered. `QuietCurrent` needs `NoSilence` as well. The constants of `netctl_serial` satisfy all of
    them, those of `netctl_live` all that the other three need.
  - They use `TornIsNoContent`: a truncated file is not taken for one that parses.
- `RegistryProofs!NextPeerSound` and `NextPeerComplete`: on every subnet but a
  single address at the very start or end of the space (`Ordinary`), the bounds of the scan do not
  wrap, it covers the usable hosts and nothing else, what it returns is
  free, and it returns something whenever something is free. On the two subnets left out
  (`0.0.0.0/32`, `255.255.255.255/32`) the scan does leave the subnet.
- `CatalogueProofs!CatalogueSafe`: `Spec => []ReferencesHold` for the atomic registry. Its
  invariant adds the type of the rows (a change of one field keeps the others) and
  `IdsBounded` (a new tunnel does not replace one that clients name).
- `RegistryProofs`, with any number of requests interleaved, given up or cut off by a restart:
  - `RegistryImplements` (`KeepsPromise`, the refinement), `ReferencesSurvive` (`ReferencesKept`),
    `AllocatesSoundly` (`AllocationSound`, on ordinary subnets, from `NextPeerSound`) and
    `RegistryTyped` (`TypeOK`), all from `RegistryInv`. Its heart is `Stage`: for each list of statements a
    handler may have left, what its locals are by then, and, as long as nobody has overtaken it,
    how they relate to the tables of now: the row a PATCH is about to write is the present row with a patch
    laid over it, the tunnel it names is there and enabled, the tunnel about to go is named by nobody,
    the address about to be given out is free. What is known of the locals alone survives being
    overtaken (`StageStale`); the rest need not, and `registry_race` shows that it does not. One lemma per statement
    says which operation of `Catalogue` its write is.
  - `ApplyComes` (`ApplyFollows`). The invariant `ApplyDue`: while something is unapplied, some handler is about to apply,
    or about to read again a row that is there. Deleting that row
    cuts the second one short, but then the handler that deleted it is about to apply.
- `DbReplaceProofs`: `FilesTyped`, `KeptSomewhere` (`NothingLost`), `WorksMigrated`
  (`ServesMigrated`) and `ImportsSettle` (`ImportSettles`), for any number of imports
  one after the other, faults, crashes, edits and migrations. The invariant `Safe` says at
  each step of an import which of `main` and `bak` holds the contents and which file the
  descriptor is open on (`Placed`); that the version an import has migrated to is that of the file
  it will serve, as nobody else opens that file; and that no file has two names (`Apart`), without which
  writing the `.tmp` could be writing the database. `Settled` adds, as long as nothing
  has failed, what is under `tmp` and `main`, from which a rename cannot fail and a
  restored database opens. Two imports at once break `Alone`, and with it everything but the types.
- `AccessProofs`, on the limiter: `LimiterTypeCorrect`, `LoginsLimited` (`WindowBound`), `NobodyStarves` and
  `LimiterIsBucket` (`KeepsBucket`: every step of `Allow` is a step of `TokenBucket` or a stutter).
  The invariant `LimiterInv` has the types, that nothing was admitted in the future, and `Banked`: what each stretch of
  admissions up to now has paid, and what the bucket is worth now, are together at most its capacity and the
  time since. The division in the refill enters as a lemma on quotient and remainder. On the handlers:
  `SetupsWhole`, `OnlyEarnedSessions` and `OnlyOneSetup`, from `AccessInv`: the database and every archive that was
  exported are whole (`Proper`), uploads are such archives, and a login that is about to create its session has the
  password of the account there, or an import has crossed it (`Entitled`).
- `IngressProofs`: `RowsTyped`, `NothingReplaced` (`GivenKept`), `SoundlyHealed` (`HealsSound`),
  `KeysOfOneImportPair` (`KeysPair`), `ExportsStayGood` (`ExportsHold`), `StoredBeforeUsed` (`RunsStored`), for
  paddings, markers and an overhead of any size. `AskedInv`, for the first: until a row read before the last gift is
  written back, the stored row, and the copy of every request that has not missed that gift, keep what was given.
  `GivenInv`, for the second: every copy of the row, wherever
  a request has it, keeps what it was given and is either not completed or completed to something
  sound if what was given is `Repairable`; of a padding given after a blank one the theorem says nothing. `KeysInv`: there is a function from imports to the key pairs they brought, from which all keys come.
  `ExportInv`: a row read for completion that nobody has overtaken completes the row that is stored.
  They rest on lemmas on `Completes` (it keeps what is given; it ends sound when it can; completing twice adds nothing).

Model-checked only: the liveness properties `EveryApplyReturns`, `ServesEventually` and `KeepsConverging`, as the
prover does not do fairness; and `ConfSound`, on texts of up to four lines, as its functions are folds
over a text, and what a fold computes takes induction. Every other property of the passing runs is stated by a theorem. Applies that meet are
covered by `TypeCorrect` and `BuiltinSafe` only, which is all that holds of them.

## 7. Plan

Done, in this order: `Netctl` with its requirements and two theorems; `IpAlloc`, `Tables`, `Catalogue`, `Registry`
with eight; `DbReplace`, then its migrations, with four; `LoginLimiter` and `Access` with seven;
`Amnezia`, `Ingress` and `WgQuick` with six; seven more theorems on `Netctl` at rest.

Left: a composition of `Registry` and `Netctl` in which the databases Apply reads are those the handlers
leave, to see that the offline policy is only met after a race; and `AppliedRecorded` for upstreams
with an empty configuration, weakened to what holds of their interfaces.

## 8. Not modelled

- The layout of the configuration text (`internal/amnezia/conf.go`,
  `server_conf.go`), keys (`internal/wgk`), QR codes, the parsing of `awg show`
  (`internal/awgshow`): pure functions on strings without state. Of the text only what it
  passes on matters to the models, and of an upstream's text whether it is usable.
- CSRF and CORS, configuration from the environment, logging, the embedded web
  interface: no state of their own that other parts depend on. Which handlers are behind the
  limiter and the session check is in `Access`.
- Runtime status: read-only.
- What a migration does to the tables: a migration is its number.

Taken from outside the repository: `awg setconf` refuses
the parameters that the comments of defaults.go say it refuses (`Sound`); a SQLite transaction is
atomic and durable; `ip`, `iptables` and `awg-quick` do what section 2 says, and return; bcrypt and the random
tokens are ideal; paddings are blank or numbers. The export
copies the database file without a lock; copies torn by a write meanwhile are not modelled.
