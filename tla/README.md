# TLA+ models of pmd-next-gen

These modules model the part of pmd-next-gen that has real invariants: the
`/networkd` plugin (`src/plugins/network/networkd/`). It writes systemd-networkd
unit files on behalf of HTTP clients and then asks networkd to reload them.
Everything else in the repository is HTTP glue or read-only telemetry. Those
parts are listed below with what is planned for them.

## 1. Inventory of the system

| Component | Source | State it keeps | Operations |
|---|---|---|---|
| ConfigureNetwork | `networkd_network.go:225-262`, router `networkd_router.go:14-24` | none in memory. It writes `/etc/systemd/network/10-<link>.network` | LinkByName, CreateOrParseNetworkFile, configfile.Load, build{Network,DHCPv4,Address,Route}Section, Save, NewSDConnection + DBusNetworkReload |
| LinkResolver | `networkd_api.go:17-45, 160-191` | reads `/run/systemd/netif/links/<ifindex>` (ADMIN_STATE, NETWORK_FILE) | CreateOrParseNetworkFile, CreateNetworkFile (a truncating WriteFullFile of `[Match] Name=`) |
| ConfigureNetDev | `networkd_netdev.go:48-161`, router `:56-66` | writes `<name>.netdev`, the netdev's `.network`, and the parent's `10-<link>.network` | CreateNetDevFile, BuildNetDevSection (validation), BuildKindSection (resolve parent, validate VLAN Id, append `VLAN=`, save parent), Save, CreateNetDevNetworkFile, reload |
| configfile | not under `src/` (spec 4.1) | the loaded document (`Meta`) | Load, SetKeySectionString, NewKeyToSectionString (append), Save |
| systemd-networkd | external (spec 6) | per-link state file, the configuration it runs | Reload re-reads every unit file |
| Read path | `networkd_api.go:90-157`, `networkd_network.go:102-116` | none | describe queries |
| Hostname | `hostname.go:14-174` | `hostNameProperties` map filled by 16 goroutines | AcquireHostnameProperties, SetHostname |
| Auth | `auth.go:24-79` | token → user map | AuthMiddleware, InitAuthMiddleware, UnixDomainPeerCredential |
| sysnet | `plugins/proc/net.go:14-84` | none; it reads and writes files under `/proc/sys/net` | getPath, GetSysNet, SetSysNet |
| tdnf | `plugins/tdnf/tdnf.go:45-188`, `tdnf_router.go:18-186` | none; it runs the `tdnf` binary | routerParseOptions (query → Options), TdnfOptions (Options → flags), TdnfExec, Acquire{List,RepoList,InfoList,MakeCache,Clean} |
| systemd, link, proc, capability, pmctl | other files | none of their own | I/O forwarding and parsing |

**How the parts interact.** Each HTTP request runs its handler in its own
goroutine, and no lock is held anywhere in the plugin. A configure request and
a netdev request on the same link both load, change and save the same parent
`.network` file. networkd is the environment. It reports per-link state, and
only a successful Reload updates that state (in particular NETWORK_FILE).
CreateOrParseNetworkFile trusts that state to decide whether to recreate the
unit file.
Every handler sits behind a middleware of `pkg/server/auth.go`. TCP requests
use the token check, and unix-socket requests use the peer-credential check.
The sysnet and tdnf handlers are composed with the middlewares here (`Server`).

**Hard behaviours.**
- Requests interleave between Load and Save.
- Save can succeed while the reload fails, because networkd's state lags the files on disk.
- Each step of the two-document VLAN write can fail separately.
- Validation is interleaved with side effects.
- A client can retry after a timeout.

**What makes each part correct** (spec 4-8):
- No persisted update is lost.
- networkd runs what is on disk.
- A "configured" response means the request is applied.
- Invalid requests write nothing.
- Every `VLAN=` line names an existing `.netdev`, and every VLAN `.netdev` is listed by its parent.

## 2. Modules

| Module | Models | Kind |
|---|---|---|
| `UnitFile` | configfile documents: one value per key (`kv`), and the `VLAN=` list (`vlan`) | operators, spec-modelled (configfile is not in `src/`) |
| `UnitStore` | the promise of configure: each request merges its fields into its link's unit in one atomic step, or fails | abstract specification |
| `NetworkdConfigure` | ConfigureNetwork + CreateOrParseNetworkFile + networkd, with N concurrent requests | detailed specification; it refines `UnitStore` |
| `NetworkdNetDev` | ConfigureNetDev composed with `NetworkdConfigure` on the shared parent file | composition |
| `Hostname` | AcquireHostnameProperties: the handler, its WaitGroup, and one goroutine per property writing the shared map | concurrent goroutines |
| `Auth` | InitAuthMiddleware's loop, AuthMiddleware and UnixDomainPeerCredential around an abstract handler | middleware |
| `SysNet` | getPath with path.Join/Clean as a RECURSIVE operator, GetSysNet, SetSysNet | handler and operators |
| `Tdnf` | routerParseOptions, TdnfOptions and TdnfExec as operators; the command handler as one step | handler and operators |
| `Server` | the sysnet and tdnf handlers behind both middlewares | composition |
| `MCNetworkdConfigure`, `MCNetworkdNetDev`, `MCAuth`, `MCServer` | model values and finite sets for TLC | MC modules |

**NetworkdConfigure state.**
- `file[l]`: the unit file, or `NoFile`.
- `daemon[l]`: networkd's `setup` (ADMIN_STATE present), `netfile` (NETWORK_FILE present) and `applied` (what it runs).
- `pc[r]`: the request's position in ConfigureNetwork.
- `req[r]`: the decoded body.
- `local[r]`: the `Meta` the request loaded and is building.
- `resp[r]`: the response.

**NetworkdConfigure actions.** One action per step of the handler, each with
its error return:
- `Start`: decode.
- `CreateOrParseNetworkFile`: the two state-file lookups.
- `CreateNetworkFile`: the truncating write, or its failure.
- `LoadAndBuild`: Load, or its failure, then the four builders, which set every non-empty field and leave empty fields unchanged.
- `Save`, or its failure.
- `Reload`: success, or a failure either before or after networkd reloaded.

A request's data is abstracted to a link and one optional value per key.

`CreateOrParseNetworkFile` reads ADMIN_STATE and NETWORK_FILE with two reads of the state file, and the model reads them in one step. This is sound here: a reload in the model only turns either key from absent to present, because no unit file is ever removed. So the decision is the same as one read made at the second read's time.

**NetworkdNetDev** adds these variables:
- `dpc`, `dreq`: position and body of each netdev request;
- `parent`: the parent `Meta` it is building;
- `netdev[n]`, `devnet[n]`: the `.netdev` file and the netdev's `.network`;
- `dresp`: the response;
- `wrote`: a history variable, set once a request has written any file.

The NetDev body is abstracted to name, kind, whether MAC/MTU are valid, and
whether the VLAN Id is absent, valid or out of range.

**Hostname.**
- `hpc` is the handler's position. `gpc[p]` is goroutine `p`'s position.
- `wg` is the WaitGroup counter. `hmap` holds the keys stored in `hostNameProperties`, and `response` what was encoded.
- `writing` holds the goroutines inside a map assignment, `racy` those whose assignment overlapped another, and `crashed` records the runtime's "concurrent map writes" throw.
- A Go map assignment is split into a begin step and an end step, so that two of them can overlap.
- An overlap is a data race. The model takes both outcomes the Go runtime can produce: a fatal throw, or a lost insert when the check misses.
- The sixteen goroutines are abstracted to the set `Props`.
- `spc` and `hver` model a concurrent SetHostname (POST) and hostnamed's name, which it changes.

**Auth.**
- `conf` is the file read, as the `strings.Fields` of each line (`Line`: blank, one word, or `<user> <token>`), and `next` the loop index of InitAuthMiddleware. `db` is `tokenUsers`.
- On a line with fewer than two fields `authLine[1]` panics and the process dies during start-up (`Panicked`): no step follows, and `AuthDone` lets the model idle there.
- For each request, `apc[r]` is its position, `token[r]` its header, `runs[r]` how many times the wrapped handler ran, and `status[r]` the first status written.
- Requests in `PeerReqs` arrive on the unix socket. `ppc[r]` is their position in UnixDomainPeerCredential. authenticateLocalUser never returns an error, so the check always serves, unless the uid has no passwd entry: then `u` is nil, `u.Username` panics, and net/http closes the connection unanswered (`aborted`).

**SysNet.**
- A path is the sequence of its segments below `/`; a user string is the sequence of its `/`-separated segments.
- `CleanFrom` is path.Clean: `.` is dropped, `..` removes a segment and stops at the root. `Join(a, b)` is `Clean(a \o b)`.
- `GetPath` follows the switch of getPath, including the four nested joins with `conf` for a link and the `path not found` error.
- `sq[r]` is the decoded body, and `opened` the set of files read or written, with the request that did it.
- The value read or written is not kept.

**Tdnf.**
- `tq[r]` is the request: the command, the `{pkgs}` path value and `r.Form` (every query key with its values; `<<>>` when absent). `execd` is the set of argv vectors tdnf was run with, with the request that ran it.
- `OptionFields` abstracts `Options` to a few of its fields, in Go field order, each with the lower-cased name the router looks up, its struct tag and its Go type. The MC instance takes `Best`, `Config`, `DisableRepo` and `NoGPGCheck`: both bools and one field of each other type.
- `ParseField` is the switch of routerParseOptionsInterface (isTrue, getString, the slice copy), `FieldArgs` the switch of TdnfOptions, `TdnfOptions` the loop that appends them (`FlattenSeq`), and `TdnfExec` prepends them to `-j` and the command's arguments (`CmdArgs`: what each Acquire* function passes).
- `HandleTdnf` (routeracquireCommand, `/tdnf/{command}`) and `HandleTdnfPkgs` (routeracquireCommandPkgs, `/tdnf/{command}/{pkgs}`, list and info with a package) are one step each; `TdnfRoute` picks the route as RegisterRouterTdnf does. A ParseForm error is answered, and then the handler goes on with the pairs that did parse, so the model runs the command in every case. The answers, the jobs and tdnf's output are not kept.
- `validator.IsBool` is outside `src/`: the words it accepts are the constant `BoolWords`.
- The router calls `acquire*` functions that `tdnf.go` does not define. The model uses `tdnf.go`'s `Acquire*` for repolist, clean, makecache, list and info. The scope options of list and info are not modelled.

**Server.** Every middleware step that runs `next.ServeHTTP` (one that increments `runs[r]`) runs the handler `r` is routed to in the same step: sysnet for `SysReqs`, tdnf for `TdnfReqs`.

Each definition's source lines are listed in `PROJECT.json` under `map`.

Note on `BuildKindSection`: as written, it passes `n.Link` (a string) to
`CreateOrParseNetworkFile(netlink.Link)` and calls `Meta` methods on its string
result. The model follows the evident intent: resolve the parent's path the way
ConfigureNetwork does, then load it.

## 3. Runs

| Run | Expect | What it shows |
|---|---|---|
| `configure` | pass | `PersistedUpdatesSurvive`, `InSync`, the liveness `RequestsAnswered` (every request is eventually answered, whichever step fails), and the refinement `Refines` of `UnitStore` hold for clients that never overlap on a link, with Create/Load/Save failures. |
| `lost` | violation | Without client serialization, two requests on one link both Load, then both Save, and one update is lost (finding 1, spec 5/8). |
| `clobber` | violation | Even with serialized clients: a reload fails after Save, networkd has no NETWORK_FILE, and the next request's CreateNetworkFile truncates the saved file (finding 2, spec 4.2/7). |
| `netdev` | pass | `ValidatedNetDevs` (only a valid VLAN Id reaches disk) and `NetDevListedByParent` hold with configure and netdev requests mixed. |
| `netdev_fail` | pass | `ConfiguredIsApplied`: with any write or reload able to fail and two configure requests beside the netdev requests, "configured" is answered only when networkd runs every field of the request, including after failed reloads. |
| `netdev_reject` | violation | A request rejected for its VLAN Id has already created the parent's unit file (finding 3, spec 4.3). |
| `hostname` | pass | With 3 property goroutines and every GetHostName able to fail, `ResponseIsFinal` (no insert after the response is encoded) and `HandlerTerminates` (never stuck in wg.Wait) hold. Both hold because `wg.Add(16)` counts exactly the sixteen goroutines and each defers its `Done`; the mutants (`wg.Add` one short, a `Done` that is not deferred) show the properties would catch a change to either. |
| `hostname_race` | violation | Two successful lookups write the map together, and the runtime aborts the server (finding 5). |
| `auth` | pass | The sysnet and tdnf handlers behind both middlewares. `ForbiddenIffUnknown`: a client is refused exactly when pmweb-auth.conf binds its token to no user, including tokens rebound by a later line. `PlainRequestsTouchTheirFile`: for a body without `.`/`..` segments, getPath opens exactly `net/<path>[/conf/<link>]/<property>`. The run also reaches the start-up panic on a short conf line, the unix-socket panic, and both tdnf routes; it checks no property of them (see section 4). |
| `sysnet_escape` | violation | A SET with Property `../../../../etc/passwd` resolves to `/etc/passwd`, and SetSysNet writes there (finding 7). |
| `auth_double` | violation | A refused request still runs the handler, and an accepted one runs it twice (finding 6). |
| `netdev_order` | violation | The parent's `VLAN=` line reaches disk before the `.netdev` it names (finding 4, spec 4.3). |

Each property of a passing run has a mutant in `PROJECT.json`. A mutant is a
plausible slip in the mapped code (a builder that drops untouched keys, a
missing reload, an inverted lookup check, a lost validation, a missing
`VLAN=` append, a Load error answered with nothing, an empty string option
passed as `--config=`), and TLC must find the property violated by it.

**Bounds.**
- `configure`:
  - 2 links, 3 requests, 2 keys, 2 values.
  - A request sets one key, the other, or both.
  - Initial files are absent, or hold `k1=b`.
  - This is enough for a request to overwrite a key another set, for an untouched key to survive, and for three requests to chain on one link after a failure. Each run finishes in seconds.
- `netdev`:
  - 1 link, 1 configure request, 2 netdev requests.
  - The netdev choices are a valid VLAN, an out-of-range Id, a missing Kind, a missing Name, and a bridge.

- `hostname`:
  - 3 goroutines, which is enough for two to overlap while a third fails.
  - Every behaviour ends: the crash, the response, or the connect error.
- `netdev_fail`: 1 link, 2 configure requests, 2 netdev requests.
- `auth` and `sysnet_escape`:
  - 2 token requests and 1 unix-socket request; 3 tokens; 2 users.
  - The auth files are: empty, one line, one token bound twice, two users, a trailing blank line, and a line with only a user.
  - 7 sysnet bodies: each subtree with and without a link, an unknown Path, a `.` segment, a `..` in the link that stays inside, a link given for core, and a Property that climbs out.
  - `r1` and `p1` reach sysnet, `r2` reaches tdnf.
  - 28 tdnf requests: repolist, clean, makecache, list and info on `/tdnf/{command}`, and list and info with a package on `/tdnf/{command}/{pkgs}`, each with 4 queries. The queries are: none; every field set with two list values; a word IsBool rejects, an empty first string, an empty list value and a bool given twice; and a key in the wrong case only.
  - `BoolWords` is {"true", "false", "1", "0"}.
  - This gives 2,469,600 distinct states in about 55 s.

**Fairness.** Weak fairness on each request's steps: the code never cancels
a started handler (the goroutine runs to completion, as spec 5 also
requires). No fairness is assumed on clients sending requests. In `Hostname`, weak
fairness on the handler and on each goroutine is the Go scheduler's
guarantee that a runnable goroutine eventually runs. `Auth` checks only
safety, and so does `Server`. `RequestsAnswered` in `configure` relies on the
weak fairness of each request's steps: no step of ConfigureNetwork waits on
another request. The `Terminated`
and `AllDone` stutter steps let the server idle once every request has been
answered, so deadlock checking stays on.

**Serialized clients.** The constant `SerializedClients` restricts the
environment: a client never sends a request for a link while another is in
flight on it. It is what the passing runs assume. Without it, the lost update
of finding 1 is immediate.

## 4. Not modelled, and not checked

- **configfile text fidelity** (round-trip, the multi-value add/remove of spec 4.1): the package is not in `src/`.
- **RemoveNetwork**: only its router (`networkd_router.go:26-36`) is in `src/`; the method it calls is not, so there is nothing to translate.
- **Properties left out on purpose.** The start-up panic on a short conf line (`auth.go:52`) and the nil-user panic of the unix-socket check (`auth.go:59`) are modelled, but a pass property about either only restates the step that models it, and a violation run for the start-up panic does not fit in the twelve runs. The tdnf argv is modelled, but a reference argv written from the same rules as `TdnfOptions` would only re-encode the code, so no property compares them.
- **Known disagreements without a run.** The project uses its twelve runs for the findings above. The following disagreements are real, but no run checks them, and each is listed as a hazard in `PROJECT.json`:
  1. `buildAddressSection`/`buildRouteSection` write every section of a request into one `[Address]`/`[Route]` section, so only the last one survives (`networkd_network.go:185`). `UnitFile` keeps one value per key, so it cannot tell the sections apart.
  2. A repeated VLAN request appends `VLAN=` again (`networkd_netdev.go:111`). The model's `Lists` ignores how many times a name appears.
  3. A hostname describe can mix the names from before and after a concurrent SetHostname (`hostname.go:44`). The model keeps which keys are in the map, not their values.
  4. The tdnf handlers still run the command after answering a form error (`tdnf_router.go:85`). The answers are not kept.
  5. The same middleware double call of finding 6, applied to a configure request after a reload failure, truncates the file as in finding 2. This is the composition of two findings already shown.
- **tdnf, the rest**: `tdnf_router.go` calls `acquire*` functions and option types (ListOptions, ScopeOptions, ...) that `tdnf.go` does not define, so the two files come from different versions and do not build together. The commands with no `Acquire*` in `tdnf.go` (install, erase, update, search, ...) and the scope options are not modelled. Two hazards stay without a property: a `{pkgs}` value starting with `-` is read by tdnf as an option, and whether `IsBool` accepts "false" (then `?nogpgcheck=false` sets `--nogpgcheck`) depends on a package outside `src/`.
- **NETWORK_FILE**: CreateOrParseNetworkFile returns whatever unit networkd chose for the link, which may be a vendor file or one shared by several links. The model keys unit files by link, as the spec does.
- **The router of the sysnet handlers** is not in `src/`. `Server` assumes GET reads and any other method writes.
- **The remaining telemetry and I/O glue** (proc, link, capability, systemd router, pmctl) keeps no state of its own: proc and link read kernel state and convert it to JSON, the systemd router forwards to D-Bus functions that are not in `src/`, capability is one-shot set-up, and pmctl prints answers. The `log.Fatalf` in FetchMisc and FetchModules, which exits the daemon when a `/proc` file cannot be read, is listed as a hazard.
