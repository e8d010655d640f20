# Luminosity: specifications of the launcher, its configuration store and its releases

TLA+ modules that model the parts of this repository whose correctness depends
on order, interleaving or failure, the TLC configurations that check them on
small instances, and proofs of the properties that must hold for every instance.
Every definition is translated from the source named beside it in `PROJECT.json`
(`map`); paths below are relative to `src/`.

## 1. The system

A user runs `bin/luminosity <command>`. The **bootstrap** (bash) fetches, verifies
and caches the **launcher** (Rust) for the plugin's version and replaces itself with
it. The launcher answers `version`, `config`, `context` and `instructions` itself,
and resolves every other word to a **sub-binary** that it fetches, verifies, caches
and execs. Releases of all of these are made by a **release pipeline** (Python).

| Component | Source | State it keeps | Operations | Talks to |
|---|---|---|---|---|
| Bootstrap | `bin/luminosity` | staged shim, launcher + `.minisig`, temporary downloads in the cache directory | check the environment, probe the directory, stage the shim, verify, fetch, publish, exec | release server, verify shim, other bootstraps (shared files) |
| Verify shim | `cli/verify/src/main.rs` | none | verify one file against one key | called by the bootstrap |
| Cache root | `.../resolve/cache_root.rs` | a probe file | choose and probe the cache directory | environment, file system |
| Resolver | `.../resolve/mod.rs`, `cache.rs` | the cache directory: `{name}-{version}-{sha256}`, its `.minisig`, `.tmp-` files | find, reverify, evict, load manifest, fetch, verify, store, retain | fetcher, verification, other launchers (shared files) |
| Verification | `.../resolve/{verifier,keys,manifest}.rs` | none | verify a binary or a manifest, validate a manifest, look up the host's entry | called by the resolver |
| Fetcher | `.../resolve/fetcher.rs` | attempt count of one GET | GET with pinned scheme, redirect rule, retries | release server |
| Exec | `launch/core.rs`, `launch/outbound/exec.rs` | none | replace the process by the resolved file | kernel |
| Dispatch | `launch/mod.rs`, `main.rs`, `help.rs` | none | route the parsed command line | all of the above |
| Config service | `cli/config/src/service.rs`, `node.rs`, `key.rs` | none | get over two levels, set in one level | config store |
| Config store | `cli/config-adapters/src/*` | `.luminosity/config.md`, `config.local.md`, temporary files, skill fragments | read and split, render over the existing body, write atomically, refuse escaping paths | file system, other processes (shared files) |
| Fragments | `cli/config/src/fragment.rs`, `context_command`, `instructions_command`, `command_support` | none | combine the bodies of both levels, degrade under `--fail-safe` | config store |
| Release pipeline | `tasks/{release,git,github,version,sign,build,marketplace}.py`, `tasks/shared` | four version files, artefacts, git refs, a draft release | prepare, sign, finalise | git remote, GitHub releases |

(`...` is `cli/launcher/src/launch/outbound`.)

What makes them hard, and what makes them correct:

- **Resolver.** No lock protects the cache directory: the design document asks
  for a lock per key, the code has none. Any two file-system calls of two
  launchers interleave; the binary and its signature are published by two
  renames and removed by two unlinks; a launcher may be killed between any two;
  the directory is user-writable and the host reclaims it. Correct means: what is
  executed was signed and published for this version; nothing unverified ever
  appears under a final path; a cached command needs no network; a poisoned entry
  heals; the cache stays bounded; everybody ends.
- **Bootstrap.** The same shape with fixed names: concurrent first use, a shim
  copied over one that may be running, a signature moved before its binary.
- **Config store.** A `set` reads the document, edits, reads again for the body,
  and renames; two sets, or a set and an editor, interleave. Correct means: no
  reader sees a torn document, the body survives, only the key changes.
- **Release pipeline.** Each step talks to a service that may fail after it has
  acted. Correct means: no public release with unverified assets, no tag that no
  commit on the main branch has, a failed release can be repeated.
- **Fetcher, cache root, fragments, dispatch.** Sequential over an environment that
  changes: every read may fail or find another document, every attempt may be spoilt,
  a directory may stop to be usable. Correct means: a prompt degrades source by source
  and never as a whole, a retry masks what it should, the launcher keeps its files where
  the bootstrap keeps the launcher, and every invocation ends.

`PROJECT.json` lists the hazards one by one, each with its line and the
properties that cover it, or the reason why none does.

## 2. Modules

| Module | Models | Status |
|---|---|---|
| `Verification` | the trust decisions, as operators over opaque contents | done |
| `Resolver` | launchers sharing one cache directory, one action per call | done |
| `MCResolver` | small releases and servers for TLC | done |
| `ResolverProofs` | theorems about `Resolver` | done |
| `ConfigDocument` | documents: how a file splits, resolve, insert, render, what a prompt sees | done |
| `ConfigContract` | abstract specification of concurrent config commands | done |
| `ConfigStore` | config commands on one `.luminosity` directory, one action per call; implements `ConfigContract` | done |
| `MCConfigStore` | small documents and commands for TLC | done |
| `ConfigStoreProofs` | theorems about `ConfigStore`, the refinement among them | done |
| `Bootstrap` | bootstraps and verify shims sharing one cache directory, one action per command that touches a shared file | done |
| `MCBootstrap` | a launcher built and signed twice, and junk | done |
| `Fetcher` | one GET: attempts, redirects, pauses | done |
| `Discovery` | the walk up to the project root, while projects and repositories come and go | done |
| `Prompt` | `context` and `instructions`: skill names, reads, trimming, blocks, `--explain`, the fail-safe boundary; extends `Discovery` | done |
| `Launcher` | one invocation from the bootstrap's hand-over to its end; extends `Prompt` and `Fetcher` | done |
| `MCLauncher` | command lines, environments and documents for TLC | done |
| `Release` | runs of the release pipeline against the remote and the release service | done |
| `MCRelease` | two trees, interchangeable | done |
| `BootstrapProofs` | theorems about `Bootstrap` | done |
| `DiscoveryProofs` | the invariant of the walk, step by step | done |
| `PromptProofs` | lemmas about trimming, combining and the blocks; the invariant of a prompt, step by step | done |
| `LauncherProofs` | theorems about `Launcher`, with `Fetcher`, and the two above for `Prompt` and `Discovery` | done |
| `ReleaseProofs` | theorems about `Release` | done |

`Launcher` sees the bootstrap's work on its files, the resolver's on its cache and
`config`'s on its documents as one step each that succeeds or fails; `Bootstrap`,
`Resolver` and `ConfigStore` are those steps in detail. `Resolver` in turn sees a GET as
one step, which `Fetcher` is in detail.

### Plan, in order

1. The syntax of keys, as the question which command lines reach a document.
2. `Resolver`'s GET as an instance of `Fetcher`: that each result of the step is one that
   `Fetcher` can return, and no other.
3. The configuration tools' file formats (the order of keys, dropped comments) only if a
   property about them turns up.

## 3. `Verification` and `Resolver`

**Data.** Bytes, digests, signatures, manifests, names and versions are opaque.
`Sha256` is a function, `Minisigned` the set of (key, data, signature) that minisign
accepts, `Parsed` what serde reads from a manifest body. That two contents never
share a digest is the separate assumption `CollisionFree`; only one theorem uses it.
A cache entry is a record of name, version and digest, which is what its file name
spells.

**State.** `bin`, `sig` and `mtime` are the cache directory; `tmpBin`, `tmpSig`,
`stamp` the temporary files, one pair per process since the pid is in their names;
`pc` is the call a process makes next, and `listing`, `path`, `buf`, `sigbuf`,
`manifest`, `stats`, `victim` its local variables. `outcome` is the variant of
`ResolutionError` it ended with, `ran` the bytes it was replaced with. The other
variables are history and restrict nothing: `late` (the file was overwritten after
this process read or stored it), `damagedBin`/`damagedSig` (overwritten and not
stored again since), `kept` (the command was cached undamaged at launch and nobody
else has touched its entries since) and `overdue` (a retention of that name was cut
short).

**Actions and code.**

| Action | Call |
|---|---|
| `Launch`, `RejectName` | `dispatch` to an external command; a name that is not UTF-8 |
| `FindList`, `FindProbe`, `FindMiss` | `cache::find`: `read_dir`, `exists` of each signature, `None` |
| `ReadBinary`, `ReadSignature` | `reverify`: two reads, then `verify_binary` |
| `EvictBinary`, `EvictSignature` | `cache::evict`: two unlinks, errors ignored |
| `GetManifest`, `GetManifestSig` | `load_manifest` and the lookup of the host's entry |
| `GetAsset` | the asset's GET and `verify_binary` |
| `WriteBinary`, `RenameBinary`, `WriteSignature`, `RenameSignature` | `cache::store` |
| `ListCache`, `StatCache`, `CompareWithCap`, `RemoveBinary`, `RemoveSignature` | `enforce_retention_cap` |
| `Exec` | `run_external`, `UnixExec::exec`: the kernel opens the path again |
| `Crash` | a kill between two calls |
| `DamageBinary`, `DamageSignature` | the user or the host overwrites or removes a cached file in place; also what a power loss does to unsynced data |
| `Tick` | the clock of modification times, monotone, ties allowed |

**Abstractions.** A GET is one step that returns a body or an error of a constant
set, its retries hidden. `read_dir` is one step: the list it gives is that of one
moment, each item is examined later in any order. A write and its chmod are one step,
because nobody else opens a temporary file. The environment damages files that exist;
it does not plant a validly signed file of another command under a new name, which
nothing on a cache hit would notice (the digest and the signature are checked there,
the binding to name and version only when the entry is stored). Names are unambiguous:
`{name}-{version}-` is taken to determine both.

## 4. What the runs of `Resolver` check

| Run | Instance | Properties |
|---|---|---|
| `races` | 2 processes, 1 command published twice under two digests, room for 1, network failures, kills, 1 damage | `LaunchInv`, `ExecAuthentic`, `FinalPathsVerified`, `CachedResolvesOffline`, `RetentionHolds` |
| `faults` | 1 process at a time, 4 commands (two versions, a name that extends another by a dash, a name that is not UTF-8), room for 1, any server answer, failing calls, kills | `TypeOK`, `ExecAuthentic`, `RetentionHolds`, `VictimsAreOldest` |
| `heals` | 2 processes, 1 command, honest release, 3 damages, fairness | `SelfHeals`, `Terminates` |
| `prefix`, `neighbour` | small instances | a documented promise each, which the code breaks (section 10) |

**Properties.** `ExecAuthentic`: what runs was signed by a trusted key and is
published by a signed manifest of the launcher's version under that name, unless the
file was overwritten after this process checked or stored it; other launchers that
evict, store and retain the same entry at any moment do not break it.
`FinalPathsVerified`: every file under a final path is published and authentic unless
damaged, and a pair that is visible together belongs together. `RetentionHolds`: when
nobody runs, no name exceeds the cap, unless its last retention was cut short.
`VictimsAreOldest` is the other half of it: what retention removes has been stored again since
its time was read, or `Cap` others that it listed are no older, or have changed since, or could
not be read. The exceptions are real. "Never removes the newest entry" (`cache.rs:135`) is true of
a launcher that has the cache to itself, whose calls succeed and whose clock tells the entries
apart; between the `stat` and the unlink a peer may store the victim anew, and of two entries of
one time the directory's order decides.
`CachedResolvesOffline`: a process that finds its command cached ends in exec whatever
the server says, if nobody else removes or damages its entries. `SelfHeals`: an
invocation that starts after the last damage, and from then on has the cache to itself,
ends in exec, whatever others that overlapped the damage have left behind. (With company
it may not: another process that judged the old files may evict the new ones.)
`Terminates`: every invocation ends.

**Bounds.** Two processes are enough for every pair of calls to interleave; a third
would add a third retention. Two digests of one command, or two versions, and `Cap = 1` are the
smallest cache in which retention removes something; the default cap of 3 differs only in the
number of entries. Three values of the clock (`faults`) distinguish older, equal and newer; in
`races` its two values make ties the normal case. `MaxDamage` bounds the damages of a whole
behaviour: `heals` has more than a pair has files, `races` one, which is enough to separate a
file from what was verified of it, and `faults` none, since its calls fail by themselves; the
proofs have any number. `faults` runs one process at a time, so it is in `ResolverProofs` that
`VictimsAreOldest` meets company. `heals` has one version: with two and equal modification
times the directory's order may make retention remove the entry just stored, whose exec then
fails (the tie is allowed by the code). Processes restart without bound.

**Fairness.** `WF_vars(Step(p))` for each process: a process that can make its next
call makes it. File-system calls return, a GET ends at its total timeout
(`fetcher.rs`, 300 s) and there are at most three, and no step of the code waits for
another process. Launches, kills, the clock and damage are not fair. `SelfHeals` is
stated for a server that publishes an honest release and calls that do not fail; without
both it is false and should be. Deadlock is checked in every run: a finished process
can be launched again.

## 5. `ConfigDocument`, `ConfigContract`, `ConfigStore`

**Data.** A document has a kind (its frontmatter is a mapping, parses as something
else, does not parse, or is never closed), a tree and a body. A tree is a function from
dotted keys to what stands there: nothing, a scalar, a section or a list; `Above` says
which keys are on the way to which. `Typed` is what parsing makes of a scalar (an
integer above `i64` becomes a string). Scalars and bodies are opaque.

**State.** `file` holds the documents of both levels, `tmp` the temporary file of each
process (its pid is in the name), `pc` the call a process makes next, `todo`, `got`,
`draft` and `page` its local variables (levels still to read, documents read, the edited
tree, the rendered text) and `reply` how it ended. A process runs one command, as a
`luminosity config ...` process does. `window` (the documents in place at some moment of
the command) and `overlapped` (levels edited between a set's second read and its rename)
are history.

| Action | Call |
|---|---|
| `Begin` | `run`: the command starts |
| `CheckPath`, `Read` | `refuse_escaping_path`, then `read_and_split`, for each level in the order of the code (`get`: personal, team; fragments: team, personal) |
| `Return` | the rest of `get`, or of `assemble` |
| `Modify` | the rest of `ConfigService::set`: `insert`, or `PathConflict` |
| `CheckAgain`, `ReadAgain` | `FileConfigStore::write`: containment and the second read, which gives the body |
| `CreateTemp`, `WriteTemp`, `Rename` | `atomic_write`: a partial file, the whole file, the rename |
| `Crash` | a kill between two calls |
| `Edit` | an editor or git puts a whole document in place, or removes it |

**Abstractions.** An editor replaces a document at once; the order of keys, comments
(which a set drops, as the plan says), the syntax of keys and links in the middle of a path are
left out. How the root is found is in `Discovery`, how bodies are trimmed and joined in `Prompt`.
Processes have different pids: two that share a directory from different pid namespaces
could share a temporary file, which the model excludes.

**The contract.** Nothing is locked, and
`meta/plans/2026-07-05-0009-multi-level-configuration-system.md:128-134` accepts that of
two overlapping sets the last one wins. `ConfigContract` says what remains: an answer is
computed from documents each of which was in place during the command; a set replaces its
document in one step, by one that changes its key in a document that was in place and
keeps a body that was; a command that fails has changed nothing and there was a document
(or a failing call) to justify its error; and nothing is answered or set that was computed from a
level whose document was a link out of `.luminosity/` throughout the command. That is all the
containment the code has: it checks a path and opens it afterwards, so a link that replaces the
document between the two is followed (section 10). When nothing overlaps, each window has one
member, and this is sequential correctness. The mapping hides every local variable;
`phase` is `New`, `Running` or `Ended`.

| Run | Instance | Properties |
|---|---|---|
| `contract` | 2 processes, 5 commands on both levels, 2 edits (well-formed, malformed, a link), failing calls, kills | `StoreInv`, `TypeOK`, `KeepsContract`, `BodySurvivesSets`, `MalformedSurvives` |
| `prose` | 1 set on a document that opens with a thematic break | `ProseSurvivesSets`, which the code breaks |

`BodySurvivesSets` and `MalformedSurvives` speak of levels that were never edited while a
set was between its second read and its rename: such an edit is lost, or replaced whatever
it left, and nothing in the code could prevent it. They do cover every other overlap: sets
that finish in any order, edits before the second read, edits that leave a broken document.

**Bounds.** Two processes have every interleaving of two commands; what a third adds for
the invariant is covered by the proof. Two edits are enough to change a document and
change it back, and to put one edit before each read of a set. Three keys are the
smallest tree with a key in a section and one beside it. All commands may end, so the
runs do not check deadlock, and no fairness is assumed: the code has no loop.

## 6. `Bootstrap`

**State.** `shim` is the staged shim: absent, empty, torn or whole, and who truncated it last;
`launcher` (content and mode) and `sig` the cached pair; `tmp` the `.tmp-launcher-$$` pair of
each invocation; `boot` where each invocation is, whether it asks about the cached pair or its
download, the signature the shim has read, and how it ended. `late` is history: somebody
else wrote the launcher between this invocation's verdict and its exec. So is `hollow`: an empty
shim gave the verdict on what this invocation publishes or is about to execute.

| Action | Line of `bin/luminosity` |
|---|---|
| `Start` | the checks and the choice of the directory (16-97), as one step that may fail |
| `OpenShim`, `WriteSome`, `FinishCopy`, `ChmodShim` | `cp`: truncate, the first bytes, the rest or an error that leaves the file as it is; `chmod` (102-106) |
| `CheckCached` | `[[ -x ]] && [[ -f ]]` (138) |
| `RunShim`, `ReadSignature`, `ReadTarget` | `verify_launcher` (112) and the call in `fetch_and_verify` (131): the shim is executed, reads the signature, reads the target |
| `EvictBinary`, `EvictSignature` | `rm -f`, two unlinks whose result nobody asks for (139) |
| `FetchBinary`, `FetchSignature` | the two downloads, and the `chmod` whose failure is ignored (117-128) |
| `MoveSignature`, `MoveBinary` | `mv && mv` (135) |
| `Exec` | `exec`, by path (146) |
| `Kill`, `DamageLauncher`, `DamageSignature` | the environment |

**Abstractions.** A shim of which a part has been copied cannot be run. An empty one can:
`execve` refuses it with `ENOEXEC`, bash takes it for a script, and a script without commands
succeeds (`Believed`). Linux refuses to run a program that is being written and to write to one
that runs, macOS does neither and may kill a program that was written to: the model has both, so a
shim that somebody is copying may be refused or be taken as it is. One version and one platform: the launcher's name
carries them. The shim's name does not, so bootstraps of two plugin versions that share an
XDG directory copy two different shims over the same path; the shim of either version gives
the same verdict for the same key, which each passes from its own plugin root.

**Properties** (run `bootstrap`: 2 invocations, 3 faults of any kind, an empty cache or a full
one). `ExecVerified`: what is executed was verified, unless it is `late` or the verdict `hollow`,
whatever peers evict and publish in between. `PublishesVerified`: no step of the script puts
anything else under the launcher's name, with the same exception. That the exception happens, and
breaks what the script promises, is run `emptyshim` (`NeverExecsUnverified`, section 10). `TempsRemoved`: no temporary file is left, except after a failed move.
`RestsUsable`: invocations do fail each other (a peer's copy makes the shim unrunnable, and
the launcher is evicted for it), but as long as nothing else fails not all of them lose, and
what is left can be verified by the next. `SelfHeals`: whatever faults have left behind, the
next invocation that is alone launches. `HitNeedsNoNetwork`: a good pair is run without a
download.

**Bounds.** Two invocations have every interleaving of two scripts; three faults are enough to
damage each file of the pair and fail one call besides. The invocations of a behaviour need not overlap, so the second is also
the one that finds what the first has left.

**Fairness.** Weak fairness of each invocation's next step once it has started: the shell goes
on when a command returns, `curl` and `wget` return when the server or the network ends the
transfer, and no command waits for another invocation. Starting, kills and damage are not
fair. Deadlock is checked: at the end only stuttering is allowed, and only when all have ended.

## 7. `Fetcher`, `Discovery`, `Prompt`, `Launcher`

**State.** `request` is the parsed command line, `pc` the next step, `exit` the exit code.
`Fetcher`: `call` (where the GET is, or what it returned), `attempt`, `hops`, `secure`.
`Discovery`: `marks` (the `.luminosity` directories and `.git` entries of each ancestor of the
current directory), `walk` (the ancestor to be examined next), `base` (where the walk ended); and,
as history, `steady` and `ever`, the marks there all along and at some time since it began.
`Prompt`: `team` (the document of the first level while the second is read), `project` and
`skill` (the two `Section`s), `stdout` and `stderr`. `Launcher`: `env`, `usable` (the
directories where a probe succeeds now), `candidates` (still to probe), `bootRoot` and `root`
(the directories the bootstrap and the launcher took), `reason` (the `ResolutionError`).

| Actions | Code |
|---|---|
| `BootProbe`, `BootFails`, `BootExecs` | `resolve_cache_dir` of `bin/luminosity`, its `fail`, its `exec` |
| `Reject`, `Dispatch`, `Version`, `Config` | `main`, `is_root_help`, `dispatch`; `version` and `config` |
| `Discover`, `Ascend`, `Leave` | `FileConfigStore::discover`, one ancestor of `discover_root` a step, and the end of the store |
| `LocateConfig`, `LocateSource`, `NoDirectory` | `discover_config_service` once for a command, `discover_store` anew for each level and for `--explain`; a current directory that is gone |
| `RootProbe`, `NoRootFound`, `BuildFails` | `cache_root::resolve`, one probe per step; the keys or the client that cannot be built |
| `Find`, `StartGet`, `GetFailed`, `GetUsed`, `Exec` | `FetchVerifyCacheResolver::resolve`, `load_manifest`, `fetch_verify_store`, `fetch_error`, `run_external`; `help_section` for the root help |
| `Redirect`, `SendFails`, `NotPublished`, `Success`, `ReadBody`, `Retry` | `Fetcher::get` and `try_get` |
| `ReadTeam`, `ReadPersonal` | the two reads of `FragmentAssembler::assemble`, each through a store discovered for it |
| `ParseName` | `resolve_skill_name` |
| `PrintBlocks`, `Explain` | `run` of both commands |
| `Change` | a directory is remounted, filled or repaired; a `.luminosity` directory or a `.git` entry is created or removed |

**Abstractions.** A document is a sequence of lines, of which the model sees which are blank.
A skill name is the set of the kinds of characters that occur in it, which is what
`SkillName::parse` looks at. The two questions `discover_root` asks of an ancestor are one step.
What the network does to an attempt is open, and only what `try_get` tells apart is seen:
an error, 404, another status, a body. Of the resolver's work between the GETs only success
or the error's variant is kept.

**Properties** (run `launcher`: every kind of command line, 7 environments, any documents, a
project above a repository, one change of the directories or of the marks). `FailSafe`: no error of a document, a directory or
the server makes a prompt under `--fail-safe`, with or without `--explain`, or the root help fail,
once the command line has been accepted; the exit code is 0, or 101 when nobody reads the output
and `println!` panics (section 10 on why it does not say more). `SourcesStandAlone`:
each requested source has its block or its notice, whatever became of the other, the
project's first; a command that fails has printed no half prompt. `TextIsWhole`: a block's
text is each document without the blank lines around it, said in terms of the lines, not of
`TrimBlankLines`. `ExplainAgrees`: a level is reported as present exactly if the block has its
text. `NeverAboveRepo`: whatever is created or removed during a walk, it ends above no mark that
was there all along. (The walk is made anew for each level, so a project that appears between
two reads does make one fragment of two projects; nothing in the repository excludes that.) `FaultsMasked`: a GET is unreachable only after `MAX_ATTEMPTS` spoilt attempts; fewer,
and redirects within the limit, never reach the caller. `BuiltinsStayLocal`: built-ins touch
neither the cache directory nor the network. `RootsAgree`: while directories stay as they are,
the launcher takes the directory the bootstrap took. It is stated for environments with
`LUMINOSITY_CACHE_DIR`, `XDG_CACHE_HOME` or `HOME`: with none of them the bootstrap falls back
to `/.cache/luminosity`, and the launcher reports `CacheRootUnavailable`. `Ends`: every
invocation ends.

**Bounds.** `MAX_ATTEMPTS` and `MAX_REDIRECTS` have the code's values. Three documents (blank;
text between and around blank lines; a single line) have every case of trimming and joining.
One change of the directories is enough to separate the bootstrap's choice from the launcher's,
and one mark that comes or goes to change a walk under way. Three ancestors are one below, at and
above a repository. Prompts and the walks are independent of the environment, so command lines
that print are combined with marks and the others with environments and directories.

**Fairness.** Weak fairness of the invocation's next step: reads of files return, the pauses
are finite, and a GET ends at its connect or total timeout (`fetcher.rs:13-16`). The server and
the network are not fair: every attempt may be spoilt. The run does not check deadlock, since
an invocation ends.

## 8. `Release`

**State.** `main` and `tags` are the remote; `rel` the releases of the service, draft or
public, with the state of each asset; `tree` each checkout (what it was pulled from, its own
commits, its four version files, its tags, the key its artefacts were signed with); `run`
where each run is; `preserved` the versions whose verification failed; `spent` the bounds.
`clean` is history: the run started from a fresh checkout and has met no fault, no merge and no
other run's push.

| Action | Code |
|---|---|
| `Begin` | `prerelease`, `release`, or a job of `main.yml`, from a fresh checkout or in the tree of the run before |
| `Pull`, `Bump`, `Build`, `Sign` | `git.pull`, which fast-forwards over changed files unless upstream changed them too; `version.bump` and `write`, cut short after any file; `build.release`; `sign.sign`, with the wrong key too, which writes the manifest's version from the checksums |
| `Check`, `CommitVersion`, `TagVersion`, `Push` | `version.check`, and `git.py` |
| `CreateRelease`, `UploadAssets`, `Verify`, `Undraft`, `Cleanup` | `github.py`: the draft, the uploads of which any prefix may land and one be damaged, the verification, `--draft=false`, and the two `except` branches (an error during the verification that is not an `AssetVerificationError` takes the one that deletes) |
| `Kill`, `Triage`, `MergePullRequest` | the runner dies; a maintainer deletes a preserved draft and its tag (`RELEASING.md`); somebody else's commit lands |

A call fails, or takes effect and is reported as failed, wherever it talks to a service.
Runs overlap: the concurrency group of `main.yml` serialises CI, but not a maintainer's
local run. One platform stands for the four, which go through the same loop body.

**Properties** (run `release`: 3 runs in 2 trees, 2 faults). `PublicVerified`: a public release
has the binary, signatures and manifest that were built, under the committed key; the debug
archives are uploaded and never downloaded again, so it does not speak of them (section 10). `TagsOnMain`:
each tag is of the commit of `main` that bumps to its version, and each release has its tag.
`VersionsAscend`: `main` never goes back to an earlier version. `AnchorsAgree`: past its bump a
run's four version files agree, and in each commit of `main`. `CleanPrereleasePublishes`: a
prerelease that meets no fault of its own is not wedged by anything earlier runs left.
`PreservedForTriage`: no cleanup removes a draft that is kept for triage.

A failure of `gh release edit --draft=false` that is reported after it took effect leads to
the deletion of a release that was public for a moment. The model has that step; no promise of
the repository excludes it.

**Bounds.** Three runs are a dead one, its rerun and one that overlaps; two faults are a death
and a service's lie. Nothing here is fair: the pipeline may stop anywhere. Deadlock is checked.

## 9. What is proved

`ResolverProofs`, for any numbers of processes, commands, versions, contents, any
server, any cap, with kills, failing calls and damage:

- `TypeCorrect`: `Spec => []TypeOK`;
- `StoreDiscipline`: `Spec => []LaunchInv`;
- `Authenticity`: `Spec => []ExecAuthentic`;
- `CacheVerified`: `Spec => []FinalPathsVerified`, under `CollisionFree`;
- `RetentionBounded`: `Spec => []RetentionHolds`;
- `OldestGoFirst`: `Spec => VictimsAreOldest`;
- `ResolvesOffline`: `Spec => []CachedResolvesOffline`, if no file of the directory has a name
  that is not UTF-8. Run `neighbour` is the counterexample without that hypothesis.

`TypeOK` is not inductive by itself: that a rename never publishes a torn file depends
on the step before it, which `InHand` states (what a process holds at each call); both
together are `TypeInv`. `ExecAuthentic` needs to know what was established by steps
long past and is still true although other processes acted since. `LaunchInv` adds:
`Grounded` (every entry that exists, is listed or is held was published by a signed
manifest of that version), `VerifiedBeforeStored` (what `store` holds in memory and in
temporary files passed `verify_binary`), `UndamagedVerified` (a file not damaged since it
was stored is genuine) and `ReliedOn` (the binary a process has read or staged stays
what it was, is replaced by a genuine one, or disappears, unless it is damaged). Each is
proved step by step from the others. `CacheVerified` needs `CollisionFree` because a
signature is stored for the content that had the digest: only when two contents cannot
share one does it also sign the content another process has stored under that name.

`RetentionHolds` speaks of the moment when nobody runs; its invariant must say why that moment
will be a good one. `RetentionInv`: each name is within the cap, or is `overdue`, or some process
`Trims` it, which is to say that it has yet to list the directory, has everything of that name in
its list or its statistics, or is removing one after the other until the rest is within the cap.
Other processes only help: an entry that appears meanwhile belongs to a process that will list the
directory itself. `OldestGoFirst` needs `RowsInv`: each entry is examined once, and nothing is
removed unless more than the cap are left, so that the rows besides the victim's, all of them at
least as young, are `Cap` or more. `OfflineInv` follows a process that
found its command complete: whatever it has listed is still there, what it reads is genuine, and
the branch that would evict is never taken. It needs `LaunchInv`, for only an undamaged file is
known to be genuine.

`ConfigStoreProofs`, for any processes, commands, documents and edits:

- `InvariantHolds`: `Spec => [](TypeOK /\ StoreInv)`, and `TypeCorrect`;
- `ContractKept`: `Spec => KeepsContract`, the refinement;
- `BodiesSurvive`, `MalformedKept`: the two action properties, of which the first excludes
  frontmatter that is prose (section 10, `prose`);
- `InsertIsSound`: `insert` keeps trees trees, a `get` finds the new value, and every
  other key resolves as before.

`StoreInv` has four parts for each process: `ReadsAreCurrent` (what was read is in the
window), `DraftIsASet` and `PageIsWhole` (what is going to be written, in terms of what was
read), and `BodyIsCurrent` (without an edit in between, a set that writes holds the body
that is still in place). The last one is what `BodySurvivesSets` needs: it is stated of all
writers at once, because the rename of one changes the document under the others, and is
preserved because the body that it writes is by the invariant the one it replaces. The
refinement maps each step to a step of the contract or to a stutter, with the windows as
witnesses.

`BootstrapProofs`, for any number of invocations, any contents and any faults:

- `OnlyVerifiedRuns`: `Spec => []ExecVerified`, empty shims excepted;
- `OnlyVerifiedPublished`: `Spec => PublishesVerified`, with the same exception;
- `NoTempsLeft`: `Spec => []TempsRemoved`, and `TypeCorrect`;
- `SomebodyLaunches`: `Spec => []RestsUsable`;
- `HitsStayOffline`: `Spec => HitNeedsNoNetwork`.

The invariant says for each invocation what it relies on (`Relies`: at `exec` the launcher
is genuine or gone, unless somebody wrote it since; at the moves the download is genuine)
and which temporary files it has at each step (`Holds`). Verdicts are about a file that
others may replace at any moment; they stay true because whatever others move there is
genuine too. `RestsUsable` is about all invocations at once and needs a second invariant,
`Calm`, for behaviours without faults: a torn shim is being copied by the one who truncated
it last (`ShimComes`), and if a file of the pair is missing, somebody is on the way to put
it there (`PairComes`). It is preserved because an invocation that is refused by a torn shim,
and evicts the launcher for it, leaves the copier behind that still has everything before it. `HitNeedsNoNetwork` is a property of
what follows a moment, not of states; `Hit` is what holds from that moment on, and is preserved
because everybody else has ended and the verdict is about the pair that is still in place.

`LauncherProofs`, for any limits, environments, requests and documents:

- `ErrorsDegrade`: `Spec => []FailSafe`;
- `RetriesMaskFaults`: `Spec => []FaultsMasked`;
- `BuiltinsNeedNothing`: `Spec => []BuiltinsStayLocal`;
- `SameRoot`: `Spec => []RootsAgree`, and `TypeCorrect`;
- `EachSourceSpeaks`, `NothingIsCut`, `ExplanationsHold`: `Spec => []` of `SourcesStandAlone`,
  `TextIsWhole` and `ExplainAgrees`;
- `StaysBelow`: `Spec => []NeverAboveRepo`.

`OnPath` ties each step to the commands that reach it, which is why a built-in is `Local`;
`Counted` equates the attempts counted with those that were spoilt; `Chosen` says that each
search, however far it is, ends in the directory it would have found had it looked at all
candidates at once. `FailSafe` needs `OnPath`: only the commands it speaks of may print.
`Placed` adds to `NeverAboveRepo` that a walk under way has left no steady mark behind.

The three properties of a prompt are about what was printed, long after it was read. `PromptInv`
keeps the two `Section`s that decide it: `stdout` is empty or the blocks of both, `stderr` their
lines, and a section is empty only if its source was not asked for. That the properties follow
from this is the work of the lemmas about text in `PromptProofs`, for documents of any length:
`Trimmed` (`TrimBlankLines` is empty exactly if there are no words, and otherwise cuts only blank
lines and ends in words), `Combined` and `FragmentFacts` (what the joined text says, and where
its parts are), `BlockPositions` (which block is where, and no source has two) and `InConcat` and
`SectionLines` (each line of `--explain` is about one level of one section).

`ReleaseProofs`, for any number of trees, runs and faults:

- `TypeCorrect`: `Spec => []TypeOK`;
- `PublicIsVerified`, `TagsAreOnMain`, `MainAscends`, `FilesAgree`, `CleanRunsPublish` and
  `TriageKeepsAll`: `Spec => []` of `PublicVerified`, `TagsOnMain`, `VersionsAscend`,
  `AnchorsAgree`, `CleanPrereleasePublishes` and `PreservedForTriage`.

None is inductive by itself. What a run will push was fixed when it pulled, and others push
in between: `Forward` says that a tree continues `main` from where it was pulled with
coherent commits whose versions ascend, which is what a fast-forward then adds to `main`.
`Placed` says that a run past its push owns its version's tag and its draft, and `Alone`
that no two such runs have the same version, since the push of the tag was refused to one of
them; without both, a clean up or an upload could be into another run's release, and the
kept drafts of `PreservedForTriage` could be the next run's. `Unspoilt` follows a run that
nothing has interfered with from step to step, up to why its version is a new one. `TypeOK`
bounds the versions, and what bounds them is the number of runs: `Counted` has a number below
which all versions are, and which together with the runs that have still to bump is at most the
number of runs begun, though trees are pulled, merged, abandoned and begun from again.

The proofs use the named assumptions of the modules, besides the two hypotheses named above.
Every safety property that a passing run checks is stated by one of these theorems. Only
model-checked are the liveness properties (`SelfHeals`, twice, `Terminates` and `Ends`), which
need fairness and `ENABLED`, out of the proof system's reach, and the promises of section 10,
which are false.

## 10. Where the code and its documents disagree

1. **`prefix`** - `enforce_retention_cap` "for `name`" filters by `"{name}-"`, which the
   entries of `foo-bar` also match for `foo`.
2. **`neighbour`** - "an already-resolved binary resolves offline", but `find` returns
   `None` at the first file whose name is not UTF-8 (`to_str()?`); retention skips it.
3. **`prose`** - "prose opening with a thematic break is never silently truncated", for
   `config.md`'s body too (`cli/config-adapters/src/store.rs:13-17`). Reading a prompt
   keeps the promise; a `set` does not: `preserved_body` returns what is below the second
   fence also when what is above it is no mapping, and `set` starts from an empty one.
4. **`rerun`** - "re-running from a clean tree is safe" after a run that died between push
   and release creation (`RELEASING.md:150-152`). It is for a prerelease, which bumps to a
   fresh version (`CleanPrereleasePublishes`). A stable run finalises the version it finds,
   which is the one the dead run has pushed and tagged: the rerun cannot land, and somebody
   has to remove the tag or cut the release by hand.

5. **`emptyshim`** - the bootstrap "never execs an unverified binary" (`bin/luminosity:7-8`), and
   "an unrunnable shim, not only a bad signature, counts as not verified" (`:113`). The verdict is
   the exit status of the staged shim (`:114`, `:131`); bash gives an empty executable file the
   status 0; and `cp` empties the shim in place before it writes it (`:103`). An invocation that
   has staged its shim, and meets one that a peer has emptied (and was killed, or found the disk
   full, or on macOS is still copying), executes what is in the cache, and publishes what it
   downloads, as it is. Copying to a temporary name and renaming would close it.

Four more are not runs.

- **Containment** (`cli/config-adapters/src/store.rs:8-12`): a document that is a link out of
  `.luminosity/` is "refused, never followed". `refuse_escaping_path` looks at a path that is
  opened afterwards: if the document becomes such a link in between, a `get` or a prompt reads what
  it leads to (`ConfigStore`: `CheckPath`, `Edit`, `Read`). Without such an edit the promise is
  kept, and that is what `KeepsContract` says.
- **Debug archives** (`RELEASING.md:31-33`, `:137`): finalise "uploads every asset, re-downloads and
  re-verifies each one", and a release has a `.debug.tar.gz` for each platform (`:45`).
  `github.py:214-229` downloads binaries, signatures and manifest; a damaged archive is published
  (`Release`: `UploadAssets`, `Verify`). `PublicVerified` says what the code verifies.
- **"Never exit non-zero"** (`cli/launcher/src/launch/inbound/cli.rs:35-37`, `:53-55`) of
  `--fail-safe`, and "`--explain` is never a hole in the fail-safe boundary"
  (`command_support/mod.rs:90-92`). Two ways past it are left: a `--skill` that is not UTF-8, which
  clap refuses with 2 before the boundary is reached (`Launcher`: `Reject`), and an output that
  nobody reads, at which `println!` panics and the process ends with 101 (`Prompt`: `PrintBlocks`).
  The caller the option is for reads the output. `FailSafe` says what is left: no error of a
  document, a directory or the server is reported by the exit code.
- The **lock per cache key** of a plan
  (`meta/plans/2026-07-03-0008-static-binary-distribution-and-launcher.md`, 816-843), which the
  code does not have: a launcher can lose the entry it has verified to a peer's retention and end
  with an `Exec` error.

## 11. Not modelled

- What `minisign`, `serde`, `reqwest`, `gh` and `git` do inside, seen through their results.
- The syntax of keys, the order of keys in a document, the comments a set drops, and links in
  the middle of a path.
- The wording of notices, help and errors.
- The steps before the bootstrap's cache directory (platform, version, `curl` or `wget`):
  one step that may fail. The probe file of a cache directory.
- Cross-building, linkage checks, the marketplace and changelog files: steps of a release
  that succeed or fail.
- The developer tooling under `tasks/` (formatting, linting, tests, dependency checks) and
  the skills and documents: no state of the running system.

## 12. Running

    tlc -config MCResolver_races.cfg MCResolver      # and the other .cfg files
    tlc -config MCConfigStore_contract.cfg MCConfigStore
    tlc -config MCBootstrap_bootstrap.cfg MCBootstrap
    tlc -config MCLauncher_launcher.cfg MCLauncher
    tlc -config MCRelease_release.cfg MCRelease
    tlapm ResolverProofs.tla                         # and the other *Proofs modules
