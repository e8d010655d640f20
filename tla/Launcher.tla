------------------------------ MODULE Launcher --------------------------------
(***************************************************************************)
(* One invocation of bin/luminosity: the bootstrap chooses a cache         *)
(* directory and hands over, the launcher (launcher/src/main.rs,           *)
(* launch/mod.rs) parses the command line and runs a built-in or resolves  *)
(* an external command, for which it chooses its own cache directory       *)
(* (resolve/cache_root.rs) and fetches what it needs.                      *)
(* What the bootstrap does to the launcher's file is in Bootstrap, what    *)
(* the resolver does in its cache in Resolver, and what config does in     *)
(* ConfigStore: here they succeed or fail.                                 *)
(***************************************************************************)
EXTENDS Prompt, Fetcher

CONSTANTS
    Setups,        \* command lines, with the surroundings they are run in
    Usables,       \* sets of directories that can be written and executed in
    MaxChanges,    \* bound on how often the surroundings change
    NoRoot

Directories == {"override", "primary", "xdg", "home", "slash"}
Commands    == {"version", "config", "context", "instructions", "external",
                "help", "usage"}
Variables   == {"override", "plugin", "xdg", "home", "fixture", "https"}

Requests     == [command : Commands, skill : Skills, explain : BOOLEAN, fail_safe : BOOLEAN]
Environments == [Variables -> BOOLEAN]    \* which of them are set

ASSUME LauncherAssumption ==
    /\ Setups \subseteq [request : Requests, env : Environments,
                         usable : SUBSET Directories, marks : SUBSET Marks]
    /\ Usables \subseteq SUBSET Directories
    /\ MaxChanges \in Nat
    /\ NoRoot \notin Directories

VARIABLES
    env,         \* the environment, the same for the bootstrap and the launcher
    usable,      \* directories where a probe succeeds now
    changes,     \* number of changes of usable and marks so far
    candidates,  \* directories still to probe
    bootRoot,    \* the bootstrap's cache directory
    root,        \* the launcher's
    parsed,      \* the command line has been parsed
    reason       \* the ResolutionError that was reported

rootVars == <<env, usable, changes, candidates, bootRoot, root>>
vars == <<pc, request, promptVars, exit, fetchVars, rootVars, parsed, reason>>

NoReason == "None"

-----------------------------------------------------------------------------
(* resolve_cache_dir of the bootstrap; an unset HOME reads as "". *)
BootCandidates(e) ==
    IF e["override"] THEN <<"override">>
    ELSE <<"primary", IF e["xdg"] THEN "xdg" ELSE IF e["home"] THEN "home" ELSE "slash">>

(* Mutant of LaunchCandidates: HOME before XDG_CACHE_HOME.                  *)
LaunchHomeFirst(e) ==
    IF e["override"] THEN <<"override">>
    ELSE IF ~e["plugin"] THEN <<>>
    ELSE IF e["home"] THEN <<"primary", "home">>
    ELSE IF e["xdg"] THEN <<"primary", "xdg">>
    ELSE <<"primary">>

(* cache_root::resolve, with CacheRootConfig::from_env and xdg_fallback. *)
LaunchCandidates(e) ==
    IF e["override"] THEN <<"override">>
    ELSE IF ~e["plugin"] THEN <<>>
    ELSE IF e["xdg"] THEN <<"primary", "xdg">>
    ELSE IF e["home"] THEN <<"primary", "home">>
    ELSE <<"primary">>

Init ==
    /\ \E setup \in Setups :
          /\ request = setup.request
          /\ env = setup.env
          /\ usable = setup.usable
          /\ marks = setup.marks
    /\ changes = 0
    /\ candidates = IF env["plugin"] THEN BootCandidates(env) ELSE <<>>
    /\ bootRoot = NoRoot
    /\ root = NoRoot
    /\ pc = IF env["plugin"] THEN "Boot" ELSE "Parse"
    /\ exit = 0
    /\ parsed = FALSE
    /\ reason = NoReason
    /\ PromptInit
    /\ FetchInit

(* A probe of the next candidate: the first that passes is taken. *)
Probe(chosen) ==
    /\ candidates # <<>>
    /\ IF Head(candidates) \in usable
       THEN chosen = Head(candidates) /\ candidates' = <<>>
       ELSE chosen = NoRoot /\ candidates' = Tail(candidates)

(* The bootstrap.  Without a directory it fails; and it may fail to verify  *)
(* or to fetch the launcher.                                                *)
BootProbe ==
    /\ pc = "Boot" /\ bootRoot = NoRoot
    /\ Probe(bootRoot')
    /\ UNCHANGED <<pc, request, promptVars, exit, fetchVars, env, usable, changes,
                   root, parsed, reason>>

BootFails ==
    /\ pc = "Boot"
    /\ bootRoot # NoRoot \/ candidates = <<>>
    /\ End(1)
    /\ UNCHANGED <<request, promptVars, fetchVars, rootVars, parsed, reason>>

BootExecs ==
    /\ pc = "Boot"
    /\ bootRoot # NoRoot
    /\ pc' = "Parse"
    /\ UNCHANGED <<request, promptVars, exit, fetchVars, rootVars, parsed, reason>>

(* Cli::try_parse.  "usage" stands for a line that clap rejects, with exit  *)
(* code 2, and for a sub-command's own --help, which is clap's.  A --skill  *)
(* that is not UTF-8 is rejected too, before the fail-safe boundary.        *)
Accepted(r) ==
    r.command # "usage" /\ \A i \in DOMAIN r.skill : "NotUtf8" \notin r.skill[i]

Reject ==
    /\ pc = "Parse"
    /\ ~Accepted(request)
    /\ End(2) \/ (request.command = "usage" /\ End(0))
    /\ UNCHANGED <<request, promptVars, fetchVars, rootVars, parsed, reason>>

(* Mutant of Dispatch: the resolver is built before the command is known.   *)
DispatchEagerly ==
    /\ pc = "Parse"
    /\ Accepted(request)
    /\ parsed' = TRUE
    /\ pc' = "Root" /\ candidates' = LaunchCandidates(env)
    /\ UNCHANGED <<request, promptVars, exit, fetchVars, env, usable, changes,
                   bootRoot, root, reason>>

(* dispatch, and main's treatment of the root --help.  The production       *)
(* resolver starts with its cache directory, the fixture's has none.        *)
Dispatch ==
    /\ pc = "Parse"
    /\ Accepted(request)
    /\ parsed' = TRUE
    /\ pc' = CASE request.command = "version" -> "Version"
               [] request.command = "config" -> "Config"
               [] request.command = "context" -> "Project"
               [] request.command = "instructions" -> "Name"
               [] request.command = "help" -> "Manifest"
               [] request.command = "external" ->
                     IF env["fixture"] THEN "Exec" ELSE "Root"
    /\ candidates' = IF request.command = "external" /\ ~env["fixture"]
                     THEN LaunchCandidates(env) ELSE <<>>
    /\ UNCHANGED <<request, promptVars, exit, fetchVars, env, usable, changes,
                   bootRoot, root, reason>>

PrintLast == End(0) \/ End(Panic)

Version ==
    /\ pc = "Version"
    /\ PrintLast
    /\ UNCHANGED <<request, promptVars, fetchVars, rootVars, parsed, reason>>

(* LazyConfigAccess: one walk, and one store for the whole get or set.  An  *)
(* invalid key is refused before it, like a current directory that is gone. *)
LocateConfig ==
    /\ pc = "Config"
    /\ Discover \/ Ascend
    /\ UNCHANGED <<pc, request, sectionVars, exit, fetchVars, rootVars, parsed, reason>>

Config ==
    /\ pc = "Config"
    /\ walk = 0
    /\ End(1) \/ (base # 0 /\ PrintLast)
    /\ Leave
    /\ UNCHANGED <<request, sectionVars, fetchVars, rootVars, parsed, reason>>

-----------------------------------------------------------------------------
(* An external command that cannot be resolved ends with the error.  The    *)
(* root help is printed without its section instead.                        *)
GiveUp(error) ==
    IF request.command = "help" THEN PrintLast /\ UNCHANGED reason
    ELSE End(1) /\ reason' = error

RootProbe ==
    /\ pc = "Root" /\ root = NoRoot
    /\ Probe(root')
    /\ UNCHANGED <<pc, request, promptVars, exit, fetchVars, env, usable, changes,
                   bootRoot, parsed, reason>>

NoRootFound ==
    /\ pc = "Root" /\ root = NoRoot
    /\ candidates = <<>>
    /\ GiveUp("CacheRootUnavailable")
    /\ UNCHANGED <<request, promptVars, fetchVars, rootVars, parsed>>

(* TrustedKeys::embedded or Fetcher::new fails, which is reported as if     *)
(* there were no directory; for the root help they are built on their own.  *)
BuildFails ==
    /\ \/ pc = "Root" /\ root # NoRoot
       \/ pc = "Manifest" /\ call = "Idle" /\ request.command = "help"
    /\ GiveUp("CacheRootUnavailable")
    /\ UNCHANGED <<request, promptVars, fetchVars, rootVars, parsed>>

(* find and reverify: the entry is there and good, or must be fetched; or   *)
(* the command's name is not UTF-8.                                         *)
Find ==
    /\ pc = "Root" /\ root # NoRoot
    /\ \/ pc' \in {"Exec", "Manifest"} /\ UNCHANGED <<exit, reason>>
       \/ GiveUp("Unresolved")
    /\ UNCHANGED <<request, promptVars, fetchVars, rootVars, parsed>>

Gets == {"Manifest", "Signature", "Asset"}

StartGet ==
    /\ pc \in Gets
    /\ call = "Idle"
    /\ Get(env["https"])
    /\ UNCHANGED <<pc, request, promptVars, exit, rootVars, parsed, reason>>

Fetching ==
    /\ Transfer
    /\ UNCHANGED <<pc, request, promptVars, exit, rootVars, parsed, reason>>

(* fetch_error. *)
FetchError ==
    IF call = "Unreachable" THEN "Fetch"
    ELSE IF pc = "Asset" THEN "AssetNotFound" ELSE "ReleaseUnavailable"

GetFailed ==
    /\ pc \in Gets
    /\ call \in {"NotFound", "Unreachable"}
    /\ GiveUp(FetchError)
    /\ UNCHANGED <<request, promptVars, fetchVars, rootVars, parsed>>

(* The body is verified, and is what the next GET or the store goes by. *)
GetUsed ==
    /\ pc \in Gets
    /\ call = "Body"
    /\ \/ pc = "Manifest" /\ pc' = "Signature" /\ UNCHANGED <<exit, reason>>
       \/ /\ pc = "Signature"
          /\ \/ request.command = "help" /\ PrintLast /\ UNCHANGED reason
             \/ request.command = "external" /\ pc' = "Asset" /\ UNCHANGED <<exit, reason>>
             \/ \E error \in {"ManifestSignature", "Cache", "UnsupportedSchema",
                              "ManifestVersionMismatch", "AssetNotFound"} : GiveUp(error)
       \/ /\ pc = "Asset"
          /\ \/ pc' = "Exec" /\ UNCHANGED <<exit, reason>>
             \/ \E error \in {"ChecksumMismatch", "SignatureMismatch", "Cache"} :
                   GiveUp(error)
    /\ call' = "Idle"
    /\ UNCHANGED <<request, promptVars, attempt, hops, secure, faults, rootVars, parsed>>

(* run_external: exec replaces the process, or returns its error. *)
Exec ==
    /\ pc = "Exec"
    /\ \/ pc' = "Replaced" /\ UNCHANGED <<exit, reason>>
       \/ GiveUp("Exec")
    /\ UNCHANGED <<request, promptVars, fetchVars, rootVars, parsed>>

(* Prompts are read from the project, and need nothing else. *)
Prompting ==
    /\ PromptStep
    /\ UNCHANGED <<fetchVars, rootVars, parsed, reason>>

(* A directory is remounted, filled, reclaimed or repaired; or a project or *)
(* a repository is created or removed.                                      *)
Change ==
    /\ changes < MaxChanges
    /\ changes' = changes + 1
    /\ \/ usable' \in Usables \ {usable} /\ UNCHANGED placeVars
       \/ Move /\ UNCHANGED usable
    /\ UNCHANGED <<pc, request, sectionVars, exit, fetchVars, env, candidates,
                   bootRoot, root, parsed, reason>>

Step ==
    \/ BootProbe \/ BootFails \/ BootExecs \/ Reject \/ Dispatch \/ Version
    \/ LocateConfig \/ Config \/ RootProbe \/ NoRootFound \/ BuildFails \/ Find \/ StartGet \/ Fetching \/ GetFailed
    \/ GetUsed \/ Exec \/ Prompting

Next == Step \/ Change

Spec     == Init /\ [][Next]_vars
FairSpec == Spec /\ WF_vars(Step)

-----------------------------------------------------------------------------
Labels == {"Boot", "Parse", "Version", "Config", "Name", "Print", "Explain", "Root",
           "Exec", "Replaced", "Ended"} \cup Sources \cup Gets

ResolutionErrors == {"CacheRootUnavailable", "Unresolved", "Fetch", "AssetNotFound",
    "ReleaseUnavailable", "ManifestSignature", "ManifestVersionMismatch",
    "UnsupportedSchema", "ChecksumMismatch", "SignatureMismatch", "Cache", "Exec"}

TypeOK ==
    /\ FetchTypeOK
    /\ DiscoveryTypeOK
    /\ pc \in Labels
    /\ request \in Requests
    /\ team \in Found \cup {NotRead}
    /\ {project, skill} \subseteq Sections
    /\ exit \in {0, 1, 2, Panic}
    /\ env \in Environments
    /\ usable \subseteq Directories
    /\ changes \in 0..MaxChanges
    /\ {bootRoot, root} \subseteq Directories \cup {NoRoot}
    /\ Range(candidates) \subseteq Directories
    /\ parsed \in BOOLEAN
    /\ reason \in ResolutionErrors \cup {NoReason}

(* No error of a document, a directory or the server, which may change      *)
(* meanwhile, makes a prompt under --fail-safe, with or without --explain,  *)
(* or the root help fail (OnFailure::Degrade; main.rs, help_section): once  *)
(* the command line is accepted, the exit code is 0, or that of the panic   *)
(* which println! raises when nobody reads the output.  The code's own      *)
(* "Never exit non-zero" (cli.rs:35) says more than it keeps.               *)
FailSafe ==
    /\ pc = "Ended" /\ parsed
    /\ request.command = "help" \/ (request.command \in Prompts /\ request.fail_safe)
    => exit \in {0, Panic}

(* "a built-in like version never touches the cache root, TLS, or the       *)
(* network".                                                                *)
BuiltinsStayLocal ==
    request.command \notin {"external", "help"} =>
        call = "Idle" /\ root = NoRoot /\ reason = NoReason

(* "CLAUDE_PLUGIN_ROOT stays set so the launcher resolves the same cache    *)
(* root": with a home to fall back on, and directories that stay as they    *)
(* are, the launcher keeps its binaries where the bootstrap keeps it.       *)
RootsAgree ==
    /\ bootRoot # NoRoot /\ changes = 0
    /\ env["override"] \/ env["xdg"] \/ env["home"]
    => /\ root \in {NoRoot, bootRoot}
       /\ root = NoRoot => reason # "CacheRootUnavailable"

(* Every invocation ends: attempts and redirects are counted, and a send    *)
(* has a deadline.                                                          *)
Ends == <>(pc \in {"Ended", "Replaced"})
=============================================================================
