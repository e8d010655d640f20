----------------------------- MODULE Bootstrap -----------------------------
(***************************************************************************)
(* bin/luminosity: the script that stages the verify shim into the cache   *)
(* directory, verifies the cached launcher with it, fetches the launcher   *)
(* when that fails, and execs it.  Any number of invocations share one     *)
(* cache directory and take no lock.  A step is one command that touches a *)
(* shared file; an invocation's own temporary files are touched in the     *)
(* step of the command that decides about them.                            *)
(*                                                                         *)
(* The shim is copied in place: cp truncates it, so it is "empty" before   *)
(* it is "torn" and at last "whole".  What a command that runs it answers  *)
(* is its exit status.  A torn program is refused; an empty executable is  *)
(* taken by bash for a script of no commands, which succeeds, and there    *)
(* whatever was asked about is believed.  Linux refuses to write to a      *)
(* program that runs and to run one that is being written; macOS does not  *)
(* and may kill a program that was written to: both kernels are covered.   *)
(* The launcher and its signature are replaced by renames.                 *)
(* One plugin version and platform is modelled: the launcher's name        *)
(* carries both.  The shim's does not, so bootstraps of several versions   *)
(* copy over one path; their shims give one verdict under one key.         *)
(***************************************************************************)
EXTENDS Naturals, FiniteSets

CONSTANTS
    Procs,       \* invocations of the script, each runs once
    Binaries,    \* contents a launcher file can have
    Signatures,  \* contents a signature file can have
    Accepts,     \* <<signature, binary>> valid under the plugin's public key
    Released,    \* the <<signature, binary>> the release serves
    MaxFaults,   \* bound: failed calls, bad downloads, kills and damages
    None         \* no file

ASSUME BootstrapAssumption ==
    /\ Accepts \subseteq Signatures \X Binaries
    /\ Released \in Accepts
    /\ MaxFaults \in Nat
    /\ None \notin Binaries \cup Signatures \cup Procs

VARIABLES
    shim,      \* the staged shim: its content, and who truncated it last
    launcher,  \* the cached launcher: content and mode
    sig,       \* the signature beside it
    tmp,       \* the .tmp-launcher-$$ files of each invocation
    boot,      \* each invocation: where it is and what it saw
    faults     \* how many faults have happened

vars == <<shim, launcher, sig, tmp, boot, faults>>

Absent  == [body |-> None, x |-> FALSE]
NoTemps == [bin |-> Absent, sig |-> None]

Running == {"readsig", "readbin"}                  \* inside the shim
Ended   == {"launched", "failed", "killed"}
Stages  == {"start", "stage", "copying", "chmod", "check", "shim", "evict",
            "evictsig", "fetchbin", "fetchsig", "movesig", "movebin", "exec"}
           \cup Running \cup Ended

(* The message of fail(), or the exec that did not happen. *)
Reasons == {"prerequisite", "stage", "chmod", "fetch", "move", "exec"}

(* An empty cache directory, or the one an earlier invocation left. *)
Init ==
    /\ \/ /\ shim = [at |-> "none", last |-> None]
          /\ launcher = Absent
          /\ sig = None
       \/ /\ shim = [at |-> "whole", last |-> None]
          /\ launcher = [body |-> Released[2], x |-> TRUE]
          /\ sig = Released[1]
    /\ tmp = [p \in Procs |-> NoTemps]
    /\ boot = [p \in Procs |-> [pc |-> "start", cached |-> TRUE, sig |-> None,
                                ran |-> None, late |-> FALSE, hollow |-> FALSE,
                                why |-> None]]
    /\ faults = 0

At(p, pc)   == boot[p].pc = pc
Goto(p, pc) == boot' = [boot EXCEPT ![p].pc = pc]
Fail(p, why) == boot' = [boot EXCEPT ![p].pc = "failed", ![p].why = why]

Fault == faults < MaxFaults /\ faults' = faults + 1

Copying      == {p \in Procs : At(p, "copying")}
ShimInUse    == \E p \in Procs : boot[p].pc \in Running
ShimRunnable == shim.at = "whole" /\ Copying = {}

(* The checks before the cache directory is known: plugin root, platform,   *)
(* version, curl or wget, shim, public key, a usable cache directory.       *)
Start(p) ==
    /\ At(p, "start")
    /\ \/ Goto(p, "stage") /\ UNCHANGED faults
       \/ Fail(p, "prerequisite") /\ Fault
    /\ UNCHANGED <<shim, launcher, sig, tmp>>

OpenShimNoClobber(p) ==  \* mutant: an existing shim is kept
    /\ At(p, "stage")
    /\ IF shim.at = "none"
       THEN shim' = [at |-> "empty", last |-> p] /\ Goto(p, "copying")
       ELSE UNCHANGED shim /\ Goto(p, "chmod")
    /\ UNCHANGED <<launcher, sig, tmp, faults>>

(* cp opens and truncates the shared path.  It may fail on a shim that runs *)
(* (Linux), and when another cp creates the file first.                     *)
OpenShim(p) ==
    /\ At(p, "stage")
    /\ \/ /\ shim' = [at |-> "empty", last |-> p]
          /\ Goto(p, "copying")
          /\ UNCHANGED faults
       \/ /\ \/ (ShimInUse \/ Copying # {}) /\ UNCHANGED faults
             \/ Fault
          /\ Fail(p, "stage")
          /\ UNCHANGED shim
    /\ UNCHANGED <<launcher, sig, tmp>>

(* The first bytes of somebody's copy reach the file. *)
WriteSome(p) ==
    /\ At(p, "copying")
    /\ shim.at = "empty"
    /\ shim' = [shim EXCEPT !.at = "torn"]
    /\ UNCHANGED <<launcher, sig, tmp, boot, faults>>

(* Whoever stops copying stops being the last to have truncated.            *)
Unfinished(p) == [shim EXCEPT !.last = IF @ = p THEN None ELSE @]

(* The last to truncate writes every byte after that; an earlier one may    *)
(* have left a hole where a later one truncated and was killed.  A write    *)
(* that fails, a full disk, leaves the file as it is.                       *)
FinishCopy(p) ==
    /\ At(p, "copying")
    /\ \/ /\ \E at \in (IF shim.last = p THEN {"whole"} ELSE {shim.at, "whole"}) :
                shim' = [shim EXCEPT !.at = at]
          /\ Goto(p, "chmod")
          /\ UNCHANGED faults
       \/ Fault /\ Fail(p, "stage") /\ shim' = Unfinished(p)
    /\ UNCHANGED <<launcher, sig, tmp>>

ChmodShim(p) ==
    /\ At(p, "chmod")
    /\ \/ Goto(p, "check") /\ UNCHANGED faults
       \/ Fail(p, "chmod") /\ Fault
    /\ UNCHANGED <<shim, launcher, sig, tmp>>

CheckCachedNever(p) ==  \* mutant: the cache is never looked at
    /\ At(p, "check")
    /\ Goto(p, "evict")
    /\ UNCHANGED <<shim, launcher, sig, tmp, faults>>

(* [[ -x launcher ]] && [[ -f signature ]] *)
CheckCached(p) ==
    /\ At(p, "check")
    /\ Goto(p, IF launcher.x /\ sig # None THEN "shim" ELSE "evict")
    /\ UNCHANGED <<shim, launcher, sig, tmp, faults>>

(* What the invocation asks the shim about: the cached pair or its own.     *)
PairSig(p) == IF boot[p].cached THEN sig ELSE tmp[p].sig
PairBin(p) == IF boot[p].cached THEN launcher.body ELSE tmp[p].bin.body

(* Not verified: evict the cached pair, or drop the fetched one and fail.   *)
NotVerified(p) ==
    IF boot[p].cached
    THEN Goto(p, "evict") /\ UNCHANGED tmp
    ELSE Fail(p, "fetch") /\ tmp' = [tmp EXCEPT ![p] = NoTemps]

(* The exit status says verified and nobody has looked.                     *)
Believed(p) ==
    boot' = [boot EXCEPT ![p].pc = IF boot[p].cached THEN "exec" ELSE "movesig",
                         ![p].hollow = TRUE]

RunShimTrusting(p) ==  \* mutant: only a bad signature counts
    /\ At(p, "shim")
    /\ IF shim.at = "whole" THEN Goto(p, "readsig")
       ELSE IF shim.at = "empty" THEN Believed(p)
       ELSE Goto(p, IF boot[p].cached THEN "exec" ELSE "movesig")
    /\ UNCHANGED <<shim, launcher, sig, tmp, faults>>

(* An unrunnable shim counts as not verified; an empty one does not count   *)
(* as unrunnable.                                                           *)
RunShim(p) ==
    /\ At(p, "shim")
    /\ \/ shim.at = "whole" /\ Goto(p, "readsig") /\ UNCHANGED tmp
       \/ shim.at = "empty" /\ Believed(p) /\ UNCHANGED tmp
       \/ (shim.at \notin {"whole", "empty"} \/ Copying # {}) /\ NotVerified(p)
    /\ UNCHANGED <<shim, launcher, sig, faults>>

(* The shim reads the signature first and the target afterwards.            *)
ReadSignature(p) ==
    /\ At(p, "readsig")
    /\ \/ /\ PairSig(p) # None
          /\ boot' = [boot EXCEPT ![p].pc = "readbin", ![p].sig = PairSig(p)]
          /\ UNCHANGED tmp
       \/ (PairSig(p) = None \/ ~ShimRunnable) /\ NotVerified(p)
    /\ UNCHANGED <<shim, launcher, sig, faults>>

Verdict(s, b) == <<s, b>> \in Accepts

ReadTargetMoves(p) ==  \* mutant: verified after the move, in place
    /\ At(p, "readbin")
    /\ IF boot[p].cached
       THEN IF Verdict(boot[p].sig, PairBin(p)) THEN Goto(p, "exec") ELSE Goto(p, "evict")
       ELSE Goto(p, "movesig")
    /\ UNCHANGED <<shim, launcher, sig, tmp, faults>>

ReadTarget(p) ==
    /\ At(p, "readbin")
    /\ \/ /\ Verdict(boot[p].sig, PairBin(p))
          /\ Goto(p, IF boot[p].cached THEN "exec" ELSE "movesig")
          /\ UNCHANGED tmp
       \/ (~Verdict(boot[p].sig, PairBin(p)) \/ ~ShimRunnable) /\ NotVerified(p)
    /\ UNCHANGED <<shim, launcher, sig, faults>>

(* rm -f launcher signature: two unlinks, and nobody asks whether they      *)
(* succeeded.                                                               *)
EvictBinary(p) ==
    /\ At(p, "evict")
    /\ \/ launcher' = Absent /\ UNCHANGED faults
       \/ UNCHANGED launcher /\ Fault
    /\ Goto(p, "evictsig")
    /\ UNCHANGED <<shim, sig, tmp>>

EvictSignature(p) ==
    /\ At(p, "evictsig")
    /\ \/ sig' = None /\ UNCHANGED faults
       \/ UNCHANGED sig /\ Fault
    /\ boot' = [boot EXCEPT ![p].pc = "fetchbin", ![p].cached = FALSE]
    /\ UNCHANGED <<shim, launcher, tmp>>

FetchBinarySwapped(p) ==  \* mutant: the two URLs are exchanged
    /\ At(p, "fetchbin")
    /\ tmp' = [tmp EXCEPT ![p].bin = [body |-> Released[1], x |-> FALSE]]
    /\ Goto(p, "fetchsig")
    /\ UNCHANGED <<shim, launcher, sig, faults>>

(* A failed download removes what it wrote; a bad one is not noticed yet. *)
FetchBinary(p) ==
    /\ At(p, "fetchbin")
    /\ \/ \E b \in Binaries :
            /\ IF b = Released[2] THEN UNCHANGED faults ELSE Fault
            /\ tmp' = [tmp EXCEPT ![p].bin = [body |-> b, x |-> FALSE]]
            /\ Goto(p, "fetchsig")
       \/ Fault /\ Fail(p, "fetch") /\ tmp' = [tmp EXCEPT ![p].bin = Absent]
    /\ UNCHANGED <<shim, launcher, sig>>

FetchSignatureLeaky(p) ==  \* mutant: a failure removes the signature only
    /\ At(p, "fetchsig")
    /\ \/ /\ tmp' = [tmp EXCEPT ![p].sig = Released[1], ![p].bin.x = TRUE]
          /\ Goto(p, "shim")
          /\ UNCHANGED faults
       \/ Fault /\ Fail(p, "fetch") /\ UNCHANGED tmp
    /\ UNCHANGED <<shim, launcher, sig>>

(* ... and the chmod of the download, whose failure is ignored. *)
FetchSignature(p) ==
    /\ At(p, "fetchsig")
    /\ \/ \E s \in Signatures, x \in BOOLEAN :
            /\ IF s = Released[1] /\ x THEN UNCHANGED faults ELSE Fault
            /\ tmp' = [tmp EXCEPT ![p].sig = s, ![p].bin.x = x]
            /\ Goto(p, "shim")
       \/ Fault /\ Fail(p, "fetch") /\ tmp' = [tmp EXCEPT ![p] = NoTemps]
    /\ UNCHANGED <<shim, launcher, sig>>

MoveSignatureLost(p) ==  \* mutant: dropped once it has served
    /\ At(p, "movesig")
    /\ tmp' = [tmp EXCEPT ![p].sig = None]
    /\ Goto(p, "movebin")
    /\ UNCHANGED <<shim, launcher, sig, faults>>

(* mv signature && mv launcher: a failure of either removes nothing. *)
MoveSignature(p) ==
    /\ At(p, "movesig")
    /\ \/ /\ sig' = tmp[p].sig
          /\ tmp' = [tmp EXCEPT ![p].sig = None]
          /\ Goto(p, "movebin")
          /\ UNCHANGED faults
       \/ Fault /\ Fail(p, "move") /\ UNCHANGED <<sig, tmp>>
    /\ UNCHANGED <<shim, launcher>>

(* "hollow" also marks whoever is about to exec the launcher that a hollow  *)
(* verdict puts there.                                                      *)
MoveBinary(p) ==
    /\ At(p, "movebin")
    /\ \/ /\ launcher' = tmp[p].bin
          /\ tmp' = [tmp EXCEPT ![p].bin = Absent]
          /\ boot' = [q \in Procs |-> [boot[q] EXCEPT
                        !.pc = IF q = p THEN "exec" ELSE @,
                        !.hollow = @ \/ (boot[p].hollow /\ At(q, "exec"))]]
          /\ UNCHANGED faults
       \/ Fault /\ Fail(p, "move") /\ UNCHANGED <<launcher, tmp>>
    /\ UNCHANGED <<shim, sig>>

(* By path: it runs what is there now. *)
Exec(p) ==
    /\ At(p, "exec")
    /\ IF launcher.x
       THEN boot' = [boot EXCEPT ![p].pc = "launched", ![p].ran = launcher.body]
       ELSE Fail(p, "exec")
    /\ UNCHANGED <<shim, launcher, sig, tmp, faults>>

Kill(p) ==
    /\ boot[p].pc \notin Ended \cup {"start"}
    /\ Fault
    /\ Goto(p, "killed")
    /\ shim' = IF At(p, "copying") THEN Unfinished(p) ELSE shim
    /\ UNCHANGED <<launcher, sig, tmp>>

(* Somebody else writes or removes a cached file; "late" marks whoever had  *)
(* verified the launcher before.                                            *)
DamageLauncher ==
    /\ Fault
    /\ \E f \in {Absent} \cup [body : Binaries, x : {TRUE}] :
          f # launcher /\ launcher' = f
    /\ boot' = [p \in Procs |-> [boot[p] EXCEPT !.late = @ \/ At(p, "exec")]]
    /\ UNCHANGED <<shim, sig, tmp>>

DamageSignature ==
    /\ Fault
    /\ \E s \in {None} \cup Signatures : s # sig /\ sig' = s
    /\ UNCHANGED <<shim, launcher, tmp, boot>>

Step(p) ==
    \/ Start(p) \/ OpenShim(p) \/ WriteSome(p) \/ FinishCopy(p) \/ ChmodShim(p)
    \/ CheckCached(p) \/ RunShim(p) \/ ReadSignature(p) \/ ReadTarget(p)
    \/ EvictBinary(p) \/ EvictSignature(p) \/ FetchBinary(p) \/ FetchSignature(p)
    \/ MoveSignature(p) \/ MoveBinary(p) \/ Exec(p)

AllEnded == \A p \in Procs : boot[p].pc \in Ended

Next ==
    \/ \E p \in Procs : Step(p) \/ Kill(p)
    \/ DamageLauncher
    \/ DamageSignature
    \/ AllEnded /\ UNCHANGED vars

(* The host runs every process it has started; nobody promises that a new   *)
(* one is started.                                                          *)
Fairness == \A p \in Procs : WF_vars(~At(p, "start") /\ Step(p))

Spec     == Init /\ [][Next]_vars
FairSpec == Spec /\ Fairness

-----------------------------------------------------------------------------
TypeOK ==
    /\ shim \in [at : {"none", "empty", "torn", "whole"}, last : Procs \cup {None}]
    /\ launcher \in [body : Binaries \cup {None}, x : BOOLEAN]
    /\ sig \in Signatures \cup {None}
    /\ tmp \in [Procs -> [bin : [body : Binaries \cup {None}, x : BOOLEAN],
                          sig : Signatures \cup {None}]]
    /\ boot \in [Procs -> [pc : Stages, cached : BOOLEAN,
                           sig : Signatures \cup {None},
                           ran : Binaries \cup {None}, late : BOOLEAN,
                           hollow : BOOLEAN, why : Reasons \cup {None}]]
    /\ faults \in 0..MaxFaults

Genuine == {pair[2] : pair \in Accepts}

(* The shim's reason to be: what an invocation execs was verified, unless   *)
(* somebody else wrote the file between the verdict and the exec or the     *)
(* verdict was an empty shim's, whatever its peers, its downloads and a     *)
(* torn shim do (bin/luminosity:112, 131, 146).                             *)
ExecVerified ==
    \A p \in Procs : boot[p].ran # None /\ ~boot[p].late /\ ~boot[p].hollow =>
                        boot[p].ran \in Genuine

(* What the script promises: it "never execs an unverified binary"          *)
(* (bin/luminosity:7-8).  An empty shim breaks it.                          *)
NeverExecsUnverified ==
    \A p \in Procs : boot[p].ran # None /\ ~boot[p].late => boot[p].ran \in Genuine

(* Only verified bytes are renamed into place (bin/luminosity:129): a step  *)
(* of the script leaves a launcher, removes it or puts a genuine one there, *)
(* again except on an empty shim's verdict.                                 *)
PublishesVerified ==
    [][\A p \in Procs : boot'[p].pc # boot[p].pc /\ ~boot[p].hollow =>
          launcher'.body \in {launcher.body, None} \cup Genuine]_vars

(* An invocation that ends leaves no temporary file, except where one of    *)
(* the two moves failed (bin/luminosity:121, 125, 132, 135).                *)
TempsRemoved ==
    \A p \in Procs : /\ boot[p].pc \in {"launched", "failed"}
                     /\ boot[p].why # "move"
                     => tmp[p] = NoTemps

(* Without a lock, invocations fail each other: a peer's copy makes the     *)
(* shim unrunnable or busy, and a launcher is removed because of it.  But   *)
(* as long as nothing else fails, not all of them lose: at rest one has     *)
(* launched, and the cache holds a pair the next one can verify.            *)
RestsUsable ==
    /\ faults = 0
    /\ \A p \in Procs : boot[p].pc \in Ended \cup {"start"}
    /\ \E p \in Procs : boot[p].pc \in Ended
    => /\ \E p \in Procs : At(p, "launched")
       /\ <<sig, launcher.body>> \in Accepts /\ launcher.x

(* The cache to itself, and nothing left that can fail. *)
Alone(p) ==
    /\ faults = MaxFaults
    /\ At(p, "stage")
    /\ \A q \in Procs \ {p} : boot[q].pc \in Ended

(* Whatever kills, failures and damages left behind (a torn shim, a         *)
(* signature without a launcher, a mismatched pair, temporary files), the   *)
(* next invocation that is alone evicts, fetches and launches.              *)
SelfHeals == \A p \in Procs : Alone(p) ~> At(p, "launched")

(* A verified pair in the cache is run without the network                  *)
(* (test_cached_launcher_is_reused_without_refetching).                     *)
HitNeedsNoNetwork ==
    \A p \in Procs : [](Alone(p) /\ launcher.x /\ <<sig, launcher.body>> \in Accepts
                           => [](~At(p, "fetchbin")))

=============================================================================
