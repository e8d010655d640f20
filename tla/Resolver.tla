------------------------------ MODULE Resolver ------------------------------
(***************************************************************************)
(* The fetch -> verify -> cache resolver of the launcher and the exec that *)
(* follows it (cli/launcher/src/launch/outbound/resolve/{mod,cache}.rs,    *)
(* core.rs, exec.rs).  Any number of launcher processes share one cache    *)
(* directory and take no lock; every file-system call is one step, so any  *)
(* two calls of two processes may interleave.  A process may be killed     *)
(* between two calls, file-system calls may fail, and the cache directory, *)
(* which is user-writable and reclaimed by the host, may be damaged.       *)
(*                                                                         *)
(* A release server is untrusted: each GET returns any body or error of a  *)
(* constant set.  The retries inside one GET are not visible here.         *)
(***************************************************************************)
EXTENDS Verification

CONSTANTS
    Procs,             \* launcher processes
    Commands,          \* [name, version] pairs that may be invoked: the
                       \* sub-command and the launcher's own version
    Utf8Names,         \* the names that are valid UTF-8
    Extends,           \* <<n, m>>: the text of m begins with n and a dash
    Cap,               \* ResolverConfig.retained_versions
    ServedManifest,    \* per version, the outcomes of GET manifest.json
    ServedManifestSig, \* per version, the outcomes of GET manifest.minisig
    ServedAsset,       \* per command, the outcomes of GET of its asset
    NonUtf8Neighbour,  \* the directory holds a file whose name is not UTF-8
    IoFaults,          \* file-system calls may fail
    Crashes,           \* processes may be killed
    MaxClock,          \* bound on the file-system clock
    MaxDamage,         \* bound on the number of damaging steps
    NoFile, NoEntry,   \* no such file, no cache entry
    Torn               \* what a failed write leaves behind

FetchErrors == {"NotFound", "Unreachable"}
Targets     == [name : Names, version : Versions]

ASSUME ResolverAssumption ==
    /\ Commands \subseteq Targets
    /\ Extends \subseteq Names \X Names
    /\ Cap \in Nat \ {0}
    /\ ServedManifest \in [Versions -> SUBSET (Manifests \cup FetchErrors)]
    /\ ServedManifestSig \in [Versions -> SUBSET (Sigs \cup FetchErrors)]
    /\ ServedAsset \in [Targets -> SUBSET (Blobs \cup FetchErrors)]
    /\ {NonUtf8Neighbour, IoFaults, Crashes} \subseteq BOOLEAN
    /\ MaxClock \in Nat \ {0}
    /\ MaxDamage \in Nat
    /\ NoFile \notin Blobs \cup Sigs \cup Manifests
    /\ Torn \notin Blobs \cup Sigs \cup {NoFile}
    /\ FetchErrors \cap (Blobs \cup Sigs \cup Manifests) = {}

(* A cache entry is a file named {name}-{version}-{sha256}. *)
Entries == [name : Names, version : Versions, sha : Digests]

ASSUME EntriesAssumption == NoEntry \notin Entries

VARIABLES
    bin, sig,       \* the entry's file and its .minisig sibling, or NoFile
    mtime,          \* modification time of the entry's file
    clock,          \* the clock mtimes are taken from; 0 is UNIX_EPOCH
    tmpBin, tmpSig, \* the process's .tmp- files (its pid is in their names)
    stamp,          \* modification time of its temporary binary
    pc,             \* the call a process makes next
    target,         \* its name and version
    listing,        \* directory entries read_dir gave it, not visited yet
    path,           \* the entry it looks at, stores, and finally executes
    buf, sigbuf,    \* bytes and signature it holds in memory
    manifest,       \* manifest.json as fetched, not verified yet
    stats,          \* <<mtime, entry>> rows of the retention scan
    victim,         \* the entry it is removing
    outcome,        \* how it ended
    ran,            \* the bytes it was replaced with, if it was
    damage,         \* number of damaging steps so far
    late,           \* history: path was overwritten after p read or stored it
    damagedBin, damagedSig,  \* history: damaged and not stored again since
    kept,           \* history: cached undamaged at launch, left alone since
    overdue         \* history: names whose last retention did not complete

disk    == <<bin, sig, mtime>>
temps   == <<tmpBin, tmpSig, stamp>>
memory  == <<listing, path, buf, sigbuf, manifest, stats, victim>>
result  == <<outcome, ran>>
history == <<damage, late, damagedBin, damagedSig, kept, overdue>>
vars    == <<disk, clock, temps, pc, target, memory, result, history>>

Labels == {"Done", "FindList", "FindProbe", "ReadBinary", "ReadSignature",
           "EvictBinary", "EvictSignature", "GetManifest", "GetManifestSig",
           "GetAsset", "WriteBinary", "RenameBinary", "WriteSignature",
           "RenameSignature", "ListCache", "StatCache", "RemoveBinary",
           "RemoveSignature", "Exec"}

(* The variants of ResolutionError, and the ways not to return one. *)
Outcomes == {"None", "Ran", "Crashed", "Unresolved", "ReleaseUnavailable",
             "AssetNotFound", "Fetch", "ManifestSignature", "Cache",
             "UnsupportedSchema", "ManifestVersionMismatch",
             "ChecksumMismatch", "SignatureMismatch", "Exec"}

(* The calls between making the binary visible and ending its retention. *)
Staged == {"WriteSignature", "RenameSignature", "ListCache", "StatCache",
           "RemoveBinary", "RemoveSignature"}

Times       == 0..MaxClock

IsFor(e, t) == e.name = t.name /\ e.version = t.version
Present(e)  == bin[e] # NoFile

(* Entries file names strip_prefix("{name}-") accepts: name's own, and      *)
(* those of every longer name that begins with it and a dash.               *)
UnderPrefix(name) == {e \in Entries : e.name = name \/ <<name, e.name>> \in Extends}

-----------------------------------------------------------------------------
Init ==
    /\ bin = [e \in Entries |-> NoFile]
    /\ sig = [e \in Entries |-> NoFile]
    /\ mtime = [e \in Entries |-> 0]
    /\ clock = 1
    /\ tmpBin = [p \in Procs |-> NoFile]
    /\ tmpSig = [p \in Procs |-> NoFile]
    /\ stamp = [p \in Procs |-> 0]
    /\ pc = [p \in Procs |-> "Done"]
    /\ target \in [Procs -> Commands]
    /\ listing = [p \in Procs |-> {}]
    /\ path = [p \in Procs |-> NoEntry]
    /\ buf = [p \in Procs |-> NoFile]
    /\ sigbuf = [p \in Procs |-> NoFile]
    /\ manifest = [p \in Procs |-> NoFile]
    /\ stats = [p \in Procs |-> {}]
    /\ victim = [p \in Procs |-> NoEntry]
    /\ outcome = [p \in Procs |-> "None"]
    /\ ran = [p \in Procs |-> NoFile]
    /\ damage = 0
    /\ late = [p \in Procs |-> FALSE]
    /\ damagedBin = {}
    /\ damagedSig = {}
    /\ kept = [p \in Procs |-> FALSE]
    /\ overdue = {}

Goto(p, label) == pc' = [pc EXCEPT ![p] = label]

(* The process ends, and its memory is gone. *)
Exit(p, how) ==
    /\ Goto(p, "Done")
    /\ outcome' = [outcome EXCEPT ![p] = how]
    /\ listing' = [listing EXCEPT ![p] = {}]
    /\ path' = [path EXCEPT ![p] = NoEntry]
    /\ buf' = [buf EXCEPT ![p] = NoFile]
    /\ sigbuf' = [sigbuf EXCEPT ![p] = NoFile]
    /\ manifest' = [manifest EXCEPT ![p] = NoFile]
    /\ stats' = [stats EXCEPT ![p] = {}]
    /\ victim' = [victim EXCEPT ![p] = NoEntry]

(* Removals and damage of a command's entries end what kept says of every   *)
(* process but the one that did it.                                         *)
Disturb(e, culprits) ==
    kept' = [q \in Procs |-> kept[q] /\ (q \in culprits \/ ~IsFor(e, target[q]))]

(* remove_file, its error ignored: the file is gone, or the call failed. *)
RemoveBinaryOf(e, p) ==
    \/ /\ bin' = [bin EXCEPT ![e] = NoFile]
       /\ mtime' = [mtime EXCEPT ![e] = 0]
       /\ damagedBin' = damagedBin \ {e}
       /\ Disturb(e, {p})
    \/ /\ IoFaults
       /\ UNCHANGED <<bin, mtime, damagedBin, kept>>

RemoveSignatureOf(e, p) ==
    \/ /\ sig' = [sig EXCEPT ![e] = NoFile]
       /\ damagedSig' = damagedSig \ {e}
       /\ Disturb(e, {p})
    \/ /\ IoFaults
       /\ UNCHANGED <<sig, damagedSig, kept>>

-----------------------------------------------------------------------------
(* A complete entry of the command, and none of its entries damaged. *)
Cached(t) ==
    LET ofT == {e \in Entries : IsFor(e, t)}
    IN  /\ \E e \in ofT : Present(e) /\ sig[e] # NoFile
        /\ ofT \cap (damagedBin \cup damagedSig) = {}

(* A new launcher process.  It has a fresh pid, so temporary files an       *)
(* earlier one left are never touched again and drop out of the model.      *)
Launch(p, t) ==
    /\ pc[p] = "Done"
    /\ Goto(p, "FindList")
    /\ target' = [target EXCEPT ![p] = t]
    /\ outcome' = [outcome EXCEPT ![p] = "None"]
    /\ ran' = [ran EXCEPT ![p] = NoFile]
    /\ tmpBin' = [tmpBin EXCEPT ![p] = NoFile]
    /\ tmpSig' = [tmpSig EXCEPT ![p] = NoFile]
    /\ stamp' = [stamp EXCEPT ![p] = 0]
    /\ late' = [late EXCEPT ![p] = FALSE]
    /\ kept' = [kept EXCEPT ![p] = t.name \in Utf8Names /\ Cached(t)]
    /\ UNCHANGED <<disk, clock, memory, damage, damagedBin, damagedSig, overdue>>

RejectName(p) ==
    /\ pc[p] = "FindList"
    /\ target[p].name \notin Utf8Names
    /\ Exit(p, "Unresolved")
    /\ UNCHANGED <<disk, clock, temps, target, ran, history>>

(* What a scan of the directory sees of the entries es: those that exist,   *)
(* or, when read_dir or one of its items fails, only some of them.          *)
Scans(es) ==
    LET present == {e \in es : Present(e)}
    IN  IF IoFaults THEN SUBSET present ELSE {present}

(* cache::find.  read_dir hands over the matching names in some order, and  *)
(* each is probed for its signature only when its turn comes.               *)
FindList(p) ==
    /\ pc[p] = "FindList"
    /\ target[p].name \in Utf8Names
    /\ \E seen \in Scans({e \in Entries : IsFor(e, target[p])}) :
          listing' = [listing EXCEPT ![p] = seen]
    /\ Goto(p, "FindProbe")
    /\ UNCHANGED <<disk, clock, temps, target, result, history,
                   path, buf, sigbuf, manifest, stats, victim>>

FindProbeStopsAtOrphan(p) ==   \* mutant: a missing signature ends the scan
    /\ pc[p] = "FindProbe"
    /\ \E e \in listing[p] :
          IF sig[e] # NoFile
          THEN /\ path' = [path EXCEPT ![p] = e]
               /\ Goto(p, "ReadBinary")
          ELSE Goto(p, "GetManifest") /\ UNCHANGED path
    /\ listing' = [listing EXCEPT ![p] = {}]
    /\ UNCHANGED <<disk, clock, temps, target, result, history,
                   buf, sigbuf, manifest, stats, victim>>

FindProbeWaits(p) ==           \* mutant: polls until the signature appears
    /\ pc[p] = "FindProbe"
    /\ \E e \in listing[p] :
          /\ sig[e] # NoFile
          /\ path' = [path EXCEPT ![p] = e]
    /\ listing' = [listing EXCEPT ![p] = {}]
    /\ Goto(p, "ReadBinary")
    /\ UNCHANGED <<disk, clock, temps, target, result, history,
                   buf, sigbuf, manifest, stats, victim>>

FindProbe(p) ==
    /\ pc[p] = "FindProbe"
    /\ \E e \in listing[p] :
          \/ /\ sig[e] # NoFile
             /\ path' = [path EXCEPT ![p] = e]
             /\ listing' = [listing EXCEPT ![p] = {}]
             /\ Goto(p, "ReadBinary")
          \/ /\ sig[e] = NoFile \/ IoFaults
             /\ listing' = [listing EXCEPT ![p] = @ \ {e}]
             /\ UNCHANGED <<pc, path>>
    /\ UNCHANGED <<disk, clock, temps, target, result, history,
                   buf, sigbuf, manifest, stats, victim>>

(* The scan ends without a hit; meeting a name that is not UTF-8 ends it    *)
(* too, whatever has not been visited yet.                                  *)
FindMiss(p) ==
    /\ pc[p] = "FindProbe"
    /\ listing[p] = {} \/ NonUtf8Neighbour
    /\ listing' = [listing EXCEPT ![p] = {}]
    /\ Goto(p, "GetManifest")
    /\ UNCHANGED <<disk, clock, temps, target, result, history,
                   path, buf, sigbuf, manifest, stats, victim>>

(* reverify: two reads, then the check of what was read. *)
ReadBinary(p) ==
    /\ pc[p] = "ReadBinary"
    /\ \/ /\ Present(path[p])
          /\ buf' = [buf EXCEPT ![p] = bin[path[p]]]
          /\ Goto(p, "ReadSignature")
       \/ /\ ~Present(path[p]) \/ IoFaults
          /\ Goto(p, "EvictBinary")
          /\ UNCHANGED buf
    /\ UNCHANGED <<disk, clock, temps, target, result, history,
                   listing, path, sigbuf, manifest, stats, victim>>

ReadSignatureTrusts(p) ==      \* mutant: a cache hit is not verified again
    /\ pc[p] = "ReadSignature"
    /\ Goto(p, IF sig[path[p]] = NoFile THEN "EvictBinary" ELSE "Exec")
    /\ buf' = [buf EXCEPT ![p] = NoFile]
    /\ UNCHANGED <<disk, clock, temps, target, result, history,
                   listing, path, sigbuf, manifest, stats, victim>>

ReadSignatureGivesUp(p) ==     \* mutant: a failed reverify ends the process
    /\ pc[p] = "ReadSignature"
    /\ LET ok == sig[path[p]] # NoFile /\
                 VerifyBinary(buf[p], path[p].sha, sig[path[p]]) = "Ok"
       IN  IF ok THEN /\ Goto(p, "Exec")
                      /\ buf' = [buf EXCEPT ![p] = NoFile]
                      /\ UNCHANGED <<outcome, listing, path, sigbuf, manifest,
                                     stats, victim>>
           ELSE Exit(p, "SignatureMismatch")
    /\ UNCHANGED <<disk, clock, temps, target, ran, history>>

ReadSignature(p) ==
    /\ pc[p] = "ReadSignature"
    /\ \/ /\ sig[path[p]] # NoFile
          /\ Goto(p, IF VerifyBinary(buf[p], path[p].sha, sig[path[p]]) = "Ok"
                     THEN "Exec" ELSE "EvictBinary")
       \/ /\ sig[path[p]] = NoFile \/ IoFaults
          /\ Goto(p, "EvictBinary")
    /\ buf' = [buf EXCEPT ![p] = NoFile]
    /\ UNCHANGED <<disk, clock, temps, target, result, history,
                   listing, path, sigbuf, manifest, stats, victim>>

EvictBinary(p) ==
    /\ pc[p] = "EvictBinary"
    /\ RemoveBinaryOf(path[p], p)
    /\ Goto(p, "EvictSignature")
    /\ UNCHANGED <<sig, clock, temps, target, memory, result,
                   damage, late, damagedSig, overdue>>

EvictSignature(p) ==
    /\ pc[p] = "EvictSignature"
    /\ RemoveSignatureOf(path[p], p)
    /\ path' = [path EXCEPT ![p] = NoEntry]
    /\ Goto(p, "GetManifest")
    /\ UNCHANGED <<bin, mtime, clock, temps, target, result,
                   damage, late, damagedBin, overdue,
                   listing, buf, sigbuf, manifest, stats, victim>>

-----------------------------------------------------------------------------
(* fetch_error: how a failed GET of the manifest, or of an asset, is named. *)
FetchError(error, isManifest) ==
    CASE error = "NotFound" /\ isManifest  -> "ReleaseUnavailable"
      [] error = "NotFound" /\ ~isManifest -> "AssetNotFound"
      [] OTHER                             -> "Fetch"

GetManifest(p) ==
    /\ pc[p] = "GetManifest"
    /\ \E body \in ServedManifest[target[p].version] :
          IF body \in FetchErrors
          THEN Exit(p, FetchError(body, TRUE))
          ELSE /\ manifest' = [manifest EXCEPT ![p] = body]
               /\ Goto(p, "GetManifestSig")
               /\ UNCHANGED <<outcome, listing, path, buf, sigbuf, stats, victim>>
    /\ UNCHANGED <<disk, clock, temps, target, ran, history>>

(* The rest of load_manifest, and the lookup of the host's entry: from here *)
(* on path names the entry to be stored, sigbuf the signature to store.     *)
GetManifestSig(p) ==
    /\ pc[p] = "GetManifestSig"
    /\ \E body \in ServedManifestSig[target[p].version] :
       LET verdict == ValidateManifest(manifest[p], body, target[p].version)
           entry   == PlatformEntry(manifest[p], target[p].name)
       IN  IF body \in FetchErrors THEN Exit(p, FetchError(body, TRUE))
           ELSE IF verdict # "Ok"  THEN Exit(p, verdict)
           ELSE IF entry = {}      THEN Exit(p, "AssetNotFound")
           ELSE /\ \E b \in entry :
                     /\ path' = [path EXCEPT ![p] =
                            [name |-> target[p].name,
                             version |-> target[p].version, sha |-> b.sha256]]
                     /\ sigbuf' = [sigbuf EXCEPT ![p] = b.signature]
                /\ manifest' = [manifest EXCEPT ![p] = NoFile]
                /\ Goto(p, "GetAsset")
                /\ UNCHANGED <<outcome, listing, buf, stats, victim>>
    /\ UNCHANGED <<disk, clock, temps, target, ran, history>>

GetAssetUnchecked(p) ==        \* mutant: an asset is stored as received
    /\ pc[p] = "GetAsset"
    /\ \E body \in ServedAsset[target[p]] :
          IF body \in FetchErrors THEN Exit(p, FetchError(body, FALSE))
          ELSE /\ buf' = [buf EXCEPT ![p] = body]
               /\ Goto(p, "WriteBinary")
               /\ UNCHANGED <<outcome, listing, path, sigbuf, manifest,
                              stats, victim>>
    /\ UNCHANGED <<disk, clock, temps, target, ran, history>>

GetAsset(p) ==
    /\ pc[p] = "GetAsset"
    /\ \E body \in ServedAsset[target[p]] :
       LET verdict == VerifyBinary(body, path[p].sha, sigbuf[p])
       IN  IF body \in FetchErrors THEN Exit(p, FetchError(body, FALSE))
           ELSE IF verdict # "Ok"  THEN Exit(p, verdict)
           ELSE /\ buf' = [buf EXCEPT ![p] = body]
                /\ Goto(p, "WriteBinary")
                /\ UNCHANGED <<outcome, listing, path, sigbuf, manifest,
                               stats, victim>>
    /\ UNCHANGED <<disk, clock, temps, target, ran, history>>

-----------------------------------------------------------------------------
WriteBinaryIgnoresErrors(p) == \* mutant: the result of fs::write is dropped
    /\ pc[p] = "WriteBinary"
    /\ \/ tmpBin' = [tmpBin EXCEPT ![p] = buf[p]]
       \/ IoFaults /\ tmpBin' = [tmpBin EXCEPT ![p] = Torn]
    /\ stamp' = [stamp EXCEPT ![p] = clock]
    /\ Goto(p, "RenameBinary")
    /\ UNCHANGED <<disk, clock, tmpSig, target, result, memory, history>>

(* cache::store.  A write or chmod that fails leaves its temporary file     *)
(* behind, a rename that fails removes it; either ends the process.         *)
WriteBinary(p) ==
    /\ pc[p] = "WriteBinary"
    /\ \/ /\ tmpBin' = [tmpBin EXCEPT ![p] = buf[p]]
          /\ stamp' = [stamp EXCEPT ![p] = clock]
          /\ Goto(p, "RenameBinary")
          /\ UNCHANGED <<outcome, memory>>
       \/ /\ IoFaults
          /\ \E left \in {NoFile, Torn, buf[p]} :
                tmpBin' = [tmpBin EXCEPT ![p] = left]
          /\ Exit(p, "Cache")
          /\ UNCHANGED stamp
    /\ UNCHANGED <<disk, clock, tmpSig, target, ran, history>>

RenameBinary(p) ==
    /\ pc[p] = "RenameBinary"
    /\ tmpBin' = [tmpBin EXCEPT ![p] = NoFile]
    /\ \/ /\ bin' = [bin EXCEPT ![path[p]] = tmpBin[p]]
          /\ mtime' = [mtime EXCEPT ![path[p]] = stamp[p]]
          /\ buf' = [buf EXCEPT ![p] = NoFile]
          /\ damagedBin' = damagedBin \ {path[p]}
          /\ late' = [late EXCEPT ![p] = FALSE]
          /\ Goto(p, "WriteSignature")
          /\ UNCHANGED <<outcome, listing, path, sigbuf, manifest, stats, victim>>
       \/ /\ IoFaults
          /\ Exit(p, "Cache")
          /\ UNCHANGED <<bin, mtime, damagedBin, late>>
    /\ stamp' = [stamp EXCEPT ![p] = 0]
    /\ UNCHANGED <<sig, clock, tmpSig, target, ran,
                   damage, damagedSig, kept, overdue>>

WriteSignature(p) ==
    /\ pc[p] = "WriteSignature"
    /\ \/ /\ tmpSig' = [tmpSig EXCEPT ![p] = sigbuf[p]]
          /\ Goto(p, "RenameSignature")
          /\ UNCHANGED <<outcome, memory, overdue>>
       \/ /\ IoFaults
          /\ \E left \in {NoFile, Torn} : tmpSig' = [tmpSig EXCEPT ![p] = left]
          /\ Exit(p, "Cache")
          /\ overdue' = overdue \cup {target[p].name}
    /\ UNCHANGED <<disk, clock, tmpBin, stamp, target, ran,
                   damage, late, damagedBin, damagedSig, kept>>

RenameSignature(p) ==
    /\ pc[p] = "RenameSignature"
    /\ tmpSig' = [tmpSig EXCEPT ![p] = NoFile]
    /\ \/ /\ sig' = [sig EXCEPT ![path[p]] = tmpSig[p]]
          /\ sigbuf' = [sigbuf EXCEPT ![p] = NoFile]
          /\ damagedSig' = damagedSig \ {path[p]}
          /\ Goto(p, "ListCache")
          /\ UNCHANGED <<outcome, listing, path, buf, manifest, stats, victim,
                         overdue>>
       \/ /\ IoFaults
          /\ Exit(p, "Cache")
          /\ overdue' = overdue \cup {target[p].name}
          /\ UNCHANGED <<sig, damagedSig>>
    /\ UNCHANGED <<bin, mtime, clock, tmpBin, stamp, target, ran,
                   damage, late, damagedBin, kept>>

-----------------------------------------------------------------------------
ListCacheOfPairs(p) ==         \* mutant: only complete pairs are counted
    /\ pc[p] = "ListCache"
    /\ listing' = [listing EXCEPT ![p] =
            {e \in UnderPrefix(target[p].name) : Present(e) /\ sig[e] # NoFile}]
    /\ overdue' = overdue \ {target[p].name}
    /\ Goto(p, "StatCache")
    /\ UNCHANGED <<disk, clock, temps, target, result,
                   path, buf, sigbuf, manifest, stats, victim,
                   damage, late, damagedBin, damagedSig, kept>>

(* cache::enforce_retention_cap: list, stat each name, then remove the      *)
(* oldest beyond the cap.  An entry whose stat fails, because it is gone by *)
(* then or otherwise, counts with the time UNIX_EPOCH; one without a        *)
(* signature counts too.                                                    *)
ListCache(p) ==
    /\ pc[p] = "ListCache"
    /\ \E seen \in Scans(UnderPrefix(target[p].name)) :
          /\ listing' = [listing EXCEPT ![p] = seen]
          /\ overdue' = IF \A e \in UnderPrefix(target[p].name) \ seen : ~Present(e)
                        THEN overdue \ {target[p].name}
                        ELSE overdue \cup {target[p].name}
    /\ Goto(p, "StatCache")
    /\ UNCHANGED <<disk, clock, temps, target, result,
                   path, buf, sigbuf, manifest, stats, victim,
                   damage, late, damagedBin, damagedSig, kept>>

StatCache(p) ==
    /\ pc[p] = "StatCache"
    /\ \E e \in listing[p], modified \in Times :
          /\ modified = mtime[e] \/ (IoFaults /\ modified = 0)
          /\ stats' = [stats EXCEPT ![p] = @ \cup {<<modified, e>>}]
          /\ listing' = [listing EXCEPT ![p] = @ \ {e}]
    /\ UNCHANGED <<disk, clock, temps, pc, target, result, history,
                   path, buf, sigbuf, manifest, victim>>

CompareWithCapShort(p) ==      \* mutant: one entry too few is removed
    /\ pc[p] = "StatCache"
    /\ listing[p] = {}
    /\ IF Cardinality(stats[p]) <= Cap + 1
       THEN /\ stats' = [stats EXCEPT ![p] = {}]
            /\ Goto(p, "Exec")
       ELSE /\ UNCHANGED stats
            /\ Goto(p, "RemoveBinary")
    /\ UNCHANGED <<disk, clock, temps, target, result, history,
                   listing, path, buf, sigbuf, manifest, victim>>

CompareWithCap(p) ==
    /\ pc[p] = "StatCache"
    /\ listing[p] = {}
    /\ IF Cardinality(stats[p]) <= Cap
       THEN /\ stats' = [stats EXCEPT ![p] = {}]
            /\ Goto(p, "Exec")
       ELSE /\ UNCHANGED stats
            /\ Goto(p, "RemoveBinary")
    /\ UNCHANGED <<disk, clock, temps, target, result, history,
                   listing, path, buf, sigbuf, manifest, victim>>

RemoveBinaryNewestFirst(p) ==  \* mutant: the sort is reversed
    /\ pc[p] = "RemoveBinary"
    /\ \E v \in stats[p] :
          /\ \A u \in stats[p] : v[1] >= u[1]
          /\ RemoveBinaryOf(v[2], p)
          /\ victim' = [victim EXCEPT ![p] = v[2]]
          /\ stats' = [stats EXCEPT ![p] = @ \ {v}]
          /\ overdue' = IF bin'[v[2]] = NoFile THEN overdue
                        ELSE overdue \cup {target[p].name}
    /\ Goto(p, "RemoveSignature")
    /\ UNCHANGED <<sig, clock, temps, target, result, damage, late, damagedSig,
                   listing, path, buf, sigbuf, manifest>>

(* sort_by_key and take: the sort is stable over the directory's order,     *)
(* which is arbitrary, so of equal times either may go first.               *)
RemoveBinary(p) ==
    /\ pc[p] = "RemoveBinary"
    /\ \E v \in stats[p] :
          /\ \A u \in stats[p] : v[1] <= u[1]
          /\ RemoveBinaryOf(v[2], p)
          /\ victim' = [victim EXCEPT ![p] = v[2]]
          /\ stats' = [stats EXCEPT ![p] = @ \ {v}]
          /\ overdue' = IF bin'[v[2]] = NoFile THEN overdue
                        ELSE overdue \cup {target[p].name}
    /\ Goto(p, "RemoveSignature")
    /\ UNCHANGED <<sig, clock, temps, target, result, damage, late, damagedSig,
                   listing, path, buf, sigbuf, manifest>>

RemoveSignature(p) ==
    /\ pc[p] = "RemoveSignature"
    /\ RemoveSignatureOf(victim[p], p)
    /\ victim' = [victim EXCEPT ![p] = NoEntry]
    /\ IF Cardinality(stats[p]) <= Cap
       THEN /\ stats' = [stats EXCEPT ![p] = {}]
            /\ Goto(p, "Exec")
       ELSE /\ UNCHANGED stats
            /\ Goto(p, "RemoveBinary")
    /\ UNCHANGED <<bin, mtime, clock, temps, target, result,
                   damage, late, damagedBin, overdue,
                   listing, path, buf, sigbuf, manifest>>

(* run_external: the kernel opens path again, so what runs is what is there *)
(* now; exec returns only when it fails.                                    *)
Exec(p) ==
    /\ pc[p] = "Exec"
    /\ \/ /\ Present(path[p])
          /\ ran' = [ran EXCEPT ![p] = bin[path[p]]]
          /\ Exit(p, "Ran")
       \/ /\ ~Present(path[p]) \/ IoFaults
          /\ Exit(p, "Exec")
          /\ UNCHANGED ran
    /\ UNCHANGED <<disk, clock, temps, target, history>>

-----------------------------------------------------------------------------
(* A process killed between two calls leaves every file as it is. *)
Crash(p) ==
    /\ Crashes
    /\ pc[p] # "Done"
    /\ Exit(p, "Crashed")
    /\ overdue' = IF pc[p] \in Staged THEN overdue \cup {target[p].name}
                  ELSE overdue
    /\ UNCHANGED <<disk, clock, temps, target, ran,
                   damage, late, damagedBin, damagedSig, kept>>

Tick ==
    /\ clock < MaxClock
    /\ clock' = clock + 1
    /\ UNCHANGED <<disk, temps, pc, target, memory, result, history>>

(* The calls during which a process relies on the binary it has read or     *)
(* stored.                                                                  *)
Relying == Staged \cup {"ReadSignature", "Exec"}

(* A file of the cache is overwritten in place, or removed by the host.     *)
DamageBinary(e) ==
    /\ damage < MaxDamage
    /\ damage' = damage + 1
    /\ Present(e)
    /\ \E b \in (Blobs \cup {NoFile}) \ {bin[e]} :
          /\ bin' = [bin EXCEPT ![e] = b]
          /\ mtime' = [mtime EXCEPT ![e] = IF b = NoFile THEN 0 ELSE clock]
          /\ damagedBin' = IF b = NoFile THEN damagedBin \ {e}
                           ELSE damagedBin \cup {e}
    /\ late' = [q \in Procs |-> \/ late[q]
                                \/ pc[q] \in Relying /\ path[q] = e]
    /\ Disturb(e, {})
    /\ UNCHANGED <<sig, clock, temps, pc, target, memory, result,
                   damagedSig, overdue>>

DamageSignature(e) ==
    /\ damage < MaxDamage
    /\ damage' = damage + 1
    /\ sig[e] # NoFile
    /\ \E s \in (Sigs \cup {NoFile}) \ {sig[e]} :
          /\ sig' = [sig EXCEPT ![e] = s]
          /\ damagedSig' = IF s = NoFile THEN damagedSig \ {e}
                           ELSE damagedSig \cup {e}
    /\ Disturb(e, {})
    /\ UNCHANGED <<bin, mtime, clock, temps, pc, target, memory, result,
                   late, damagedBin, overdue>>

(* The steps of a running process, each of which its code always completes: *)
(* file-system calls return and a GET ends at its total timeout.            *)
Step(p) ==
    \/ RejectName(p) \/ FindList(p) \/ FindProbe(p) \/ FindMiss(p)
    \/ ReadBinary(p) \/ ReadSignature(p) \/ EvictBinary(p) \/ EvictSignature(p)
    \/ GetManifest(p) \/ GetManifestSig(p) \/ GetAsset(p)
    \/ WriteBinary(p) \/ RenameBinary(p) \/ WriteSignature(p)
    \/ RenameSignature(p) \/ ListCache(p) \/ StatCache(p) \/ CompareWithCap(p)
    \/ RemoveBinary(p) \/ RemoveSignature(p) \/ Exec(p)

Next ==
    \/ \E p \in Procs :
          \/ \E t \in Commands : Launch(p, t)
          \/ Step(p)
          \/ Crash(p)
    \/ Tick
    \/ \E e \in Entries : DamageBinary(e) \/ DamageSignature(e)

Spec == Init /\ [][Next]_vars

FairSpec == Spec /\ \A p \in Procs : WF_vars(Step(p))

-----------------------------------------------------------------------------
DiskOK ==
    /\ bin \in [Entries -> Blobs \cup {NoFile}]
    /\ sig \in [Entries -> Sigs \cup {NoFile}]
    /\ mtime \in [Entries -> Times]
    /\ clock \in Times

TempsOK ==
    /\ tmpBin \in [Procs -> Blobs \cup {NoFile, Torn}]
    /\ tmpSig \in [Procs -> Sigs \cup {NoFile, Torn}]
    /\ stamp \in [Procs -> Times]

ControlOK ==
    /\ pc \in [Procs -> Labels]
    /\ target \in [Procs -> Commands]
    /\ outcome \in [Procs -> Outcomes]
    /\ ran \in [Procs -> Blobs \cup {NoFile}]

MemoryOK ==
    /\ listing \in [Procs -> SUBSET Entries]
    /\ path \in [Procs -> Entries \cup {NoEntry}]
    /\ buf \in [Procs -> Blobs \cup {NoFile}]
    /\ sigbuf \in [Procs -> Sigs \cup {NoFile}]
    /\ manifest \in [Procs -> Manifests \cup {NoFile}]
    /\ stats \in [Procs -> SUBSET (Times \X Entries)]
    /\ victim \in [Procs -> Entries \cup {NoEntry}]

HistoryOK ==
    /\ damage \in 0..MaxDamage
    /\ late \in [Procs -> BOOLEAN]
    /\ damagedBin \in SUBSET Entries
    /\ damagedSig \in SUBSET Entries
    /\ kept \in [Procs -> BOOLEAN]
    /\ overdue \in SUBSET Names

TypeOK == DiskOK /\ TempsOK /\ ControlOK /\ MemoryOK /\ HistoryOK

(* The calls that use path. *)
HoldsPath == {"ReadBinary", "ReadSignature", "EvictBinary", "EvictSignature",
              "GetAsset", "WriteBinary", "RenameBinary", "Exec"} \cup Staged

(* What a process has in hand when it makes a call.  Needed for TypeOK to   *)
(* be inductive: a rename moves a complete temporary file, a check reads    *)
(* bytes that are there, a removal has an entry.                            *)
InHand(p) ==
    /\ pc[p] \in HoldsPath => path[p] \in Entries
    /\ pc[p] = "GetManifestSig" => manifest[p] \in Manifests
    /\ pc[p] \in {"GetAsset", "WriteBinary", "RenameBinary", "WriteSignature"}
          => sigbuf[p] \in Sigs
    /\ pc[p] \in {"ReadSignature", "WriteBinary"} => buf[p] \in Blobs
    /\ pc[p] = "RenameBinary" => tmpBin[p] \in Blobs
    /\ pc[p] = "RenameSignature" => tmpSig[p] \in Sigs
    /\ pc[p] = "RemoveSignature" => victim[p] \in Entries
    /\ pc[p] # "Done" => ran[p] = NoFile

TypeInv == TypeOK /\ \A p \in Procs : InHand(p)

(* The entry the process relies on, from the read or the rename of its      *)
(* binary to the exec, whatever other processes do to the cache meanwhile,  *)
(* is missing or genuine unless it was damaged in that very interval: what  *)
(* run_external executes is what a trusted key signed and a signed manifest *)
(* of the launcher's own version publishes under that name.                 *)
ExecAuthentic ==
    \A p \in Procs : ran[p] # NoFile /\ ~late[p] =>
        \E e \in Entries : /\ IsFor(e, target[p])
                           /\ Endorsed(e.name, e.version, e.sha)
                           /\ Authentic(ran[p], e.sha)

(* Only fully verified bytes ever appear under a final path, at every step  *)
(* of every store, whoever crashes or fails in between; and a binary and a  *)
(* signature that are visible together belong together, although store      *)
(* renames them one after the other and two stores may interleave.          *)
FinalPathsVerified ==
    \A e \in Entries : Present(e) =>
        /\ Endorsed(e.name, e.version, e.sha)
        /\ e \notin damagedBin =>
              /\ Authentic(bin[e], e.sha)
              /\ sig[e] # NoFile /\ e \notin damagedSig => Verifies(bin[e], sig[e])

(* enforce_retention_cap bounds the cache although processes scan it and    *)
(* remove from it concurrently: once nobody runs, a name has at most Cap    *)
(* entries unless the last process to store one was stopped before it ended *)
(* its retention, or could not remove a file.                               *)
RetentionHolds ==
    (\A p \in Procs : pc[p] = "Done") =>
        \A n \in Names \ overdue :
            Cardinality({e \in Entries : Present(e) /\ e.name = n}) <= Cap

(* Retention never removes the newest entry: what it removes for the cap has *)
(* been stored again since its time was read, or Cap others that it listed   *)
(* are no older, or have themselves been stored or removed since (or their   *)
(* time could not be read).  A process that has the cache to itself thus     *)
(* keeps Cap entries that are as new as any it removed.                      *)
Examined(p) == {v[2] : v \in stats[p]}
Current(p, e) == <<mtime[e], e>> \in stats[p]

VictimsAreOldest ==
    [][\A p \in Procs, e \in Entries :
         /\ pc[p] = "RemoveBinary" /\ pc'[p] = "RemoveSignature"
         /\ Present(e) /\ bin'[e] = NoFile
         /\ Current(p, e)
         => Cardinality({o \in Examined(p) \ {e} :
                            mtime[o] >= mtime[e] \/ ~Current(p, o)}) >= Cap]_vars

(* An already-resolved binary resolves offline: a process that finds its    *)
(* command cached when it starts ends in exec whatever the server answers,  *)
(* if its files can be read and nobody else removes or damages an entry of  *)
(* that command.  Concurrent stores of the same entry do not disturb it.    *)
CachedResolvesOffline ==
    ~IoFaults => \A p \in Procs :
        pc[p] = "Done" /\ kept[p] => outcome[p] \in {"Ran", "Crashed"}

(* Every invocation ends: no step waits for another process, since nothing  *)
(* is locked, and every loop of the code visits a finite listing.           *)
Terminates == \A p \in Procs : pc[p] # "Done" ~> pc[p] = "Done"

(* The resolver heals a poisoned cache: an invocation that starts after the *)
(* last damage and has the cache to itself from then on evicts what it      *)
(* cannot verify, fetches again and runs, whatever others left behind.      *)
SelfHeals ==
    \A p \in Procs :
        [](/\ pc[p] = "FindList"
           /\ damage = MaxDamage
           /\ [](\A q \in Procs \ {p} : pc[q] = "Done")
           => <>(pc[p] = "Done" /\ outcome[p] = "Ran"))

-----------------------------------------------------------------------------
(* The inductive invariant behind ExecAuthentic and FinalPathsVerified: what *)
(* each call of store and reverify may rely on, whatever other processes did *)
(* since the call before it.                                                 *)

EndorsedEntry(e) == Endorsed(e.name, e.version, e.sha)

(* s is the signature of a content that has the digest in e's name. *)
SignatureFor(e, s) ==
    \E b \in Blobs : Sha256[b] = e.sha /\ Verifies(b, s)

(* Every entry that exists, is about to be probed or is held was published. *)
Grounded ==
    /\ \A e \in Entries : Present(e) => EndorsedEntry(e)
    /\ \A p \in Procs : pc[p] = "FindProbe" =>
          \A e \in listing[p] : IsFor(e, target[p]) /\ EndorsedEntry(e)
    /\ \A p \in Procs : pc[p] \in HoldsPath =>
          IsFor(path[p], target[p]) /\ EndorsedEntry(path[p])

(* What store is handed, and what its temporary files contain, is verified. *)
VerifiedBeforeStored ==
    \A p \in Procs :
        /\ pc[p] = "WriteBinary" =>
              VerifyBinary(buf[p], path[p].sha, sigbuf[p]) = "Ok"
        /\ pc[p] = "RenameBinary" =>
              VerifyBinary(tmpBin[p], path[p].sha, sigbuf[p]) = "Ok"
        /\ pc[p] = "WriteSignature" => SignatureFor(path[p], sigbuf[p])
        /\ pc[p] = "RenameSignature" => SignatureFor(path[p], tmpSig[p])

(* Undamaged files are what a store put there. *)
UndamagedVerified ==
    \A e \in Entries :
        /\ Present(e) /\ e \notin damagedBin => Authentic(bin[e], e.sha)
        /\ sig[e] # NoFile /\ e \notin damagedSig => SignatureFor(e, sig[e])

(* A binary read or staged stays what it was, is replaced by an authentic   *)
(* one, or disappears, unless it is damaged meanwhile.                      *)
ReliedOn ==
    \A p \in Procs :
        /\ pc[p] = "ReadSignature" /\ ~late[p] =>
              bin[path[p]] \in {NoFile, buf[p]} \/ Authentic(bin[path[p]], path[p].sha)
        /\ pc[p] \in Staged \cup {"Exec"} /\ ~late[p] =>
              bin[path[p]] = NoFile \/ Authentic(bin[path[p]], path[p].sha)

LaunchInv == TypeInv /\ Grounded /\ VerifiedBeforeStored /\ UndamagedVerified /\ ReliedOn

-----------------------------------------------------------------------------
(* The inductive invariant behind CachedResolvesOffline: how far a process   *)
(* that found its command cached has come, and what it still finds.  A name  *)
(* that is not UTF-8 makes find give up, so it is assumed away here.         *)

Complete(e) == Present(e) /\ sig[e] # NoFile

Undisturbed(p) ==
    /\ target[p].name \in Utf8Names
    /\ pc[p] \in {"Done", "FindList", "FindProbe", "ReadBinary", "ReadSignature", "Exec"}
    /\ pc[p] = "Done" => outcome[p] \in {"Ran", "Crashed"}
    /\ pc[p] # "Done" => \A e \in damagedBin \cup damagedSig : ~IsFor(e, target[p])
    /\ pc[p] = "FindList" => \E e \in Entries : IsFor(e, target[p]) /\ Complete(e)
    /\ pc[p] = "FindProbe" => /\ \A e \in listing[p] : Present(e)
                             /\ \E e \in listing[p] : sig[e] # NoFile
    /\ pc[p] \in {"ReadBinary", "ReadSignature"} => Complete(path[p])
    /\ pc[p] = "ReadSignature" => Authentic(buf[p], path[p].sha)
    /\ pc[p] = "Exec" => Present(path[p])

OfflineInv ==
    ~IoFaults /\ ~NonUtf8Neighbour => \A p \in Procs : kept[p] => Undisturbed(p)

(* The inductive invariant behind RetentionHolds: a name is within the cap,  *)
(* or some process has yet to list the cache after a store of that name, or  *)
(* one has listed all of that name and not yet removed what is too much.     *)
Few(entries)  == IsFiniteSet(entries) /\ Cardinality(entries) <= Cap
PresentOf(n)  == {e \in Entries : Present(e) /\ e.name = n}

Trims(p, n) ==
    /\ target[p].name = n
    /\ \/ pc[p] \in {"WriteSignature", "RenameSignature", "ListCache"}
       \/ pc[p] = "StatCache" /\ PresentOf(n) \subseteq listing[p] \cup Examined(p)
       \/ pc[p] \in {"RemoveBinary", "RemoveSignature"} /\ PresentOf(n) \subseteq Examined(p)

RetentionInv ==
    /\ \A p \in Procs : IsFiniteSet(stats[p])
    /\ \A n \in Names \ overdue : Few(PresentOf(n)) \/ \E p \in Procs : Trims(p, n)

(* ... and the one behind VictimsAreOldest: an entry is examined once, and   *)
(* nothing is removed unless more than the cap are left.                     *)
Retaining == {"StatCache", "RemoveBinary", "RemoveSignature"}

RowsOf(p) ==
    /\ IsFiniteSet(stats[p])
    /\ pc[p] \notin Retaining => stats[p] = {}
    /\ pc[p] = "StatCache" => listing[p] \cap Examined(p) = {}
    /\ \A v, u \in stats[p] : v[2] = u[2] => v = u
    /\ pc[p] = "RemoveBinary" => Cardinality(stats[p]) > Cap

RowsInv == \A p \in Procs : RowsOf(p)

-----------------------------------------------------------------------------
(* Documented promises that the code does not keep.                         *)

(* "Bound cache growth for `name`": retention for one name leaves every     *)
(* other name's entries alone.                                              *)
RetentionStaysInItsName ==
    \A p \in Procs : victim[p] # NoEntry => victim[p].name = target[p].name

=============================================================================
