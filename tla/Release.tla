------------------------------ MODULE Release ------------------------------
(***************************************************************************)
(* The release pipeline: prepare (pull, bump, build), sign and finalise    *)
(* (commit, tag, push, draft, upload, verify, un-draft) of tasks/*.py,     *)
(* against the remote repository and the release service.  A step is one   *)
(* call; a call may fail, or take effect and be reported as failed.        *)
(*                                                                         *)
(* In CI one run at a time holds the concurrency group and starts from a   *)
(* fresh checkout; a maintainer's local run knows nothing of the group and *)
(* may start again in the tree a failed run left.  Both are modelled: runs *)
(* overlap, and a run starts fresh or not.                                 *)
(*                                                                         *)
(* A version is a minor number and a prerelease number, 0 for a stable     *)
(* one.  One platform stands for the four: each goes through the same loop *)
(* body.                                                                   *)
(***************************************************************************)
EXTENDS Naturals, Sequences, FiniteSets, Functions

CONSTANTS
    Runners,     \* trees in which runs are started
    MaxRuns,     \* bound: runs started
    MaxFaults    \* bound: failed calls, lost answers, bad uploads, kills,
                 \* pull requests merged meanwhile

ASSUME ReleaseAssumption ==
    MaxRuns \in Nat /\ MaxFaults \in Nat

VARIABLES
    main,        \* the remote branch: its commits, oldest first
    tags,        \* the remote tags: version -> position of the commit in main
    rel,         \* the GitHub releases: version -> draft or public, and assets
    tree,        \* each runner's checkout
    run,         \* each runner's current run
    preserved,   \* versions whose verification failed, until triaged
    spent        \* runs and faults so far

vars == <<main, tags, rel, tree, run, preserved, spent>>

Kinds    == {"prerelease", "stable"}
Anchors  == <<"plugin.json", "Cargo.toml", "checksums.json", "manifest.json">>
AnchorSet == Range(Anchors)
Assets   == <<"binary", "archive", "signature", "manifest", "manifest-signature">>
Contents == {"absent", "good", "bad", "miskeyed"}
Ended    == {"idle", "published", "failed"}
Stages   == {"pull", "bump", "build", "sign", "check", "commit", "tag", "push",
             "create", "upload", "verify", "undraft", "cleanup"} \cup Ended

First     == [minor |-> 1, pre |-> 1]
Stable(v) == v.pre = 0
VersionBound == [minor : 1..(MaxRuns + 1), pre : 0..(MaxRuns + 1)]

(* semver precedence: a stable version follows its prereleases. *)
Precedes(v, w) ==
    \/ v.minor < w.minor
    \/ v.minor = w.minor /\ ~Stable(v) /\ (Stable(w) \/ v.pre < w.pre)

Commit(anchors) == [anchors |-> anchors, v |-> anchors["plugin.json"]]
Tip  == main[Len(main)]
Same(v) == [a \in AnchorSet |-> v]

(* A checkout: what it was pulled from, the commits it is ahead, its files, *)
(* its own tags, and which key signed what is staged.                       *)
FreshTree == [base |-> 0, ahead |-> <<>>, anchors |-> Same(First),
              tags |-> {}, key |-> "none"]

Init ==
    /\ main = <<Commit(Same(First))>>
    /\ tags = <<>>
    /\ rel = <<>>
    /\ tree = [r \in Runners |-> FreshTree]
    /\ run = [r \in Runners |-> [pc |-> "idle", kind |-> "prerelease",
                                 clean |-> FALSE]]
    /\ preserved = {}
    /\ spent = [runs |-> 0, faults |-> 0]

At(r, pc)  == run[r].pc = pc
Version(r) == tree[r].anchors["plugin.json"]
Without(f, v) == Restrict(f, DOMAIN f \ {v})
With(f, v, x) == [w \in DOMAIN f \cup {v} |-> IF w = v THEN x ELSE f[w]]

Goto(r, pc) == run' = [run EXCEPT ![r].pc = pc] /\ UNCHANGED spent

(* A step that fails by itself: the run is as clean as it was. *)
Refused(r) == Goto(r, "failed")

SpendFault == /\ spent.faults < MaxFaults
              /\ spent' = [spent EXCEPT !.faults = @ + 1]

(* A fault of a call of r, after which r is at pc. *)
Fault(r, pc) ==
    /\ SpendFault
    /\ run' = [run EXCEPT ![r].pc = pc, ![r].clean = FALSE]

(* A fresh checkout, or the tree of the run before. *)
Begin(r, kind, fresh) ==
    /\ run[r].pc \in Ended
    /\ spent.runs < MaxRuns
    /\ spent' = [spent EXCEPT !.runs = @ + 1]
    /\ run' = [run EXCEPT ![r] = [pc |-> "pull", kind |-> kind,
                                  clean |-> fresh]]
    /\ tree' = IF fresh THEN [tree EXCEPT ![r] = FreshTree] ELSE tree
    /\ UNCHANGED <<main, tags, rel, preserved>>

(* The anchors changed in a tree, and upstream, since it was pulled. *)
Changed(t)  == {a \in AnchorSet : t.base # 0 /\ t.anchors[a] # main[t.base].anchors[a]}
Incoming(t) == {a \in AnchorSet : t.base # 0 /\ Tip.anchors[a] # main[t.base].anchors[a]}

(* git pull fast-forwards a tree that has no commit of its own, over files  *)
(* it has changed too, unless upstream changed them as well.                *)
Pullable(t) == t.ahead = <<>> /\ Changed(t) \cap Incoming(t) = {}
Pulled(t)   == [t EXCEPT !.base = Len(main),
                         !.anchors = [a \in AnchorSet |-> IF a \in Changed(t) THEN @[a]
                                                         ELSE Tip.anchors[a]]]

Pull(r) ==
    /\ At(r, "pull")
    /\ LET behind == tree[r].base # Len(main) IN
       \/ ~behind /\ Goto(r, "bump") /\ UNCHANGED tree
       \/ /\ behind /\ Pullable(tree[r])
          /\ tree' = [tree EXCEPT ![r] = Pulled(tree[r])]
          /\ Goto(r, "bump")
       \/ behind /\ ~Pullable(tree[r]) /\ Refused(r) /\ UNCHANGED tree
       \/ Fault(r, "failed") /\ UNCHANGED tree
    /\ UNCHANGED <<main, tags, rel, preserved>>

BumpKeepingMinor(v) == [v EXCEPT !.pre = @ + 1]  \* mutant: no new line

(* _bump_to_next_prerelease: a stable cut opens the next minor's line. *)
BumpToNextPrerelease(v) ==
    IF Stable(v) THEN [minor |-> v.minor + 1, pre |-> 1]
    ELSE [v EXCEPT !.pre = @ + 1]

FinaliseVersion(v) == [v EXCEPT !.pre = 0]

Bumped(r) == IF run[r].kind = "stable" THEN FinaliseVersion(Version(r))
             ELSE BumpToNextPrerelease(Version(r))

WriteShort == 2  \* mutant: checksums and manifest are forgotten

(* version.write renders all four before it writes the first. *)
Write == Len(Anchors)

(* version.bump: the anchors are replaced one after the other. *)
Bump(r) ==
    /\ At(r, "bump")
    /\ \E n \in 0..Write :
        LET written == {Anchors[i] : i \in 1..n} IN
        /\ tree' = [tree EXCEPT ![r].anchors =
                        [a \in AnchorSet |-> IF a \in written THEN Bumped(r) ELSE @[a]]]
        /\ IF n = Write THEN Goto(r, "build") ELSE Fault(r, "failed")
    /\ UNCHANGED <<main, tags, rel, preserved>>

(* build.release: cross-build, check linkage, stage and checksum, one step  *)
(* that is done or has failed.                                              *)
Build(r) ==
    /\ At(r, "build")
    /\ Goto(r, "sign") \/ Fault(r, "failed")
    /\ UNCHANGED <<main, tags, rel, tree, preserved>>

(* write_manifest takes its version from the checksums. *)
Manifested(t) == [t EXCEPT !.anchors["manifest.json"] = t.anchors["checksums.json"]]

(* sign: with the release key, or with one the public key is not of; it may *)
(* fail before or after it has written the manifest.                        *)
Sign(r) ==
    /\ At(r, "sign")
    /\ \/ \E key \in {"release", "other"} :
             /\ tree' = [tree EXCEPT ![r] = [Manifested(@) EXCEPT !.key = key]]
             /\ IF key = "release" THEN Goto(r, "check") ELSE Fault(r, "check")
       \/ /\ tree' \in {tree, [tree EXCEPT ![r] = Manifested(@)]}
          /\ Fault(r, "failed")
    /\ UNCHANGED <<main, tags, rel, preserved>>

Coherent(anchors) == \A a, b \in AnchorSet : anchors[a] = anchors[b]

(* version.check, then the leak guard. *)
Check(r) ==
    /\ At(r, "check")
    /\ \/ Coherent(tree[r].anchors) /\ Goto(r, "commit")
       \/ ~Coherent(tree[r].anchors) /\ Refused(r)
       \/ Fault(r, "failed")
    /\ UNCHANGED <<main, tags, rel, tree, preserved>>

CommitVersion(r) ==
    /\ At(r, "commit")
    /\ \/ /\ tree' = [tree EXCEPT ![r].ahead = Append(@, Commit(tree[r].anchors))]
          /\ Goto(r, "tag")
       \/ Fault(r, "failed") /\ UNCHANGED tree
    /\ UNCHANGED <<main, tags, rel, preserved>>

TagVersion(r) ==
    /\ At(r, "tag")
    /\ \/ /\ Version(r) \notin tree[r].tags
          /\ tree' = [tree EXCEPT ![r].tags = @ \cup {Version(r)}]
          /\ Goto(r, "push")
       \/ Version(r) \in tree[r].tags /\ Refused(r) /\ UNCHANGED tree
       \/ Fault(r, "failed") /\ UNCHANGED tree
    /\ UNCHANGED <<main, tags, rel, preserved>>

FastForward(r) == tree[r].base = Len(main)
TagFree(r)     == Version(r) \notin DOMAIN tags

(* Both refs land; a run elsewhere is no longer the only one to move main. *)
Land(r, pc, clean) ==
    /\ main' = main \o tree[r].ahead
    /\ tags' = With(tags, Version(r), Len(main'))
    /\ tree' = [tree EXCEPT ![r].ahead = <<>>, ![r].base = Len(main')]
    /\ run' = [q \in Runners |->
                  IF q = r THEN [run[q] EXCEPT !.pc = pc, !.clean = @ /\ clean]
                  ELSE [run[q] EXCEPT !.clean = FALSE]]

PushSplit(r) ==  \* mutant: no --atomic
    /\ At(r, "push")
    /\ IF FastForward(r) /\ TagFree(r)
       THEN Land(r, "create", TRUE)
       ELSE /\ tags' = IF TagFree(r) THEN With(tags, Version(r), 0) ELSE tags
            /\ run' = [run EXCEPT ![r].pc = "failed"]
            /\ UNCHANGED <<main, tree>>
    /\ UNCHANGED <<rel, preserved, spent>>

PushGuarded(r) ==  \* mutant: a rejected push is cleaned up after
    /\ At(r, "push")
    /\ IF FastForward(r) /\ TagFree(r)
       THEN Land(r, "create", TRUE)
       ELSE run' = [run EXCEPT ![r].pc = "cleanup"] /\ UNCHANGED <<main, tags, tree>>
    /\ UNCHANGED <<rel, preserved, spent>>

PushIgnored(r) ==  \* mutant: a rejected push is a warning
    /\ At(r, "push")
    /\ IF FastForward(r) /\ TagFree(r)
       THEN Land(r, "create", TRUE) /\ UNCHANGED spent
       ELSE /\ tree' = [tree EXCEPT ![r].base = @ + Len(tree[r].ahead),
                                    ![r].ahead = <<>>]
            /\ Goto(r, "create")
            /\ UNCHANGED <<main, tags>>
    /\ UNCHANGED <<rel, preserved>>

(* git push --atomic origin HEAD refs/tags/v...: both refs or none. *)
Push(r) ==
    /\ At(r, "push")
    /\ \/ FastForward(r) /\ TagFree(r) /\ Land(r, "create", TRUE) /\ UNCHANGED spent
       \/ FastForward(r) /\ TagFree(r) /\ Land(r, "failed", FALSE) /\ SpendFault
       \/ /\ ~FastForward(r) \/ ~TagFree(r)
          /\ Refused(r) /\ UNCHANGED <<main, tags, tree>>
       \/ Fault(r, "failed") /\ UNCHANGED <<main, tags, tree>>
    /\ UNCHANGED <<rel, preserved>>

Draft == [public |-> FALSE, assets |-> [a \in Range(Assets) |-> "absent"]]

(* Outside the guarded block: a failure leaves what there is. *)
CreateRelease(r) ==
    /\ At(r, "create")
    /\ \/ rel' = With(rel, Version(r), Draft) /\ Goto(r, "upload")
       \/ rel' = With(rel, Version(r), Draft) /\ Fault(r, "failed")
       \/ Fault(r, "failed") /\ UNCHANGED rel
    /\ UNCHANGED <<main, tags, tree, preserved>>

(* What the asset is once it is up there, if nothing damages it. *)
Staged(r, asset) ==
    IF asset \in {"signature", "manifest-signature"} /\ tree[r].key # "release"
    THEN "miskeyed" ELSE "good"

(* upload_release_asset for each asset in turn.  The draft is nobody else's *)
(* business, so the loop is one step: the first n are there, one may be     *)
(* damaged.  What is missing locally is noticed before the guarded block,   *)
(* any other failure cleans up; "failed" with n > 0 is a runner that dies.  *)
UploadAssets(r) ==
    /\ At(r, "upload")
    /\ \E n \in 0..Len(Assets), damaged \in Range(Assets) \cup {"none"} :
        /\ rel' = [rel EXCEPT ![Version(r)].assets =
                      [a \in Range(Assets) |->
                          IF \A i \in 1..n : Assets[i] # a THEN "absent"
                          ELSE IF a = damaged THEN "bad" ELSE Staged(r, a)]]
        /\ \/ n = Len(Assets) /\ damaged = "none" /\ Goto(r, "verify")
           \/ n = Len(Assets) /\ damaged # "none" /\ Fault(r, "verify")
           \/ /\ n < Len(Assets) /\ damaged = "none"
              /\ Fault(r, "cleanup") \/ Fault(r, "failed")
    /\ UNCHANGED <<main, tags, tree, preserved>>

VerifiedManifest == {"binary", "manifest", "manifest-signature"}  \* mutant: signatures are trusted

(* download_and_verify and download_and_verify_signature: the binaries by   *)
(* digest and signature, the manifest by its signature.                     *)
VerifiedAssets == {"binary", "signature", "manifest", "manifest-signature"}

Verified(release) == \A a \in VerifiedAssets : release.assets[a] = "good"

(* A mismatch, a download that fails or times out and a minisign that fails *)
(* are AssetVerificationErrors: draft and tag stay.  Anything else that is  *)
(* raised, such as an OSError of a temporary file, cleans up.               *)
Verify(r) ==
    /\ At(r, "verify")
    /\ \/ /\ Verified(rel[Version(r)])
          /\ Goto(r, "undraft")
          /\ UNCHANGED preserved
       \/ /\ ~Verified(rel[Version(r)])
          /\ Refused(r)
          /\ preserved' = preserved \cup {Version(r)}
       \/ Fault(r, "failed") /\ preserved' = preserved \cup {Version(r)}
       \/ Fault(r, "cleanup") /\ UNCHANGED preserved
    /\ UNCHANGED <<main, tags, rel, tree>>

(* gh release edit --draft=false; when it is reported as failed the release *)
(* is deleted, public or not.                                               *)
Undraft(r) ==
    /\ At(r, "undraft")
    /\ LET published == [rel EXCEPT ![Version(r)].public = TRUE] IN
       \/ rel' = published /\ Goto(r, "published")
       \/ rel' = published /\ Fault(r, "cleanup")
       \/ Fault(r, "cleanup") /\ UNCHANGED rel
    /\ UNCHANGED <<main, tags, tree, preserved>>

(* gh release delete --cleanup-tag: the release, then the tag; a failure is *)
(* a warning.                                                               *)
Cleanup(r) ==
    /\ At(r, "cleanup")
    /\ \/ /\ rel' = Without(rel, Version(r))
          /\ tags' = Without(tags, Version(r))
          /\ Goto(r, "failed")
       \/ Fault(r, "failed") /\ rel' = Without(rel, Version(r)) /\ UNCHANGED tags
       \/ Fault(r, "failed") /\ UNCHANGED <<rel, tags>>
    /\ UNCHANGED <<main, tree, preserved>>

(* The runner dies. *)
Kill(r) ==
    /\ run[r].pc \notin Ended
    /\ Fault(r, "failed")
    /\ UNCHANGED <<main, tags, rel, tree, preserved>>

(* A maintainer deletes a preserved draft and its tag (RELEASING.md). *)
Triage ==
    /\ \E v \in preserved : /\ rel' = Without(rel, v)
                            /\ tags' = Without(tags, v)
                            /\ preserved' = preserved \ {v}
    /\ UNCHANGED <<main, tree, run, spent>>

(* A pull request that touches none of the anchors lands meanwhile. *)
MergePullRequest ==
    /\ SpendFault
    /\ main' = Append(main, Tip)
    /\ run' = [r \in Runners |-> [run[r] EXCEPT !.clean = FALSE]]
    /\ UNCHANGED <<tags, rel, tree, preserved>>

Prepare(r)  == Pull(r) \/ Bump(r) \/ Build(r)
Publish(r)  == \/ Check(r) \/ CommitVersion(r) \/ TagVersion(r) \/ Push(r)
               \/ CreateRelease(r) \/ UploadAssets(r) \/ Verify(r) \/ Undraft(r)
               \/ Cleanup(r)

Idle == /\ \A r \in Runners : run[r].pc \in Ended
        /\ spent.runs = MaxRuns

Next ==
    \/ \E r \in Runners : \/ \E kind \in Kinds, fresh \in BOOLEAN : Begin(r, kind, fresh)
                          \/ Prepare(r) \/ Sign(r) \/ Publish(r) \/ Kill(r)
    \/ Triage
    \/ MergePullRequest
    \/ Idle /\ UNCHANGED vars

Spec == Init /\ [][Next]_vars

-----------------------------------------------------------------------------
Commits == [anchors : [AnchorSet -> VersionBound], v : VersionBound]

TypeOK ==
    /\ main \in Seq(Commits)
    /\ DOMAIN tags \subseteq VersionBound
    /\ \A v \in DOMAIN tags : tags[v] \in Nat
    /\ DOMAIN rel \subseteq VersionBound
    /\ \A v \in DOMAIN rel :
          rel[v] \in [public : BOOLEAN, assets : [Range(Assets) -> Contents]]
    /\ \A r \in Runners :
          /\ tree[r].base \in 0..Len(main)
          /\ tree[r].ahead \in Seq(Commits)
          /\ tree[r].anchors \in [AnchorSet -> VersionBound]
          /\ tree[r].tags \subseteq VersionBound
          /\ tree[r].key \in {"none", "release", "other"}
          /\ run[r] \in [pc : Stages, kind : Kinds, clean : BOOLEAN]
    /\ preserved \subseteq VersionBound
    /\ spent \in [runs : 0..MaxRuns, faults : 0..MaxFaults]

(* "Upload artefacts, verify SHA-256 + minisign + manifest, then publish"   *)
(* (github.py:184): whatever failed on the way, the binary, the signatures  *)
(* and the manifest of a release that anyone can see are what was built, by *)
(* the committed key.  The debug archive is left out: it is uploaded like   *)
(* them, but the code never downloads it again.                             *)
PublicVerified ==
    \A v \in DOMAIN rel : rel[v].public =>
        \A a \in Range(Assets) \ {"archive"} : rel[v].assets[a] = "good"

(* The reason for --atomic (git.py:39): a tag, and so every release, is of  *)
(* a commit of main, the one that bumps to its version.                     *)
TagsOnMain ==
    /\ \A v \in DOMAIN tags : tags[v] \in DOMAIN main /\ main[tags[v]].v = v
    /\ DOMAIN rel \subseteq DOMAIN tags

(* Runs that overlap, fail and start again never take main back to an       *)
(* earlier version: what the launcher's cache and the marketplace refs      *)
(* order by (version.py:57).                                                *)
VersionsAscend ==
    \A i, j \in DOMAIN main : i < j =>
        main[j].v = main[i].v \/ Precedes(main[i].v, main[j].v)

(* The four anchors are rewritten one by one, and a run may start in a tree *)
(* where that was cut short: once a run is past its bump they agree, and so *)
(* they do in every commit of main (version.py:81, 136).                    *)
AnchorsAgree ==
    /\ \A i \in DOMAIN main : Coherent(main[i].anchors)
    /\ \A r \in Runners : run[r].pc \notin Ended \cup {"pull", "bump"} =>
          Coherent(tree[r].anchors)

(* No earlier run, wherever it died, wedges the pipeline (git.py:39): a     *)
(* prerelease from a fresh checkout, with main to itself and no fault of    *)
(* its own, does not fail.                                                  *)
CleanPrereleasePublishes ==
    \A r \in Runners :
        run[r].clean /\ run[r].kind = "prerelease" => ~At(r, "failed")

(* What failed its verification stays for triage, draft and tag: no clean   *)
(* up of any later run of the same version removes it (github.py:231).      *)
PreservedForTriage == preserved \subseteq DOMAIN rel \cap DOMAIN tags

(* Expected to fail.  RELEASING.md: "If a run dies between push and release *)
(* creation, the atomic branch+tag push means the tag never lands without   *)
(* its branch commit; re-running from a clean tree is safe."                *)
RerunSafe ==
    \A r \in Runners :
        run[r].clean /\ At(r, "failed") => Version(r) \in DOMAIN rel

=============================================================================
