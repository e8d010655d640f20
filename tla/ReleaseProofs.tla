---------------------------- MODULE ReleaseProofs ----------------------------
(***************************************************************************)
(* Proofs about Release, for any number of trees, runs and faults.         *)
(***************************************************************************)
EXTENDS Release, FiniteSetTheorems, TLAPS

Versions   == [minor : Nat, pre : Nat]
AnchorsOf  == [AnchorSet -> Versions]
MainCommit == [anchors : AnchorsOf, v : Versions]
Trees      == [base : Nat, ahead : Seq(MainCommit), anchors : AnchorsOf,
               tags : SUBSET Versions, key : {"none", "release", "other"}]
Runs       == [pc : Stages, kind : Kinds, clean : BOOLEAN]
Releases   == [public : BOOLEAN, assets : [Range(Assets) -> Contents]]

TreeVersion(t) == t.anchors["plugin.json"]
Upto(v, w)     == v = w \/ Precedes(v, w)

Sound(c) == c.v = c.anchors["plugin.json"] /\ Coherent(c.anchors)

Early  == Ended \cup {"pull"}
Active == {"create", "upload", "verify", "undraft", "cleanup"}

(* main: commits whose files agree, with versions that never go back. *)
MainInv(m) ==
    /\ m \in Seq(MainCommit) /\ Len(m) >= 1
    /\ \A i \in 1..Len(m) : Sound(m[i])
    /\ \A i, j \in 1..Len(m) : i < j => Upto(m[i].v, m[j].v)

(* A tree that was pulled continues main from where it was pulled.          *)
Forward(t, pc, m) ==
    /\ t.base <= Len(m)
    /\ t.base = 0 => t.ahead = <<>> /\ pc \in Early
    /\ t.base # 0 => Upto(m[t.base].v, TreeVersion(t))
    /\ \A i \in 1..Len(t.ahead) :
          /\ Sound(t.ahead[i])
          /\ t.base # 0 => Upto(m[t.base].v, t.ahead[i].v)
          /\ Upto(t.ahead[i].v, TreeVersion(t))
    /\ \A i, j \in 1..Len(t.ahead) : i < j => Upto(t.ahead[i].v, t.ahead[j].v)
    /\ pc \in {"tag", "push"} =>
          Len(t.ahead) >= 1 /\ t.ahead[Len(t.ahead)].v = TreeVersion(t)
    /\ pc \notin Early \cup {"bump"} => Coherent(t.anchors)

(* The tags, the releases and what is kept for triage. *)
Registry(m, tg, rl, ps) ==
    /\ \A v \in DOMAIN tg : tg[v] \in 1..Len(m) /\ m[tg[v]].v = v
    /\ DOMAIN rl \subseteq DOMAIN tg
    /\ \A v \in DOMAIN rl : rl[v] \in Releases /\ (rl[v].public => Verified(rl[v]))
    /\ ps \subseteq DOMAIN rl

(* A run past its push owns the tag of its version, and the draft.          *)
Placed(v, pc, tg, rl, ps) ==
    /\ pc \in Active => v \in DOMAIN tg /\ v \notin ps
    /\ pc \in {"upload", "verify", "undraft"} => v \in DOMAIN rl /\ ~rl[v].public
    /\ pc = "undraft" => Verified(rl[v])

(* A run that nothing has interfered with. *)
Unspoilt(t, u, m, rl) ==
    u.clean =>
      /\ u.pc = "pull" => t = FreshTree
      /\ u.pc \in {"bump", "build", "sign", "check", "commit", "tag"} => t.tags = {}
      /\ u.pc \in {"bump", "build", "sign", "check", "commit", "tag", "push"} =>
            t.base = Len(m)
      /\ u.pc \in {"build", "sign", "check", "commit", "tag", "push"}
         /\ u.kind = "prerelease" => \A i \in 1..Len(m) : Precedes(m[i].v, TreeVersion(t))
      /\ u.pc \in {"check", "commit", "tag", "push", "create", "upload"} =>
            t.key = "release"
      /\ u.pc = "verify" => Verified(rl[TreeVersion(t)])
      /\ u.pc # "cleanup"
      /\ u.kind = "prerelease" => u.pc # "failed"

Alone == \A q, r \in Runners :
    q # r /\ run[q].pc \in Active /\ run[r].pc \in Active =>
        TreeVersion(tree[q]) # TreeVersion(tree[r])

Inv ==
    /\ tree \in [Runners -> Trees] /\ run \in [Runners -> Runs]
    /\ MainInv(main)
    /\ Registry(main, tags, rel, preserved)
    /\ \A r \in Runners :
          /\ Forward(tree[r], run[r].pc, main)
          /\ Placed(TreeVersion(tree[r]), run[r].pc, tags, rel, preserved)
          /\ Unspoilt(tree[r], run[r], main, rel)
    /\ Alone

-----------------------------------------------------------------------------
LEMMA AnchorFacts ==
  AnchorSet = {"plugin.json", "Cargo.toml", "checksums.json", "manifest.json"}
<1>1. DOMAIN Anchors = 1..4
  BY DEF Anchors
<1>2. 1..4 = {1, 2, 3, 4}
  OBVIOUS
<1>3. AnchorSet = {Anchors[1], Anchors[2], Anchors[3], Anchors[4]}
  BY <1>1, <1>2 DEF AnchorSet, Range
<1> QED
  BY <1>3 DEF Anchors

LEMMA AssetFacts ==
  Range(Assets) = {"binary", "archive", "signature", "manifest", "manifest-signature"}
<1>1. DOMAIN Assets = 1..5
  BY DEF Assets
<1>2. 1..5 = {1, 2, 3, 4, 5}
  OBVIOUS
<1>3. Range(Assets) = {Assets[1], Assets[2], Assets[3], Assets[4], Assets[5]}
  BY <1>1, <1>2 DEF Range
<1> QED
  BY <1>3 DEF Assets

LEMMA VersionFacts ==
  /\ First \in Versions
  /\ \A t \in Trees : TreeVersion(t) \in Versions
  /\ \A v \in Versions : Same(v) \in AnchorsOf /\ Coherent(Same(v))
                         /\ Same(v)["plugin.json"] = v
<1>1. "plugin.json" \in AnchorSet
  BY AnchorFacts
<1> QED
  BY <1>1 DEF First, Versions, Trees, TreeVersion, AnchorsOf, Same, Coherent

LEMMA CommitFacts ==
  ASSUME NEW s \in Seq(MainCommit), NEW i \in 1..Len(s)
  PROVE  s[i] \in MainCommit /\ s[i].v \in Versions /\ s[i].anchors \in AnchorsOf
<1>1. s[i] \in MainCommit
  OBVIOUS
<1> QED
  BY <1>1 DEF MainCommit

LEMMA UptoTransitive ==
  ASSUME NEW u \in Versions, NEW v \in Versions, NEW w \in Versions, Upto(u, v), Upto(v, w)
  PROVE  Upto(u, w)
BY DEF Upto, Precedes, Stable, Versions

LEMMA PrecedesFacts ==
  ASSUME NEW u \in Versions, NEW v \in Versions, NEW w \in Versions
  PROVE  /\ Upto(u, v) /\ Precedes(v, w) => Precedes(u, w)
         /\ ~Precedes(u, u)
BY DEF Upto, Precedes, Stable, Versions

LEMMA BumpFacts ==
  ASSUME NEW v \in Versions
  PROVE  /\ BumpToNextPrerelease(v) \in Versions /\ FinaliseVersion(v) \in Versions
         /\ Precedes(v, BumpToNextPrerelease(v)) /\ Upto(v, FinaliseVersion(v))
<1>1. /\ BumpToNextPrerelease(v) \in Versions /\ Precedes(v, BumpToNextPrerelease(v))
  BY DEF BumpToNextPrerelease, Precedes, Stable, Versions
<1>2. FinaliseVersion(v) \in Versions
  BY DEF FinaliseVersion, Versions
<1>3. Upto(v, FinaliseVersion(v))
  <2>1. FinaliseVersion(v).minor = v.minor /\ FinaliseVersion(v).pre = 0
    BY DEF FinaliseVersion, Versions
  <2>2. v.pre = 0 => FinaliseVersion(v) = v
    BY <2>1 DEF FinaliseVersion, Versions
  <2> QED
    BY <2>1, <2>2 DEF Upto, Precedes, Stable, Versions
<1> QED
  BY <1>1, <1>2, <1>3

LEMMA InitInv == Init => Inv
<1> SUFFICES ASSUME Init PROVE Inv
  OBVIOUS
<1> DEFINE c == Commit(Same(First))
<1>1. c \in MainCommit /\ Sound(c)
  BY VersionFacts DEF Commit, MainCommit, Sound
<1>2. FreshTree \in Trees /\ FreshTree.base = 0 /\ FreshTree.ahead = <<>>
      /\ FreshTree.tags = {} /\ TreeVersion(FreshTree) = First
  BY VersionFacts DEF FreshTree, Trees, TreeVersion
<1> HIDE DEF c
<1>3. tree = [r \in Runners |-> FreshTree]
      /\ run = [r \in Runners |-> [pc |-> "idle", kind |-> "prerelease", clean |-> FALSE]]
      /\ main = <<c>> /\ tags = <<>> /\ rel = <<>> /\ preserved = {}
  BY DEF Init, c
<1>4. tree \in [Runners -> Trees] /\ run \in [Runners -> Runs]
  BY <1>2, <1>3 DEF Runs, Stages, Ended, Kinds
<1>5. MainInv(main)
  <2>1. main \in Seq(MainCommit) /\ Len(main) = 1 /\ main[1] = c
    BY <1>1, <1>3
  <2> QED
    BY <1>1, <2>1 DEF MainInv
<1>6. Registry(main, tags, rel, preserved)
  BY <1>3 DEF Registry
<1>7. ASSUME NEW r \in Runners
      PROVE  /\ Forward(tree[r], run[r].pc, main)
             /\ Placed(TreeVersion(tree[r]), run[r].pc, tags, rel, preserved)
             /\ Unspoilt(tree[r], run[r], main, rel)
  <2>1. tree[r] = FreshTree /\ run[r].pc = "idle" /\ ~run[r].clean
    BY <1>3
  <2>2. Forward(tree[r], run[r].pc, main)
    BY <1>2, <1>5, <2>1 DEF Forward, Early, Ended, MainInv
  <2> QED
    BY <2>1, <2>2 DEF Placed, Active, Unspoilt
<1>8. Alone
  BY <1>3 DEF Alone, Active
<1> QED
  BY <1>4, <1>5, <1>6, <1>7, <1>8 DEF Inv

(* What every step starts from. *)
LEMMA Facts ==
  ASSUME Inv, NEW r \in Runners
  PROVE  /\ tree \in [Runners -> Trees] /\ run \in [Runners -> Runs]
         /\ tree[r] \in Trees /\ run[r] \in Runs
         /\ MainInv(main) /\ Registry(main, tags, rel, preserved)
         /\ Forward(tree[r], run[r].pc, main)
         /\ Placed(TreeVersion(tree[r]), run[r].pc, tags, rel, preserved)
         /\ Unspoilt(tree[r], run[r], main, rel)
         /\ Version(r) = TreeVersion(tree[r]) /\ Version(r) \in Versions
BY VersionFacts DEF Inv, Version, TreeVersion

(* A step in the tree of r alone. *)
LEMMA LocalStep ==
  ASSUME Inv, NEW r \in Runners, NEW t \in Trees, NEW u \in Runs,
         tree' = [tree EXCEPT ![r] = t], run' = [run EXCEPT ![r] = u],
         UNCHANGED <<main, tags, rel, preserved>>,
         u.pc \notin Active, Forward(t, u.pc, main), Unspoilt(t, u, main, rel)
  PROVE  Inv'
<1>1. tree' \in [Runners -> Trees] /\ run' \in [Runners -> Runs]
  BY Facts
<1>2. MainInv(main') /\ Registry(main', tags', rel', preserved')
  BY Facts
<1>3. ASSUME NEW q \in Runners
      PROVE  /\ Forward(tree'[q], run'[q].pc, main')
             /\ Placed(TreeVersion(tree'[q]), run'[q].pc, tags', rel', preserved')
             /\ Unspoilt(tree'[q], run'[q], main', rel')
  <2>1. CASE q = r
    <3>1. tree'[q] = t /\ run'[q] = u
      BY <2>1, Facts
    <3>2. Placed(TreeVersion(t), u.pc, tags', rel', preserved')
      BY DEF Placed, Active
    <3> QED
      BY <3>1, <3>2
  <2>2. CASE q # r
    <3>1. tree'[q] = tree[q] /\ run'[q] = run[q]
      BY <2>2, Facts
    <3> QED
      BY <3>1, Facts
  <2> QED
    BY <2>1, <2>2
<1>4. Alone'
  BY Facts DEF Inv, Alone
<1> QED
  BY <1>1, <1>2, <1>3, <1>4 DEF Inv

(* A call of r to the release service: it is about the version of r alone. *)
LEMMA ServiceStep ==
  ASSUME Inv, NEW r \in Runners, NEW u \in Runs, UNCHANGED <<tree, main>>,
         run' = [run EXCEPT ![r] = u],
         run[r].pc \in Active, u.pc \in Active \cup {"published", "failed"},
         Registry(main, tags', rel', preserved'),
         Placed(Version(r), u.pc, tags', rel', preserved'),
         Unspoilt(tree[r], u, main, rel'),
         \A w : w # Version(r) =>
            /\ w \in DOMAIN tags => w \in DOMAIN tags'
            /\ w \in preserved' => w \in preserved
            /\ w \in DOMAIN rel => w \in DOMAIN rel' /\ rel'[w] = rel[w]
  PROVE  Inv'
<1>1. tree' \in [Runners -> Trees] /\ run' \in [Runners -> Runs]
  BY Facts
<1>2. MainInv(main') /\ Registry(main', tags', rel', preserved')
  BY Facts
<1>3. ASSUME NEW q \in Runners
      PROVE  /\ Forward(tree'[q], run'[q].pc, main')
             /\ Placed(TreeVersion(tree'[q]), run'[q].pc, tags', rel', preserved')
             /\ Unspoilt(tree'[q], run'[q], main', rel')
  <2>1. CASE q = r
    <3>1. tree'[q] = tree[q] /\ run'[q] = u
      BY <2>1, Facts
    <3>2. Forward(tree[q], u.pc, main)
      BY <2>1, Facts DEF Forward, Early, Ended, Active
    <3> QED
      BY <2>1, <3>1, <3>2, Facts
  <2>2. CASE q # r
    <3>1. tree'[q] = tree[q] /\ run'[q] = run[q]
      BY <2>2, Facts
    <3>2. run[q].pc \in Active => TreeVersion(tree[q]) # Version(r)
      BY <2>2, Facts DEF Inv, Alone
    <3>3. Placed(TreeVersion(tree[q]), run[q].pc, tags', rel', preserved')
      BY <3>2, Facts DEF Placed, Active
    <3>4. Unspoilt(tree[q], run[q], main, rel')
      BY <3>2, Facts DEF Unspoilt, Placed, Active
    <3> QED
      BY <3>1, <3>3, <3>4, Facts
  <2> QED
    BY <2>1, <2>2
<1>4. Alone'
  BY Facts DEF Inv, Alone
<1> QED
  BY <1>1, <1>2, <1>3, <1>4 DEF Inv

LEMMA GotoFacts ==
  ASSUME Inv, NEW r \in Runners, NEW pc \in Stages,
         Goto(r, pc) \/ Fault(r, pc)
  PROVE  \E u \in Runs : /\ run' = [run EXCEPT ![r] = u]
                         /\ u.pc = pc /\ u.kind = run[r].kind
                         /\ u.clean => run[r].clean
                         /\ Fault(r, pc) => ~u.clean
<1>1. run[r] \in Runs /\ run \in [Runners -> Runs]
  BY Facts
<1>2. CASE Fault(r, pc)
  <2> DEFINE u == [run[r] EXCEPT !.pc = pc, !.clean = FALSE]
  <2>1. u \in Runs /\ u.pc = pc /\ u.kind = run[r].kind /\ ~u.clean
    BY <1>1 DEF Runs
  <2>2. run' = [run EXCEPT ![r] = u]
    BY <1>1, <1>2 DEF Fault
  <2> QED
    BY <2>1, <2>2
<1>3. CASE Goto(r, pc) /\ ~Fault(r, pc)
  <2> DEFINE u == [run[r] EXCEPT !.pc = pc]
  <2>1. u \in Runs /\ u.pc = pc /\ u.kind = run[r].kind /\ u.clean = run[r].clean
    BY <1>1 DEF Runs
  <2>2. run' = [run EXCEPT ![r] = u]
    BY <1>1, <1>3 DEF Goto
  <2> QED
    BY <1>3, <2>1, <2>2
<1> QED
  BY <1>2, <1>3

(* A run that ends and leaves its tree as it is. *)
LEMMA StopStep ==
  ASSUME Inv, NEW r \in Runners, UNCHANGED <<main, tags, rel, tree, preserved>>,
         \/ Refused(r) /\ ~(run[r].clean /\ run[r].kind = "prerelease")
         \/ Fault(r, "failed")
  PROVE  Inv'
<1>1. PICK u \in Runs : /\ run' = [run EXCEPT ![r] = u]
                        /\ u.pc = "failed" /\ u.kind = run[r].kind
                        /\ u.clean => run[r].clean
                        /\ Fault(r, "failed") => ~u.clean
  BY GotoFacts DEF Refused, Stages, Ended
<1>2. u.clean => u.kind # "prerelease"
  BY <1>1
<1>3. tree' = [tree EXCEPT ![r] = tree[r]]
  BY Facts
<1>4. Forward(tree[r], u.pc, main)
  BY <1>1, Facts DEF Forward, Early, Ended
<1>5. Unspoilt(tree[r], u, main, rel)
  BY <1>1, <1>2 DEF Unspoilt
<1> QED
  BY <1>1, <1>3, <1>4, <1>5, Facts, LocalStep DEF Active

LEMMA BeginStep ==
  ASSUME Inv, NEW r \in Runners, NEW kind \in Kinds, NEW fresh \in BOOLEAN,
         Begin(r, kind, fresh)
  PROVE  Inv'
<1> DEFINE u == [pc |-> "pull", kind |-> kind, clean |-> fresh]
           t == IF fresh THEN FreshTree ELSE tree[r]
<1>1. u \in Runs /\ u.pc = "pull" /\ u.clean = fresh
  BY DEF Runs, Stages
<1>2. FreshTree \in Trees /\ FreshTree.base = 0 /\ FreshTree.ahead = <<>>
  BY VersionFacts DEF FreshTree, Trees
<1>3. t \in Trees /\ tree' = [tree EXCEPT ![r] = t] /\ run' = [run EXCEPT ![r] = u]
  BY <1>2, Facts DEF Begin
<1>4. Forward(t, "pull", main)
  <2>1. CASE fresh
    BY <1>2, <2>1, Facts DEF Forward, Early, MainInv
  <2>2. CASE ~fresh
    BY <2>2, Facts DEF Begin, Forward, Early
  <2> QED
    BY <2>1, <2>2
<1>5. Unspoilt(t, u, main, rel)
  BY <1>1 DEF Unspoilt
<1> QED
  BY <1>1, <1>3, <1>4, <1>5, LocalStep DEF Begin, Active

(* What a fast-forward makes of a tree: its version is that of upstream, or *)
(* its own, which is no earlier.                                            *)
LEMMA PulledFacts ==
  ASSUME MainInv(main), NEW t \in Trees, NEW pc, Forward(t, pc, main), Pullable(t)
  PROVE  /\ Pulled(t) \in Trees /\ Pulled(t).base = Len(main)
         /\ Pulled(t).ahead = <<>> /\ Pulled(t).tags = t.tags
         /\ \A a \in AnchorSet : Pulled(t).anchors[a] \in {t.anchors[a], Tip.anchors[a]}
         /\ TreeVersion(Pulled(t)) = Tip.v \/ (t.base # 0 /\ Upto(Tip.v, TreeVersion(Pulled(t))))
<1> DEFINE new == [a \in AnchorSet |-> IF a \in Changed(t) THEN t.anchors[a]
                                       ELSE Tip.anchors[a]]
           p == "plugin.json"
<1>1. Len(main) \in Nat \ {0} /\ Tip \in MainCommit /\ Sound(Tip) /\ p \in AnchorSet
  BY AnchorFacts DEF MainInv, Tip
<1>2. new \in AnchorsOf
  BY <1>1 DEF Trees, AnchorsOf, MainCommit
<1>3. /\ Pulled(t) \in Trees /\ Pulled(t).base = Len(main) /\ Pulled(t).tags = t.tags
      /\ Pulled(t).anchors = new /\ Pulled(t).ahead = <<>>
  BY <1>1, <1>2 DEF Pulled, Trees, Pullable
<1>4. CASE p \notin Changed(t)
  BY <1>1, <1>3, <1>4 DEF TreeVersion, Sound
<1>5. CASE p \in Changed(t)
  <2>1. t.base # 0 /\ t.base \in 1..Len(main) /\ TreeVersion(Pulled(t)) = TreeVersion(t)
    BY <1>1, <1>3, <1>5 DEF Changed, Forward, Trees, TreeVersion
  <2>2. Tip.anchors[p] = main[t.base].anchors[p]
    BY <1>1, <1>5, <2>1 DEF Pullable, Incoming
  <2>3. Tip.v = main[t.base].v
    BY <1>1, <2>1, <2>2 DEF MainInv, Sound
  <2> QED
    BY <1>3, <2>1, <2>3 DEF Forward
<1> QED
  BY <1>1, <1>3, <1>4, <1>5

LEMMA PullStep ==
  ASSUME Inv, NEW r \in Runners, Pull(r)
  PROVE  Inv'
<1>0. /\ tree[r] \in Trees /\ run[r] \in Runs /\ run[r].pc = "pull"
      /\ Forward(tree[r], "pull", main) /\ Unspoilt(tree[r], run[r], main, rel)
      /\ Len(main) \in Nat \ {0} /\ main[Len(main)] \in MainCommit /\ Sound(main[Len(main)])
      /\ UNCHANGED <<main, tags, rel, preserved>>
  BY Facts DEF Pull, At, MainInv
<1>1. run[r].clean => tree[r].base = 0 /\ tree[r].tags = {}
  BY <1>0 DEF Unspoilt, FreshTree
<1>2. CASE tree[r].base = Len(main) /\ Goto(r, "bump") /\ UNCHANGED tree
  <2>1. PICK u \in Runs : /\ run' = [run EXCEPT ![r] = u]
                          /\ u.pc = "bump" /\ (u.clean => run[r].clean)
    BY <1>2, GotoFacts DEF Stages
  <2>2. Forward(tree[r], "bump", main)
    BY <1>0, <1>2 DEF Forward, Early, Ended
  <2>3. Unspoilt(tree[r], u, main, rel)
    BY <1>0, <1>1, <1>2, <2>1 DEF Unspoilt
  <2> QED
    BY <1>0, <1>2, <2>1, <2>2, <2>3, Facts, LocalStep DEF Active
<1>3. CASE /\ tree[r].base # Len(main) /\ Pullable(tree[r]) /\ Goto(r, "bump")
           /\ tree' = [tree EXCEPT ![r] = Pulled(tree[r])]
  <2> DEFINE t == Pulled(tree[r])
  <2>1. PICK u \in Runs : /\ run' = [run EXCEPT ![r] = u]
                          /\ u.pc = "bump" /\ (u.clean => run[r].clean)
    BY <1>3, GotoFacts DEF Stages
  <2>2. /\ t \in Trees /\ t.base = Len(main) /\ t.ahead = <<>> /\ t.tags = tree[r].tags
        /\ TreeVersion(t) = main[Len(main)].v \/ Upto(main[Len(main)].v, TreeVersion(t))
    BY <1>0, <1>3, PulledFacts, Facts DEF Tip
  <2> HIDE DEF t
  <2>3. Forward(t, "bump", main)
    BY <1>0, <2>2 DEF Forward, Upto, Early, Ended
  <2>4. Unspoilt(t, u, main, rel)
    BY <1>1, <2>1, <2>2 DEF Unspoilt
  <2> QED
    BY <1>0, <1>3, <2>1, <2>2, <2>3, <2>4, LocalStep DEF Active, t
<1>4. CASE tree[r].base # Len(main) /\ ~Pullable(tree[r]) /\ Refused(r) /\ UNCHANGED tree
  <2>1. ~run[r].clean
    BY <1>0, <1>1, <1>4 DEF Pullable, Changed, Forward
  <2> QED
    BY <1>0, <1>4, <2>1, StopStep
<1>5. CASE Fault(r, "failed") /\ UNCHANGED tree
  BY <1>0, <1>5, StopStep
<1> QED
  BY <1>2, <1>3, <1>4, <1>5 DEF Pull

LEMMA BumpStep ==
  ASSUME Inv, NEW r \in Runners, Bump(r)
  PROVE  Inv'
<1>0. /\ tree[r] \in Trees /\ run[r] \in Runs /\ run[r].pc = "bump" /\ run[r].kind \in Kinds
      /\ Forward(tree[r], "bump", main) /\ Unspoilt(tree[r], run[r], main, rel)
      /\ MainInv(main) /\ UNCHANGED <<main, tags, rel, preserved>>
  BY Facts DEF Bump, At, Runs
<1>1. PICK n \in 0..Write :
        /\ tree' = [tree EXCEPT ![r].anchors =
              [a \in AnchorSet |-> IF a \in {Anchors[i] : i \in 1..n} THEN Bumped(r) ELSE @[a]]]
        /\ IF n = Write THEN Goto(r, "build") ELSE Fault(r, "failed")
  BY DEF Bump
<1> DEFINE new == [a \in AnchorSet |-> IF a \in {Anchors[i] : i \in 1..n} THEN Bumped(r)
                                       ELSE tree[r].anchors[a]]
           t == [tree[r] EXCEPT !.anchors = new]
           pc == IF n = Write THEN "build" ELSE "failed"
<1>2. /\ Bumped(r) \in Versions /\ Upto(Version(r), Bumped(r))
      /\ run[r].kind = "prerelease" => Precedes(Version(r), Bumped(r))
  BY <1>0, BumpFacts, Facts DEF Bumped, Upto, Kinds
<1>3. new \in AnchorsOf
  BY <1>0, <1>2 DEF Trees, AnchorsOf
<1>4. /\ t \in Trees /\ t.base = tree[r].base /\ t.ahead = tree[r].ahead
      /\ t.tags = tree[r].tags /\ t.anchors = new /\ tree' = [tree EXCEPT ![r] = t]
  BY <1>0, <1>1, <1>3, Facts DEF Trees
<1>5. TreeVersion(t) \in {Version(r), Bumped(r)} /\ Upto(Version(r), TreeVersion(t))
  BY <1>2, <1>4, AnchorFacts DEF TreeVersion, Version, Upto
<1>6. n = Write => new = Same(Bumped(r))
  <2> SUFFICES ASSUME n = Write PROVE \A a \in AnchorSet : a \in {Anchors[i] : i \in 1..n}
    BY DEF Same
  <2>1. n = Len(Anchors) /\ DOMAIN Anchors = 1..Len(Anchors)
    BY DEF Write, Anchors
  <2> QED
    BY <2>1 DEF AnchorSet, Range
<1>7. PICK u \in Runs : /\ run' = [run EXCEPT ![r] = u]
                        /\ u.pc = pc /\ u.kind = run[r].kind
                        /\ u.clean => run[r].clean /\ n = Write
  <2>1. CASE n = Write
    BY <1>1, <2>1, GotoFacts DEF Stages
  <2>2. CASE n # Write
    BY <1>1, <2>2, GotoFacts DEF Stages, Ended
  <2> QED
    BY <2>1, <2>2
<1> HIDE DEF t, new
<1>8. \A v \in Versions : Upto(v, Version(r)) => Upto(v, TreeVersion(t))
  BY <1>4, <1>5, Facts, VersionFacts, UptoTransitive
<1>9. Forward(t, pc, main)
  <2>1. Version(r) = TreeVersion(tree[r])
    BY Facts
  <2>2. t.base # 0 /\ t.base <= Len(main) /\ t.base \in Nat
    BY <1>0, <1>4 DEF Forward, Early, Ended, Trees
  <2>3. Upto(main[t.base].v, TreeVersion(t))
    <3>1. main[t.base].v \in Versions
      BY <1>0, <2>2, CommitFacts DEF MainInv
    <3> QED
      BY <1>0, <1>4, <1>8, <2>1, <2>2, <3>1 DEF Forward
  <2>4. ASSUME NEW i \in 1..Len(t.ahead)
        PROVE  /\ Sound(t.ahead[i]) /\ Upto(main[t.base].v, t.ahead[i].v)
               /\ Upto(t.ahead[i].v, TreeVersion(t))
    <3>1. t.ahead[i].v \in Versions
      <4>1. t.ahead \in Seq(MainCommit)
        BY <1>4 DEF Trees
      <4> QED
        BY <4>1, CommitFacts
    <3> QED
      BY <1>0, <1>4, <1>8, <2>1, <2>2, <3>1 DEF Forward
  <2>5. pc \notin Early \cup {"bump"} => Coherent(t.anchors)
    BY <1>2, <1>4, <1>6, VersionFacts DEF Early, Ended
  <2> QED
    BY <1>0, <1>4, <2>2, <2>3, <2>4, <2>5 DEF Forward
<1>10. Unspoilt(t, u, main, rel)
  <2> SUFFICES ASSUME u.clean PROVE Unspoilt(t, u, main, rel)
    BY DEF Unspoilt
  <2>1. run[r].clean /\ u.pc = "build" /\ t.tags = {} /\ t.base = Len(main)
    BY <1>0, <1>4, <1>7 DEF Unspoilt
  <2>2. ASSUME u.kind = "prerelease", NEW i \in 1..Len(main)
        PROVE  Precedes(main[i].v, TreeVersion(t))
    <3>1. TreeVersion(t) = Bumped(r)
      <4>1. n = Write
        BY <1>7
      <4> QED
        BY <1>2, <1>4, <1>6, <4>1, VersionFacts DEF TreeVersion
    <3>2. Upto(main[Len(main)].v, Version(r))
      BY <1>0, <1>4, <2>1, Facts DEF Forward, Early, Ended
    <3>3. /\ main[i].v \in Versions /\ main[Len(main)].v \in Versions
          /\ Upto(main[i].v, main[Len(main)].v)
      <4>1. main \in Seq(MainCommit) /\ Len(main) \in 1..Len(main)
        BY <1>0 DEF MainInv
      <4>2. main[i].v \in Versions /\ main[Len(main)].v \in Versions
        BY <4>1, CommitFacts
      <4>3. i = Len(main) \/ i < Len(main)
        BY <4>1
      <4> QED
        BY <1>0, <4>1, <4>2, <4>3 DEF MainInv, Upto
    <3>4. Upto(main[i].v, Version(r))
      BY <3>2, <3>3, Facts, UptoTransitive
    <3> QED
      BY <1>2, <1>7, <2>2, <3>1, <3>3, <3>4, Facts, PrecedesFacts
  <2> QED
    BY <2>1, <2>2 DEF Unspoilt
<1> QED
  BY <1>0, <1>4, <1>7, <1>9, <1>10, LocalStep DEF Active

LEMMA BuildStep ==
  ASSUME Inv, NEW r \in Runners, Build(r)
  PROVE  Inv'
<1>0. /\ run[r].pc = "build" /\ UNCHANGED <<main, tags, rel, tree, preserved>>
      /\ Forward(tree[r], "build", main) /\ Unspoilt(tree[r], run[r], main, rel)
  BY Facts DEF Build, At
<1>1. CASE Goto(r, "sign")
  <2>1. PICK u \in Runs : /\ run' = [run EXCEPT ![r] = u]
                          /\ u.pc = "sign" /\ u.kind = run[r].kind /\ (u.clean => run[r].clean)
    BY <1>1, GotoFacts DEF Stages
  <2>2. Forward(tree[r], "sign", main)
    BY <1>0 DEF Forward, Early, Ended
  <2>3. Unspoilt(tree[r], u, main, rel)
    BY <1>0, <2>1 DEF Unspoilt
  <2> QED
    BY <1>0, <2>1, <2>2, <2>3, Facts, LocalStep DEF Active
<1>2. CASE Fault(r, "failed")
  BY <1>0, <1>2, StopStep
<1> QED
  BY <1>1, <1>2 DEF Build

LEMMA SignStep ==
  ASSUME Inv, NEW r \in Runners, Sign(r)
  PROVE  Inv'
<1>0. /\ run[r].pc = "sign" /\ UNCHANGED <<main, tags, rel, preserved>>
      /\ Forward(tree[r], "sign", main) /\ Unspoilt(tree[r], run[r], main, rel)
      /\ tree[r] \in Trees /\ tree \in [Runners -> Trees]
  BY Facts DEF Sign, At
<1>1. Manifested(tree[r]) = tree[r]
  <2>1. /\ Coherent(tree[r].anchors) /\ tree[r].anchors \in AnchorsOf
        /\ "checksums.json" \in AnchorSet /\ "manifest.json" \in AnchorSet
    BY <1>0, AnchorFacts DEF Forward, Early, Ended, Trees
  <2>2. tree[r].anchors["manifest.json"] = tree[r].anchors["checksums.json"]
    BY <2>1 DEF Coherent
  <2>3. [tree[r].anchors EXCEPT !["manifest.json"] = tree[r].anchors["checksums.json"]]
           = tree[r].anchors
    BY <2>1, <2>2 DEF AnchorsOf
  <2> QED
    BY <1>0, <2>3 DEF Manifested, Trees
<1>2. ASSUME NEW key \in {"release", "other"},
             tree' = [tree EXCEPT ![r] = [tree[r] EXCEPT !.key = key]],
             IF key = "release" THEN Goto(r, "check") ELSE Fault(r, "check")
      PROVE  Inv'
  <2> DEFINE t == [tree[r] EXCEPT !.key = key]
  <2>1. PICK u \in Runs : /\ run' = [run EXCEPT ![r] = u]
                          /\ u.pc = "check" /\ u.kind = run[r].kind
                          /\ (u.clean => run[r].clean) /\ (u.clean => key = "release")
    BY <1>2, GotoFacts DEF Stages
  <2>2. /\ t \in Trees /\ t.base = tree[r].base /\ t.ahead = tree[r].ahead
        /\ t.anchors = tree[r].anchors /\ t.tags = tree[r].tags /\ t.key = key
        /\ tree' = [tree EXCEPT ![r] = t]
    BY <1>0, <1>2 DEF Trees
  <2> HIDE DEF t
  <2>3. Forward(t, "check", main)
    BY <1>0, <2>2 DEF Forward, Early, Ended, TreeVersion
  <2>4. Unspoilt(t, u, main, rel)
    BY <1>0, <2>1, <2>2 DEF Unspoilt, TreeVersion
  <2> QED
    BY <1>0, <2>1, <2>2, <2>3, <2>4, LocalStep DEF Active
<1>3. CASE Fault(r, "failed") /\ UNCHANGED tree
  BY <1>0, <1>3, StopStep
<1>4. [tree EXCEPT ![r] = Manifested(tree[r])] = tree
  BY <1>0, <1>1
<1> QED
  BY <1>0, <1>1, <1>2, <1>3, <1>4 DEF Sign

LEMMA CheckStep ==
  ASSUME Inv, NEW r \in Runners, Check(r)
  PROVE  Inv'
<1>0. /\ run[r].pc = "check" /\ UNCHANGED <<main, tags, rel, tree, preserved>>
      /\ Forward(tree[r], "check", main) /\ Unspoilt(tree[r], run[r], main, rel)
  BY Facts DEF Check, At
<1>1. CASE Goto(r, "commit")
  <2>1. PICK u \in Runs : /\ run' = [run EXCEPT ![r] = u]
                          /\ u.pc = "commit" /\ u.kind = run[r].kind /\ (u.clean => run[r].clean)
    BY <1>1, GotoFacts DEF Stages
  <2>2. Forward(tree[r], "commit", main)
    BY <1>0 DEF Forward, Early, Ended
  <2>3. Unspoilt(tree[r], u, main, rel)
    BY <1>0, <2>1 DEF Unspoilt
  <2> QED
    BY <1>0, <2>1, <2>2, <2>3, Facts, LocalStep DEF Active
<1>2. CASE Fault(r, "failed")
  BY <1>0, <1>2, StopStep
<1>3. Coherent(tree[r].anchors)
  BY <1>0 DEF Forward, Early, Ended
<1> QED
  BY <1>1, <1>2, <1>3 DEF Check

LEMMA CommitStep ==
  ASSUME Inv, NEW r \in Runners, CommitVersion(r)
  PROVE  Inv'
<1>0. /\ run[r].pc = "commit" /\ UNCHANGED <<main, tags, rel, preserved>>
      /\ Forward(tree[r], "commit", main) /\ Unspoilt(tree[r], run[r], main, rel)
      /\ tree[r] \in Trees /\ tree \in [Runners -> Trees]
      /\ tree[r].ahead \in Seq(MainCommit) /\ TreeVersion(tree[r]) \in Versions
  BY Facts, VersionFacts DEF CommitVersion, At, Trees
<1>1. CASE /\ tree' = [tree EXCEPT ![r].ahead = Append(@, Commit(tree[r].anchors))]
           /\ Goto(r, "tag")
  <2> DEFINE c == Commit(tree[r].anchors)
             s == Append(tree[r].ahead, c)
             t == [tree[r] EXCEPT !.ahead = s]
             n == Len(tree[r].ahead)
  <2>1. PICK u \in Runs : /\ run' = [run EXCEPT ![r] = u]
                          /\ u.pc = "tag" /\ u.kind = run[r].kind /\ (u.clean => run[r].clean)
    BY <1>1, GotoFacts DEF Stages
  <2>2. c \in MainCommit /\ Sound(c) /\ c.v = TreeVersion(tree[r])
    <3>1. tree[r].anchors \in AnchorsOf /\ Coherent(tree[r].anchors)
      BY <1>0 DEF Trees, Forward, Early, Ended
    <3> QED
      BY <1>0, <3>1 DEF Commit, MainCommit, Sound, TreeVersion
  <2> HIDE DEF c
  <2>3. /\ s \in Seq(MainCommit) /\ Len(s) = n + 1 /\ n \in Nat
        /\ \A i \in 1..n : s[i] = tree[r].ahead[i]
        /\ s[n + 1] = c
    BY <1>0, <2>2
  <2>4. /\ t \in Trees /\ t.base = tree[r].base /\ t.ahead = s
        /\ t.anchors = tree[r].anchors /\ t.tags = tree[r].tags /\ t.key = tree[r].key
        /\ tree' = [tree EXCEPT ![r] = t] /\ TreeVersion(t) = TreeVersion(tree[r])
    BY <1>0, <1>1, <2>3 DEF Trees, TreeVersion, c
  <2> HIDE DEF t, s
  <2>5. tree[r].base # 0
    BY <1>0 DEF Forward, Early, Ended
  <2>6. ASSUME NEW i \in 1..Len(s)
        PROVE  /\ Sound(s[i]) /\ Upto(main[t.base].v, s[i].v) /\ Upto(s[i].v, TreeVersion(t))
    <3>1. CASE i \in 1..n
      BY <1>0, <2>3, <2>4, <2>5, <3>1 DEF Forward
    <3>2. CASE i = n + 1
      BY <1>0, <2>2, <2>3, <2>4, <2>5, <3>2 DEF Forward, Upto
    <3> QED
      BY <2>3, <3>1, <3>2
  <2>7. ASSUME NEW i \in 1..Len(s), NEW j \in 1..Len(s), i < j
        PROVE  Upto(s[i].v, s[j].v)
    <3>1. i \in 1..n
      BY <2>3, <2>7
    <3>2. CASE j \in 1..n
      BY <1>0, <2>3, <2>7, <3>1, <3>2 DEF Forward
    <3>3. CASE j = n + 1
      BY <1>0, <2>2, <2>3, <3>1, <3>3 DEF Forward
    <3> QED
      BY <2>3, <3>2, <3>3
  <2>8. Forward(t, "tag", main)
    BY <1>0, <2>2, <2>3, <2>4, <2>5, <2>6, <2>7 DEF Forward, Early, Ended
  <2>9. Unspoilt(t, u, main, rel)
    BY <1>0, <2>1, <2>4 DEF Unspoilt
  <2> QED
    BY <1>0, <2>1, <2>4, <2>8, <2>9, LocalStep DEF Active
<1>2. CASE Fault(r, "failed") /\ UNCHANGED tree
  BY <1>0, <1>2, StopStep
<1> QED
  BY <1>1, <1>2 DEF CommitVersion

LEMMA TagStep ==
  ASSUME Inv, NEW r \in Runners, TagVersion(r)
  PROVE  Inv'
<1>0. /\ run[r].pc = "tag" /\ UNCHANGED <<main, tags, rel, preserved>>
      /\ Forward(tree[r], "tag", main) /\ Unspoilt(tree[r], run[r], main, rel)
      /\ tree[r] \in Trees /\ tree \in [Runners -> Trees] /\ Version(r) \in Versions
  BY Facts DEF TagVersion, At
<1>1. CASE tree' = [tree EXCEPT ![r].tags = @ \cup {Version(r)}] /\ Goto(r, "push")
  <2> DEFINE t == [tree[r] EXCEPT !.tags = @ \cup {Version(r)}]
  <2>1. PICK u \in Runs : /\ run' = [run EXCEPT ![r] = u]
                          /\ u.pc = "push" /\ u.kind = run[r].kind /\ (u.clean => run[r].clean)
    BY <1>1, GotoFacts DEF Stages
  <2>2. /\ t \in Trees /\ t.base = tree[r].base /\ t.ahead = tree[r].ahead
        /\ t.anchors = tree[r].anchors /\ t.key = tree[r].key
        /\ tree' = [tree EXCEPT ![r] = t]
    BY <1>0, <1>1 DEF Trees
  <2> HIDE DEF t
  <2>3. Forward(t, "push", main)
    BY <1>0, <2>2 DEF Forward, Early, Ended, TreeVersion
  <2>4. Unspoilt(t, u, main, rel)
    BY <1>0, <2>1, <2>2 DEF Unspoilt, TreeVersion
  <2> QED
    BY <1>0, <2>1, <2>2, <2>3, <2>4, LocalStep DEF Active
<1>2. CASE Version(r) \in tree[r].tags /\ Refused(r) /\ UNCHANGED tree
  <2>1. ~run[r].clean
    BY <1>0, <1>2 DEF Unspoilt
  <2> QED
    BY <1>0, <1>2, <2>1, StopStep
<1>3. CASE Fault(r, "failed") /\ UNCHANGED tree
  BY <1>0, <1>3, StopStep
<1> QED
  BY <1>1, <1>2, <1>3 DEF TagVersion

LEMMA KillStep ==
  ASSUME Inv, NEW r \in Runners, Kill(r)
  PROVE  Inv'
BY StopStep DEF Kill

-----------------------------------------------------------------------------
(* main grows: whoever had pulled is still behind it or at its tip. *)
Grows == /\ Len(main) \in Nat /\ Len(main') \in Nat /\ Len(main) <= Len(main')
         /\ \A i \in 1..Len(main) : main'[i] = main[i]

LEMMA ForwardLasts ==
  ASSUME Grows, NEW t, NEW pc, Forward(t, pc, main), t.base \in Nat
  PROVE  Forward(t, pc, main')
<1>1. t.base # 0 => main'[t.base] = main[t.base]
  BY DEF Forward, Grows
<1> QED
  BY <1>1 DEF Forward, Grows

LEMMA RegistryLasts ==
  ASSUME Grows, Registry(main, tags, rel, preserved)
  PROVE  Registry(main', tags, rel, preserved)
BY DEF Registry, Grows

LEMMA MergeStep ==
  ASSUME Inv, MergePullRequest
  PROVE  Inv'
<1>0. /\ MainInv(main) /\ Registry(main, tags, rel, preserved)
      /\ run \in [Runners -> Runs] /\ tree \in [Runners -> Trees] /\ Alone
  BY DEF Inv
<1> DEFINE n == Len(main)
           tip == main[Len(main)]
<1>1. /\ n \in Nat \ {0} /\ main \in Seq(MainCommit) /\ tip \in MainCommit
      /\ Sound(tip) /\ main' = Append(main, tip)
  BY <1>0 DEF MainInv, MergePullRequest, Tip
<1>2. /\ main' \in Seq(MainCommit) /\ Len(main') = n + 1 /\ main'[n + 1] = tip
      /\ \A i \in 1..n : main'[i] = main[i]
  BY <1>1
<1>2a. Grows
  BY <1>1, <1>2 DEF Grows
<1>3. MainInv(main')
  <2>1. ASSUME NEW i \in 1..n + 1 PROVE Sound(main'[i])
    BY <1>0, <1>1, <1>2 DEF MainInv
  <2>2. ASSUME NEW i \in 1..n + 1, NEW j \in 1..n + 1, i < j
        PROVE  Upto(main'[i].v, main'[j].v)
    <3>1. CASE j \in 1..n
      BY <1>0, <1>1, <1>2, <2>2, <3>1 DEF MainInv
    <3>2. CASE j = n + 1
      BY <1>0, <1>1, <1>2, <2>2, <3>2 DEF MainInv, Upto
    <3> QED
      BY <3>1, <3>2
  <2> QED
    BY <1>1, <1>2, <2>1, <2>2 DEF MainInv
<1>4. Registry(main', tags', rel', preserved')
  <2>1. UNCHANGED <<tags, rel, preserved>>
    BY DEF MergePullRequest
  <2> QED
    BY <1>0, <1>2a, <2>1, RegistryLasts
<1>5. ASSUME NEW r \in Runners
      PROVE  /\ run'[r] \in Runs /\ run'[r].pc = run[r].pc /\ tree'[r] = tree[r]
             /\ Forward(tree'[r], run'[r].pc, main')
             /\ Placed(TreeVersion(tree'[r]), run'[r].pc, tags', rel', preserved')
             /\ Unspoilt(tree'[r], run'[r], main', rel')
  <2>1. run'[r] = [run[r] EXCEPT !.clean = FALSE] /\ UNCHANGED <<tags, rel, tree, preserved>>
    BY DEF MergePullRequest
  <2>2. run'[r] \in Runs /\ run'[r].pc = run[r].pc /\ ~run'[r].clean
    BY <1>0, <2>1 DEF Runs
  <2>3. Forward(tree[r], run[r].pc, main')
    <3>1. tree[r].base \in Nat
      BY Facts DEF Trees
    <3> QED
      BY <1>2a, <3>1, Facts, ForwardLasts
  <2>4. Unspoilt(tree'[r], run'[r], main', rel')
    BY <2>2 DEF Unspoilt
  <2> QED
    BY <2>1, <2>2, <2>3, <2>4, Facts
<1>6. run' \in [Runners -> Runs] /\ tree' \in [Runners -> Trees]
  BY <1>0, <1>5 DEF MergePullRequest
<1>7. Alone'
  BY <1>0, <1>5 DEF Alone
<1> QED
  BY <1>3, <1>4, <1>5, <1>6, <1>7 DEF Inv

LEMMA ConcatFacts ==
  ASSUME NEW s \in Seq(MainCommit), NEW t \in Seq(MainCommit)
  PROVE  /\ s \o t \in Seq(MainCommit) /\ Len(s \o t) = Len(s) + Len(t)
         /\ \A i \in 1..Len(s) : (s \o t)[i] = s[i]
         /\ \A i \in Len(s) + 1..Len(s) + Len(t) : (s \o t)[i] = t[i - Len(s)]
OBVIOUS

LEMMA LandStep ==
  ASSUME Inv, NEW r \in Runners, NEW pc \in Stages, NEW clean \in BOOLEAN,
         run[r].pc = "push", FastForward(r), TagFree(r), Land(r, pc, clean),
         UNCHANGED <<rel, preserved>>,
         \/ pc = "create"
         \/ pc = "failed" /\ ~clean
  PROVE  Inv'
<1> DEFINE v == Version(r)
           n == Len(main)
           ahead == tree[r].ahead
           k == Len(ahead)
           t == [tree[r] EXCEPT !.ahead = <<>>, !.base = Len(main')]
           u == [run[r] EXCEPT !.pc = pc, !.clean = @ /\ clean]
<1>0. /\ MainInv(main) /\ Registry(main, tags, rel, preserved) /\ Alone
      /\ Forward(tree[r], "push", main) /\ Unspoilt(tree[r], run[r], main, rel)
      /\ tree[r] \in Trees /\ run[r] \in Runs
      /\ tree \in [Runners -> Trees] /\ run \in [Runners -> Runs]
      /\ v = TreeVersion(tree[r]) /\ v \in Versions /\ v \notin DOMAIN tags
  BY Facts DEF Inv, TagFree
<1>1. /\ n \in Nat \ {0} /\ main \in Seq(MainCommit) /\ ahead \in Seq(MainCommit)
      /\ tree[r].base = n /\ k \in Nat \ {0} /\ ahead[k].v = v
  BY <1>0 DEF MainInv, Trees, FastForward, Forward
<1>2. /\ main' = main \o ahead /\ main' \in Seq(MainCommit) /\ Len(main') = n + k
      /\ \A i \in 1..n : main'[i] = main[i]
      /\ \A i \in n + 1..n + k : main'[i] = ahead[i - n]
  <2>1. main' = main \o ahead
    BY DEF Land
  <2> QED
    BY <1>1, <2>1, ConcatFacts
<1>3. Grows
  BY <1>1, <1>2 DEF Grows
<1>4. MainInv(main')
  <2>1. ASSUME NEW i \in 1..n + k PROVE Sound(main'[i])
    <3>1. CASE i \in 1..n
      BY <1>0, <1>2, <3>1 DEF MainInv
    <3>2. CASE i \in n + 1..n + k
      <4>1. i - n \in 1..k
        BY <1>1, <3>2
      <4> QED
        BY <1>0, <1>2, <3>2, <4>1 DEF Forward
    <3> QED
      BY <1>1, <3>1, <3>2
  <2>2. ASSUME NEW i \in 1..n, NEW j \in n + 1..n + k
        PROVE  Upto(main[i].v, ahead[j - n].v)
    <3>1. j - n \in 1..k
      BY <1>1
    <3>2. Upto(main[n].v, ahead[j - n].v)
      BY <1>0, <1>1, <3>1 DEF Forward
    <3>3. Upto(main[i].v, main[n].v)
      BY <1>0, <1>1 DEF MainInv, Upto
    <3>4. main[i].v \in Versions /\ main[n].v \in Versions /\ ahead[j - n].v \in Versions
      BY <1>1, <3>1, CommitFacts
    <3> QED
      BY <3>2, <3>3, <3>4, UptoTransitive
  <2>3. ASSUME NEW i \in 1..n + k, NEW j \in 1..n + k, i < j
        PROVE  Upto(main'[i].v, main'[j].v)
    <3>1. CASE j \in 1..n
      BY <1>0, <1>1, <1>2, <2>3, <3>1 DEF MainInv
    <3>2. CASE i \in 1..n /\ j \in n + 1..n + k
      BY <1>2, <2>2, <3>2
    <3>3. CASE i \in n + 1..n + k /\ j \in n + 1..n + k
      <4>1. i - n \in 1..k /\ j - n \in 1..k /\ i - n < j - n
        BY <1>1, <2>3, <3>3
      <4> QED
        BY <1>0, <1>2, <3>3, <4>1 DEF Forward
    <3> QED
      BY <1>1, <2>3, <3>1, <3>2, <3>3
  <2> QED
    BY <1>1, <1>2, <2>1, <2>3 DEF MainInv
<1>5. DOMAIN tags' = DOMAIN tags \cup {v} /\ tags'[v] = n + k
      /\ \A w \in DOMAIN tags : w # v => tags'[w] = tags[w]
  BY <1>2 DEF Land, With
<1>6. main'[n + k].v = v
  BY <1>1, <1>2
<1>7. Registry(main', tags', rel', preserved')
  <2>1. Registry(main', tags, rel, preserved)
    BY <1>0, <1>3, RegistryLasts
  <2>2. n + k \in 1..Len(main')
    BY <1>1, <1>2
  <2> QED
    BY <1>0, <1>5, <1>6, <2>1, <2>2 DEF Registry
<1>8. /\ t \in Trees /\ t.ahead = <<>> /\ t.base = n + k /\ t.anchors = tree[r].anchors
      /\ t.key = tree[r].key /\ TreeVersion(t) = v
      /\ tree' = [tree EXCEPT ![r] = t] /\ tree'[r] = t
  <2>1. Len(main') \in Nat /\ Len(main') = n + k /\ <<>> \in Seq(MainCommit)
    BY <1>1, <1>2
  <2>2. /\ t \in Trees /\ t.ahead = <<>> /\ t.base = n + k
        /\ t.anchors = tree[r].anchors /\ t.key = tree[r].key
    BY <1>0, <2>1 DEF Trees
  <2>3. tree' = [tree EXCEPT ![r] = t]
    BY <1>0 DEF Land
  <2> HIDE DEF t
  <2> QED
    BY <1>0, <2>2, <2>3 DEF TreeVersion
<1>9. /\ u \in Runs /\ u.pc = pc /\ (u.clean => run[r].clean /\ clean) /\ run'[r] = u
  BY <1>0 DEF Runs, Land
<1> HIDE DEF t, u, v
<1>10. /\ Forward(t, pc, main') /\ Placed(v, pc, tags', rel', preserved')
       /\ Unspoilt(t, u, main', rel')
  <2>1. Forward(t, pc, main')
    <3>1. Coherent(t.anchors)
      BY <1>0, <1>8 DEF Forward, Early, Ended
    <3> QED
      BY <1>1, <1>2, <1>6, <1>8, <3>1 DEF Forward, Upto, Early, Ended
  <2>2. Placed(v, pc, tags', rel', preserved')
    BY <1>0, <1>5 DEF Placed, Active, Registry
  <2>3. Unspoilt(t, u, main', rel')
    BY <1>0, <1>8, <1>9 DEF Unspoilt
  <2> QED
    BY <2>1, <2>2, <2>3
<1>11. ASSUME NEW q \in Runners, q # r
       PROVE  /\ tree'[q] = tree[q] /\ run'[q].pc = run[q].pc /\ run'[q] \in Runs
              /\ Forward(tree'[q], run'[q].pc, main')
              /\ Placed(TreeVersion(tree'[q]), run'[q].pc, tags', rel', preserved')
              /\ Unspoilt(tree'[q], run'[q], main', rel')
  <2>1. tree'[q] = tree[q] /\ run'[q] = [run[q] EXCEPT !.clean = FALSE]
    BY <1>0, <1>8, <1>11 DEF Land
  <2>2. run'[q] \in Runs /\ run'[q].pc = run[q].pc /\ ~run'[q].clean
    BY <1>0, <2>1 DEF Runs
  <2>3. Forward(tree[q], run[q].pc, main')
    <3>1. tree[q].base \in Nat
      BY Facts DEF Trees
    <3> QED
      BY <1>3, <3>1, Facts, ForwardLasts
  <2>4. Placed(TreeVersion(tree[q]), run[q].pc, tags', rel', preserved')
    BY <1>5, Facts DEF Placed
  <2>5. Unspoilt(tree'[q], run'[q], main', rel')
    BY <2>2 DEF Unspoilt
  <2> QED
    BY <2>1, <2>2, <2>3, <2>4, <2>5
<1>12. tree' \in [Runners -> Trees] /\ run' \in [Runners -> Runs]
  <2>1. \A q \in Runners : run'[q] \in Runs
    BY <1>9, <1>11
  <2> QED
    BY <1>0, <1>8, <2>1 DEF Land
<1>13. Alone'
  <2>1. ASSUME NEW q \in Runners, q # r, run[q].pc \in Active
        PROVE  TreeVersion(tree[q]) # v
    BY <1>0, <2>1, Facts DEF Placed
  <2> QED
    BY <1>0, <1>8, <1>11, <2>1 DEF Alone
<1>14. ASSUME NEW q \in Runners
       PROVE  /\ Forward(tree'[q], run'[q].pc, main')
              /\ Placed(TreeVersion(tree'[q]), run'[q].pc, tags', rel', preserved')
              /\ Unspoilt(tree'[q], run'[q], main', rel')
  <2>1. CASE q = r
    BY <1>8, <1>9, <1>10, <2>1
  <2>2. CASE q # r
    BY <1>11, <2>2
  <2> QED
    BY <2>1, <2>2
<1> QED
  BY <1>4, <1>7, <1>12, <1>13, <1>14 DEF Inv

LEMMA PushStep ==
  ASSUME Inv, NEW r \in Runners, Push(r)
  PROVE  Inv'
<1>0. /\ run[r].pc = "push" /\ UNCHANGED <<rel, preserved>>
      /\ Unspoilt(tree[r], run[r], main, rel) /\ MainInv(main)
      /\ Registry(main, tags, rel, preserved)
      /\ Version(r) = TreeVersion(tree[r]) /\ Version(r) \in Versions
  BY Facts DEF Push, At
<1>1. CASE FastForward(r) /\ TagFree(r) /\ (Land(r, "create", TRUE) \/ Land(r, "failed", FALSE))
  BY <1>0, <1>1, LandStep DEF Stages, Ended
<1>2. CASE (~FastForward(r) \/ ~TagFree(r)) /\ Refused(r) /\ UNCHANGED <<main, tags, tree>>
  <2>1. ASSUME run[r].clean, run[r].kind = "prerelease" PROVE FALSE
    <3>1. tree[r].base = Len(main) /\ \A i \in 1..Len(main) : Precedes(main[i].v, Version(r))
      BY <1>0, <2>1 DEF Unspoilt
    <3>2. Version(r) \in DOMAIN tags
      BY <1>2, <3>1 DEF FastForward, TagFree
    <3>3. tags[Version(r)] \in 1..Len(main) /\ main[tags[Version(r)]].v = Version(r)
      BY <1>0, <3>2 DEF Registry
    <3>4. Precedes(Version(r), Version(r))
      BY <3>1, <3>3
    <3> QED
      BY <1>0, <3>4, PrecedesFacts
  <2> QED
    BY <1>0, <1>2, <2>1, StopStep
<1>3. CASE Fault(r, "failed") /\ UNCHANGED <<main, tags, tree>>
  BY <1>0, <1>3, StopStep
<1> QED
  BY <1>1, <1>2, <1>3 DEF Push

-----------------------------------------------------------------------------
LEMMA CreateStep ==
  ASSUME Inv, NEW r \in Runners, CreateRelease(r)
  PROVE  Inv'
<1> DEFINE v == Version(r)
<1>0. /\ run[r].pc = "create" /\ UNCHANGED <<main, tags, tree, preserved>>
      /\ Registry(main, tags, rel, preserved) /\ v = TreeVersion(tree[r])
      /\ Placed(v, "create", tags, rel, preserved)
      /\ Unspoilt(tree[r], run[r], main, rel)
  BY Facts DEF CreateRelease, At
<1>1. Draft \in Releases /\ ~Draft.public
  BY DEF Draft, Releases, Contents
<1> HIDE DEF v
<1>2. ASSUME NEW pc \in {"upload", "failed"}, rel' = With(rel, v, Draft),
             \/ pc = "upload" /\ Goto(r, pc)
             \/ pc = "failed" /\ Fault(r, pc)
      PROVE  Inv'
  <2>1. PICK u \in Runs : /\ run' = [run EXCEPT ![r] = u]
                          /\ u.pc = pc /\ u.kind = run[r].kind /\ (u.clean => run[r].clean)
                          /\ (u.clean => pc = "upload")
    BY <1>2, GotoFacts DEF Stages, Ended
  <2>2. /\ DOMAIN rel' = DOMAIN rel \cup {v} /\ rel'[v] = Draft
        /\ \A w \in DOMAIN rel : w # v => rel'[w] = rel[w]
    BY <1>2 DEF With
  <2>3. Registry(main, tags', rel', preserved')
    BY <1>0, <1>1, <2>2 DEF Registry, Placed, Active
  <2>4. Placed(v, u.pc, tags', rel', preserved')
    BY <1>0, <1>1, <2>1, <2>2 DEF Placed, Active
  <2>5. Unspoilt(tree[r], u, main, rel')
    BY <1>0, <1>2, <2>1 DEF Unspoilt
  <2> QED
    BY <1>0, <1>2, <2>1, <2>2, <2>3, <2>4, <2>5, ServiceStep DEF Active, v
<1>3. CASE Fault(r, "failed") /\ UNCHANGED rel
  BY <1>0, <1>3, StopStep
<1> QED
  BY <1>2, <1>3 DEF CreateRelease, v

LEMMA UploadStep ==
  ASSUME Inv, NEW r \in Runners, UploadAssets(r)
  PROVE  Inv'
<1> DEFINE v == Version(r)
<1>0. /\ run[r].pc = "upload" /\ UNCHANGED <<main, tags, tree, preserved>>
      /\ Registry(main, tags, rel, preserved) /\ v = TreeVersion(tree[r])
      /\ Placed(v, "upload", tags, rel, preserved)
      /\ Unspoilt(tree[r], run[r], main, rel)
  BY Facts DEF UploadAssets, At
<1>1. PICK n \in 0..Len(Assets), damaged \in Range(Assets) \cup {"none"} :
         /\ rel' = [rel EXCEPT ![v].assets =
                       [a \in Range(Assets) |->
                           IF \A i \in 1..n : Assets[i] # a THEN "absent"
                           ELSE IF a = damaged THEN "bad" ELSE Staged(r, a)]]
         /\ \/ n = Len(Assets) /\ damaged = "none" /\ Goto(r, "verify")
            \/ n = Len(Assets) /\ damaged # "none" /\ Fault(r, "verify")
            \/ /\ n < Len(Assets) /\ damaged = "none"
               /\ Fault(r, "cleanup") \/ Fault(r, "failed")
  BY DEF UploadAssets
<1> DEFINE up == [a \in Range(Assets) |->
                    IF \A i \in 1..n : Assets[i] # a THEN "absent"
                    ELSE IF a = damaged THEN "bad" ELSE Staged(r, a)]
           x == [rel[v] EXCEPT !.assets = up]
<1>2. v \in DOMAIN rel /\ ~rel[v].public /\ rel[v] \in Releases /\ v \notin preserved
  BY <1>0 DEF Placed, Registry, Active
<1>3. up \in [Range(Assets) -> Contents]
  BY DEF Staged, Contents
<1>4. x \in Releases /\ ~x.public /\ x.assets = up
  BY <1>2, <1>3 DEF Releases
<1>5. /\ DOMAIN rel' = DOMAIN rel /\ rel'[v] = x
      /\ \A w \in DOMAIN rel : w # v => rel'[w] = rel[w]
  BY <1>1, <1>2
<1>6. ASSUME n = Len(Assets), damaged = "none", tree[r].key = "release" PROVE Verified(x)
  <2>1. ASSUME NEW a \in Range(Assets) PROVE up[a] = "good"
    <3>1. a # "none"
      BY AssetFacts
    <3>2. \E i \in 1..n : Assets[i] = a
      <4>1. DOMAIN Assets = 1..Len(Assets)
        BY DEF Assets
      <4> QED
        BY <1>6, <4>1 DEF Range
    <3> QED
      BY <1>6, <3>1, <3>2 DEF Staged
  <2>2. VerifiedAssets \subseteq Range(Assets)
    BY AssetFacts DEF VerifiedAssets
  <2> QED
    BY <1>4, <2>1, <2>2 DEF Verified
<1> HIDE DEF v, up, x
<1>7. PICK u \in Runs : /\ run' = [run EXCEPT ![r] = u]
                        /\ u.pc \in {"verify", "cleanup", "failed"} /\ u.kind = run[r].kind
                        /\ (u.clean => /\ run[r].clean /\ n = Len(Assets) /\ damaged = "none"
                                       /\ u.pc = "verify")
  <2>1. CASE n = Len(Assets) /\ damaged = "none" /\ Goto(r, "verify")
    BY <2>1, GotoFacts DEF Stages
  <2>2. ASSUME NEW pc \in {"verify", "cleanup", "failed"}, Fault(r, pc)
        PROVE  \E u \in Runs : /\ run' = [run EXCEPT ![r] = u]
                               /\ u.pc = pc /\ u.kind = run[r].kind /\ ~u.clean
    BY <2>2, GotoFacts DEF Stages, Ended
  <2> QED
    BY <1>1, <2>1, <2>2
<1>8. Registry(main, tags', rel', preserved')
  BY <1>0, <1>2, <1>4, <1>5 DEF Registry
<1>9. Placed(v, u.pc, tags', rel', preserved')
  BY <1>0, <1>2, <1>4, <1>5, <1>7 DEF Placed, Active
<1>10. Unspoilt(tree[r], u, main, rel')
  <2>1. u.clean => tree[r].key = "release"
    BY <1>0, <1>7 DEF Unspoilt
  <2> QED
    BY <1>0, <1>5, <1>6, <1>7, <2>1 DEF Unspoilt
<1> QED
  BY <1>0, <1>5, <1>7, <1>8, <1>9, <1>10, ServiceStep DEF Active, v

LEMMA VerifyStep ==
  ASSUME Inv, NEW r \in Runners, Verify(r)
  PROVE  Inv'
<1> DEFINE v == Version(r)
<1>0. /\ run[r].pc = "verify" /\ UNCHANGED <<main, tags, rel, tree>>
      /\ Registry(main, tags, rel, preserved) /\ v = TreeVersion(tree[r])
      /\ Placed(v, "verify", tags, rel, preserved) /\ v \in DOMAIN rel
      /\ Unspoilt(tree[r], run[r], main, rel)
  BY Facts DEF Verify, At, Placed
<1> HIDE DEF v
<1>1. ASSUME NEW pc \in {"undraft", "cleanup", "failed"}, NEW u \in Runs,
             run' = [run EXCEPT ![r] = u], u.pc = pc,
             \/ preserved' = preserved
             \/ pc = "failed" /\ preserved' = preserved \cup {v},
             pc = "undraft" => Verified(rel[v]), u.clean => pc = "undraft"
      PROVE  Inv'
  <2>1. Registry(main, tags', rel', preserved')
    BY <1>0, <1>1 DEF Registry
  <2>2. Placed(v, u.pc, tags', rel', preserved')
    BY <1>0, <1>1 DEF Placed, Active
  <2>3. Unspoilt(tree[r], u, main, rel')
    BY <1>1 DEF Unspoilt
  <2> QED
    BY <1>0, <1>1, <2>1, <2>2, <2>3, ServiceStep DEF Active, v
<1>2. CASE Verified(rel[v]) /\ Goto(r, "undraft") /\ UNCHANGED preserved
  <2>1. PICK u \in Runs : run' = [run EXCEPT ![r] = u] /\ u.pc = "undraft"
    BY <1>2, GotoFacts DEF Stages
  <2>2. Verified(rel[v]) /\ preserved' = preserved
    BY <1>2
  <2> HIDE DEF Verified
  <2> QED
    BY ONLY <1>1, <2>1, <2>2, u \in Runs
<1>3. CASE ~Verified(rel[v]) /\ Refused(r) /\ preserved' = preserved \cup {v}
  <2>1. PICK u \in Runs : /\ run' = [run EXCEPT ![r] = u] /\ u.pc = "failed"
                          /\ (u.clean => run[r].clean)
    BY <1>3, GotoFacts DEF Refused, Stages, Ended
  <2>2. ~u.clean
    BY <1>0, <1>3, <2>1 DEF Unspoilt
  <2> QED
    BY <1>1, <1>3, <2>1, <2>2
<1>4. ASSUME NEW pc \in {"cleanup", "failed"}, Fault(r, pc),
             \/ preserved' = preserved
             \/ pc = "failed" /\ preserved' = preserved \cup {v}
      PROVE  Inv'
  <2>1. PICK u \in Runs : run' = [run EXCEPT ![r] = u] /\ u.pc = pc /\ ~u.clean
    BY <1>4, GotoFacts DEF Stages, Ended
  <2> QED
    BY <1>1, <1>4, <2>1
<1>5. \/ /\ Verified(rel[v])
         /\ Goto(r, "undraft")
         /\ UNCHANGED preserved
      \/ /\ ~Verified(rel[v])
         /\ Refused(r)
         /\ preserved' = preserved \cup {v}
      \/ Fault(r, "failed") /\ preserved' = preserved \cup {v}
      \/ Fault(r, "cleanup") /\ preserved' = preserved
  BY DEF Verify, v
<1>6. Fault(r, "failed") /\ preserved' = preserved \cup {v} => Inv'
  BY <1>4
<1>7. Fault(r, "cleanup") /\ preserved' = preserved => Inv'
  BY <1>4
<1> QED
  BY <1>2, <1>3, <1>5, <1>6, <1>7

LEMMA UndraftStep ==
  ASSUME Inv, NEW r \in Runners, Undraft(r)
  PROVE  Inv'
<1> DEFINE v == Version(r)
           x == [rel[v] EXCEPT !.public = TRUE]
<1>0. /\ run[r].pc = "undraft" /\ UNCHANGED <<main, tags, tree, preserved>>
      /\ Registry(main, tags, rel, preserved) /\ v = TreeVersion(tree[r])
      /\ Placed(v, "undraft", tags, rel, preserved) /\ v \in DOMAIN rel
      /\ Verified(rel[v]) /\ rel[v] \in Releases
  BY Facts DEF Undraft, At, Placed, Registry
<1>1. x \in Releases /\ Verified(x)
  BY <1>0 DEF Releases, Verified
<1>2. rel' \in {rel, [rel EXCEPT ![v].public = TRUE]}
      /\ (Goto(r, "published") \/ Fault(r, "cleanup"))
  BY DEF Undraft
<1>3. /\ DOMAIN rel' = DOMAIN rel /\ rel'[v] \in {rel[v], x}
      /\ \A w \in DOMAIN rel : w # v => rel'[w] = rel[w]
  BY <1>0, <1>2
<1> HIDE DEF v, x
<1>4. PICK u \in Runs : /\ run' = [run EXCEPT ![r] = u]
                        /\ u.pc \in {"published", "cleanup"}
                        /\ (u.clean => u.pc = "published")
  BY <1>2, GotoFacts DEF Stages, Ended
<1>5. Registry(main, tags', rel', preserved')
  BY <1>0, <1>1, <1>3 DEF Registry
<1>6. Placed(v, u.pc, tags', rel', preserved')
  BY <1>0, <1>4 DEF Placed, Active
<1>7. Unspoilt(tree[r], u, main, rel')
  BY <1>4 DEF Unspoilt
<1> QED
  BY <1>0, <1>3, <1>4, <1>5, <1>6, <1>7, ServiceStep DEF Active, v

LEMMA CleanupStep ==
  ASSUME Inv, NEW r \in Runners, Cleanup(r)
  PROVE  Inv'
<1> DEFINE v == Version(r)
<1>0. /\ run[r].pc = "cleanup" /\ UNCHANGED <<main, tree, preserved>>
      /\ Registry(main, tags, rel, preserved) /\ v = TreeVersion(tree[r])
      /\ v \notin preserved /\ ~run[r].clean
  BY Facts DEF Cleanup, At, Placed, Active, Unspoilt
<1> HIDE DEF v
<1>1. /\ \/ rel' = Without(rel, v) /\ tags' \in {tags, Without(tags, v)}
         \/ UNCHANGED <<rel, tags>>
      /\ Goto(r, "failed") \/ Fault(r, "failed")
  BY DEF Cleanup, v
<1>2. PICK u \in Runs : /\ run' = [run EXCEPT ![r] = u] /\ u.pc = "failed"
                        /\ (u.clean => run[r].clean)
  BY <1>1, GotoFacts DEF Stages, Ended
<1>3. /\ DOMAIN rel' \subseteq DOMAIN rel /\ DOMAIN tags' \subseteq DOMAIN tags
      /\ \A w \in DOMAIN rel : w # v => w \in DOMAIN rel' /\ rel'[w] = rel[w]
      /\ \A w \in DOMAIN tags : w # v => w \in DOMAIN tags' /\ tags'[w] = tags[w]
      /\ \A w \in DOMAIN rel' : rel'[w] = rel[w]
      /\ \A w \in DOMAIN tags' : tags'[w] = tags[w]
      /\ DOMAIN rel' \subseteq DOMAIN tags'
  BY <1>0, <1>1 DEF Without, Restrict, Registry
<1>4. Registry(main, tags', rel', preserved')
  BY <1>0, <1>3 DEF Registry
<1>5. Placed(v, u.pc, tags', rel', preserved')
  BY <1>2 DEF Placed, Active
<1>6. Unspoilt(tree[r], u, main, rel')
  BY <1>0, <1>2 DEF Unspoilt
<1> QED
  BY <1>0, <1>2, <1>3, <1>4, <1>5, <1>6, ServiceStep DEF Active, v

(* What is deleted was preserved, and no run is about such a version. *)
LEMMA TriageStep ==
  ASSUME Inv, Triage
  PROVE  Inv'
<1>1. PICK v \in preserved : /\ rel' = Without(rel, v) /\ tags' = Without(tags, v)
                             /\ preserved' = preserved \ {v}
  BY DEF Triage
<1>2. UNCHANGED <<main, tree, run>> /\ Registry(main, tags, rel, preserved)
  BY DEF Triage, Inv
<1>3. /\ DOMAIN rel' = DOMAIN rel \ {v} /\ DOMAIN tags' = DOMAIN tags \ {v}
      /\ \A w \in DOMAIN rel' : rel'[w] = rel[w]
      /\ \A w \in DOMAIN tags' : tags'[w] = tags[w]
  BY <1>1 DEF Without, Restrict
<1>4. Registry(main', tags', rel', preserved')
  BY <1>1, <1>2, <1>3 DEF Registry
<1>5. ASSUME NEW r \in Runners
      PROVE  /\ Placed(TreeVersion(tree[r]), run[r].pc, tags', rel', preserved')
             /\ Unspoilt(tree[r], run[r], main, rel')
  <2>1. run[r].pc \in Active => TreeVersion(tree[r]) # v
    BY Facts DEF Placed
  <2>2. Placed(TreeVersion(tree[r]), run[r].pc, tags', rel', preserved')
    BY <1>1, <1>3, <2>1, Facts DEF Placed, Active
  <2>3. run[r].pc = "verify" => rel'[TreeVersion(tree[r])] = rel[TreeVersion(tree[r])]
    BY <1>3, <2>1, Facts DEF Placed, Active
  <2>4. Unspoilt(tree[r], run[r], main, rel')
    BY <2>3, Facts DEF Unspoilt
  <2> QED
    BY <2>2, <2>4
<1>6. Alone' = Alone
  BY <1>2 DEF Alone
<1> QED
  BY <1>2, <1>4, <1>5, <1>6 DEF Inv

LEMMA NextInv == Inv /\ [Next]_vars => Inv'
<1> SUFFICES ASSUME Inv, [Next]_vars PROVE Inv'
  OBVIOUS
<1>1. CASE UNCHANGED vars
  <2>1. UNCHANGED <<main, tags, rel, tree, run, preserved>>
    BY <1>1 DEF vars
  <2>2. Alone' = Alone
    BY <2>1 DEF Alone
  <2> QED
    BY <2>1, <2>2 DEF Inv
<1>2. ASSUME NEW r \in Runners, NEW kind \in Kinds, NEW fresh \in BOOLEAN, Begin(r, kind, fresh)
      PROVE  Inv'
  BY <1>2, BeginStep
<1>3. ASSUME NEW r \in Runners, Prepare(r) \/ Sign(r) \/ Publish(r) \/ Kill(r) PROVE Inv'
  BY <1>3, PullStep, BumpStep, BuildStep, SignStep, CheckStep, CommitStep, TagStep, PushStep,
     CreateStep, UploadStep, VerifyStep, UndraftStep, CleanupStep, KillStep DEF Prepare, Publish
<1> QED
  BY <1>1, <1>2, <1>3, TriageStep, MergeStep DEF Next

LEMMA Invariant == Spec => []Inv
BY InitInv, NextInv, PTL DEF Spec

-----------------------------------------------------------------------------
(* What is public was verified, all but the archive, whatever failed, died  *)
(* or was damaged on the way.                                               *)
THEOREM PublicIsVerified == Spec => []PublicVerified
<1>1. Range(Assets) \ {"archive"} = VerifiedAssets
  BY AssetFacts DEF VerifiedAssets
<1>2. Inv => PublicVerified
  BY <1>1 DEF Inv, Registry, Verified, PublicVerified
<1> QED
  BY <1>2, Invariant, PTL

(* A tag is of the commit of main that bumps to its version. *)
THEOREM TagsAreOnMain == Spec => []TagsOnMain
<1>1. ASSUME Inv PROVE TagsOnMain
  <2>1. DOMAIN main = 1..Len(main)
    BY <1>1 DEF Inv, MainInv
  <2> QED
    BY <1>1, <2>1 DEF Inv, Registry, TagsOnMain
<1> QED
  BY <1>1, Invariant, PTL

(* main never goes back to an earlier version. *)
THEOREM MainAscends == Spec => []VersionsAscend
<1>1. ASSUME Inv PROVE VersionsAscend
  <2>1. DOMAIN main = 1..Len(main)
    BY <1>1 DEF Inv, MainInv
  <2>2. ASSUME NEW i \in 1..Len(main), NEW j \in 1..Len(main), i < j
        PROVE  main[j].v = main[i].v \/ Precedes(main[i].v, main[j].v)
    BY <1>1, <2>2 DEF Inv, MainInv, Upto
  <2> QED
    BY <2>1, <2>2 DEF VersionsAscend
<1> QED
  BY <1>1, Invariant, PTL

(* The four version files agree past a run's bump, and in main. *)
THEOREM FilesAgree == Spec => []AnchorsAgree
<1>1. ASSUME Inv PROVE AnchorsAgree
  <2>1. \A i \in DOMAIN main : Coherent(main[i].anchors)
    BY <1>1 DEF Inv, MainInv, Sound
  <2>2. ASSUME NEW r \in Runners, run[r].pc \notin Ended \cup {"pull", "bump"}
        PROVE  Coherent(tree[r].anchors)
    BY <1>1, <2>2, Facts DEF Forward, Early
  <2> QED
    BY <2>1, <2>2 DEF AnchorsAgree
<1> QED
  BY <1>1, Invariant, PTL

(* A prerelease from a fresh checkout is wedged by nothing earlier runs     *)
(* have left.                                                               *)
THEOREM CleanRunsPublish == Spec => []CleanPrereleasePublishes
<1>1. ASSUME Inv PROVE CleanPrereleasePublishes
  BY <1>1, Facts DEF Unspoilt, CleanPrereleasePublishes, At
<1> QED
  BY <1>1, Invariant, PTL

(* What failed its verification keeps its draft and its tag. *)
THEOREM TriageKeepsAll == Spec => []PreservedForTriage
<1>1. Inv => PreservedForTriage
  BY DEF Inv, Registry, PreservedForTriage
<1> QED
  BY <1>1, Invariant, PTL
-----------------------------------------------------------------------------
(* Why versions stay within the bound of the runs: every run that has been  *)
(* through its bump, or has ended without one, makes at most one version    *)
(* that was not there before.                                               *)

Pending == {r \in Runners : run[r].pc \in {"pull", "bump"}}

Small(v, n)        == v.minor \in 1..(n + 1) /\ v.pre \in 0..(n + 1)
SmallFiles(f, n)   == \A a \in AnchorSet : Small(f[a], n)
SmallCommits(s, n) == \A i \in 1..Len(s) : SmallFiles(s[i].anchors, n)
SmallTree(t, n)    == /\ SmallFiles(t.anchors, n)
                      /\ SmallCommits(t.ahead, n)
                      /\ \A v \in t.tags : Small(v, n)

Within(n) == SmallCommits(main, n) /\ \A r \in Runners : SmallTree(tree[r], n)

SpentOK == spent \in [runs : 0..MaxRuns, faults : 0..MaxFaults]

Counted ==
    /\ SpentOK
    /\ IsFiniteSet(Pending)
    /\ \E n \in Nat : n + Cardinality(Pending) <= spent.runs /\ Within(n)

LEMMA SmallFacts ==
  ASSUME NEW n \in Nat
  PROVE  /\ \A v : Small(v, n) => Small(v, n + 1)
         /\ \A v \in Versions : Small(v, n) => /\ Small(BumpToNextPrerelease(v), n + 1)
                                               /\ Small(FinaliseVersion(v), n + 1)
         /\ Small(First, n)
<1>1. \A v : Small(v, n) => Small(v, n + 1)
  BY DEF Small
<1>2. ASSUME NEW v \in Versions, Small(v, n)
      PROVE  Small(BumpToNextPrerelease(v), n + 1) /\ Small(FinaliseVersion(v), n + 1)
  BY <1>2 DEF Small, BumpToNextPrerelease, FinaliseVersion, Versions
<1>3. Small(First, n)
  BY DEF Small, First
<1> QED
  BY <1>1, <1>2, <1>3

LEMMA WithinMore ==
  ASSUME NEW n \in Nat
  PROVE  /\ \A t : SmallTree(t, n) => SmallTree(t, n + 1)
         /\ \A s : SmallCommits(s, n) => SmallCommits(s, n + 1)
BY SmallFacts DEF SmallTree, SmallCommits, SmallFiles

(* A call of r spends no run, and leaves the pending runs pending at most.  *)
LEMMA CallFacts ==
  ASSUME Inv, Counted, NEW r \in Runners, NEW pc \in Stages, Goto(r, pc) \/ Fault(r, pc)
  PROVE  /\ SpentOK' /\ spent'.runs = spent.runs
         /\ pc \notin {"pull", "bump"} => Pending' = Pending \ {r}
         /\ run[r].pc \in {"pull", "bump"} => Pending' \subseteq Pending
<1>1. SpentOK' /\ spent'.runs = spent.runs
  BY ReleaseAssumption DEF Goto, Fault, SpendFault, Counted, SpentOK
<1>2. PICK u \in Runs : run' = [run EXCEPT ![r] = u] /\ u.pc = pc
  BY GotoFacts
<1>3. run \in [Runners -> Runs]
  BY DEF Inv
<1>4. pc \notin {"pull", "bump"} => Pending' = Pending \ {r}
  BY <1>2, <1>3 DEF Pending
<1>5. run[r].pc \in {"pull", "bump"} => Pending' \subseteq Pending
  BY <1>2, <1>3 DEF Pending
<1> QED
  BY <1>1, <1>4, <1>5

LEMMA PendingFacts ==
  ASSUME Counted, NEW S \in SUBSET Pending
  PROVE  /\ IsFiniteSet(S)
         /\ Cardinality(S) \in Nat /\ Cardinality(Pending) \in Nat
         /\ Cardinality(S) <= Cardinality(Pending)
BY FS_Subset, FS_CardinalityType DEF Counted

(* A step that makes no version. *)
LEMMA CountStep ==
  ASSUME Counted, SpentOK', spent'.runs = spent.runs, Pending' \subseteq Pending,
         \A n \in Nat : Within(n) => Within(n)'
  PROVE  Counted'
<1>1. PICK n \in Nat : n + Cardinality(Pending) <= spent.runs /\ Within(n)
  BY DEF Counted
<1>2. /\ IsFiniteSet(Pending')
      /\ Cardinality(Pending') \in Nat /\ Cardinality(Pending) \in Nat
      /\ Cardinality(Pending') <= Cardinality(Pending)
  BY PendingFacts
<1>3. n + Cardinality(Pending') <= spent'.runs
  BY <1>1, <1>2 DEF Counted, SpentOK
<1> QED
  BY <1>1, <1>2, <1>3 DEF Counted

(* A call that changes neither main nor a tree. *)
LEMMA QuietStep ==
  ASSUME Inv, Counted, NEW r \in Runners, NEW pc \in Stages \ {"pull", "bump"},
         Goto(r, pc) \/ Fault(r, pc), UNCHANGED <<main, tree>>
  PROVE  Counted'
<1>1. SpentOK' /\ spent'.runs = spent.runs /\ Pending' \subseteq Pending
  BY CallFacts
<1>2. \A n \in Nat : Within(n) => Within(n)'
  BY DEF Within
<1> QED
  BY <1>1, <1>2, CountStep

(* A call that gives r another tree, no larger. *)
LEMMA TreeStep ==
  ASSUME Inv, Counted, NEW r \in Runners, NEW t, NEW pc \in Stages,
         Goto(r, pc) \/ Fault(r, pc),
         pc \notin {"pull", "bump"} \/ run[r].pc \in {"pull", "bump"},
         tree' = [tree EXCEPT ![r] = t], UNCHANGED main,
         \A n \in Nat : Within(n) => SmallTree(t, n)
  PROVE  Counted'
<1>1. SpentOK' /\ spent'.runs = spent.runs /\ Pending' \subseteq Pending
  BY CallFacts
<1>2. tree \in [Runners -> Trees]
  BY DEF Inv
<1>3. \A n \in Nat : Within(n) => Within(n)'
  BY <1>2 DEF Within
<1> QED
  BY <1>1, <1>3, CountStep

LEMMA BeginCounts ==
  ASSUME Inv, Counted, NEW r \in Runners, NEW kind \in Kinds, NEW fresh \in BOOLEAN,
         Begin(r, kind, fresh)
  PROVE  Counted'
<1>1. PICK n \in Nat : n + Cardinality(Pending) <= spent.runs /\ Within(n)
  BY DEF Counted
<1>2. SpentOK' /\ spent'.runs = spent.runs + 1
  BY ReleaseAssumption DEF Begin, Counted, SpentOK
<1>3. run \in [Runners -> Runs] /\ tree \in [Runners -> Trees]
  BY DEF Inv
<1>4. r \notin Pending /\ Pending' = Pending \cup {r}
  BY <1>3 DEF Begin, Pending, Ended, Runs
<1>5. /\ IsFiniteSet(Pending') /\ Cardinality(Pending') = Cardinality(Pending) + 1
      /\ Cardinality(Pending) \in Nat
  BY <1>4, FS_AddElement, FS_CardinalityType DEF Counted
<1>6. SmallTree(FreshTree, n)
  <2>1. FreshTree.anchors = Same(First) /\ FreshTree.ahead = <<>> /\ FreshTree.tags = {}
    BY DEF FreshTree
  <2>2. SmallFiles(Same(First), n)
    BY SmallFacts DEF SmallFiles, Same
  <2>3. SmallCommits(<<>>, n)
    BY DEF SmallCommits
  <2> QED
    BY <2>1, <2>2, <2>3 DEF SmallTree
<1>7. Within(n)'
  BY <1>1, <1>3, <1>6 DEF Begin, Within
<1>8. n + Cardinality(Pending') <= spent'.runs
  BY <1>1, <1>2, <1>5 DEF Counted, SpentOK
<1> QED
  BY <1>2, <1>5, <1>7, <1>8 DEF Counted

LEMMA PullCounts ==
  ASSUME Inv, Counted, NEW r \in Runners, Pull(r)
  PROVE  Counted'
<1>1. run[r].pc = "pull" /\ UNCHANGED main /\ tree[r] \in Trees /\ MainInv(main)
      /\ "bump" \in Stages /\ "failed" \in Stages
  BY Facts DEF Pull, At, Stages, Ended
<1>2. CASE Goto(r, "bump") /\ UNCHANGED tree
  <2>1. tree' = [tree EXCEPT ![r] = tree[r]]
    BY <1>2 DEF Inv
  <2>2. \A n \in Nat : Within(n) => SmallTree(tree[r], n)
    BY DEF Within
  <2> QED
    BY <1>1, <1>2, <2>1, <2>2, TreeStep
<1>3. CASE /\ Pullable(tree[r]) /\ Goto(r, "bump")
           /\ tree' = [tree EXCEPT ![r] = Pulled(tree[r])]
  <2> DEFINE t == Pulled(tree[r])
  <2>1. /\ t.ahead = <<>> /\ t.tags = tree[r].tags
        /\ \A a \in AnchorSet : t.anchors[a] \in {tree[r].anchors[a], Tip.anchors[a]}
    BY <1>1, <1>3, Facts, PulledFacts
  <2>2. Len(main) \in 1..Len(main)
    BY <1>1 DEF MainInv
  <2> HIDE DEF t
  <2>3. ASSUME NEW n \in Nat, Within(n) PROVE SmallTree(t, n)
    <3>1. SmallFiles(tree[r].anchors, n) /\ SmallFiles(Tip.anchors, n)
      BY <2>2, <2>3 DEF Within, SmallTree, SmallCommits, Tip
    <3>2. SmallFiles(t.anchors, n)
      BY <2>1, <3>1 DEF SmallFiles
    <3>3. SmallCommits(t.ahead, n)
      BY <2>1 DEF SmallCommits
    <3> QED
      BY <2>1, <2>3, <3>2, <3>3 DEF Within, SmallTree
  <2> QED
    BY <1>1, <1>3, <2>3, TreeStep DEF t
<1>4. CASE (Refused(r) \/ Fault(r, "failed")) /\ UNCHANGED tree
  BY <1>1, <1>4, QuietStep DEF Refused
<1> QED
  BY <1>2, <1>3, <1>4 DEF Pull

(* The step that makes a version, and ends the wait of its run.             *)
LEMMA BumpCounts ==
  ASSUME Inv, Counted, NEW r \in Runners, Bump(r)
  PROVE  Counted'
<1>1. PICK n \in Nat : n + Cardinality(Pending) <= spent.runs /\ Within(n)
  BY DEF Counted
<1>2. /\ run[r].pc = "bump" /\ UNCHANGED main /\ tree[r] \in Trees
      /\ Version(r) \in Versions /\ tree \in [Runners -> Trees]
      /\ "build" \in Stages /\ "failed" \in Stages
  BY Facts DEF Bump, At, Stages, Ended
<1> DEFINE files(k) == [a \in AnchorSet |-> IF a \in {Anchors[i] : i \in 1..k} THEN Bumped(r)
                                             ELSE tree[r].anchors[a]]
<1>3. PICK k \in 0..Write : /\ tree' = [tree EXCEPT ![r].anchors = files(k)]
                            /\ Goto(r, "build") \/ Fault(r, "failed")
  BY <1>2 DEF Bump, Trees
<1>4. SpentOK' /\ spent'.runs = spent.runs /\ Pending' = Pending \ {r}
  BY <1>2, <1>3, CallFacts
<1>5. r \in Pending
  BY <1>2 DEF Pending
<1>6. /\ IsFiniteSet(Pending') /\ Cardinality(Pending') = Cardinality(Pending) - 1
      /\ Cardinality(Pending) \in Nat
  BY <1>4, <1>5, FS_RemoveElement, FS_CardinalityType DEF Counted
<1>7. SmallFiles(files(k), n + 1)
  <2>1. SmallFiles(tree[r].anchors, n)
    BY <1>1 DEF Within, SmallTree
  <2>2. Small(Version(r), n)
    BY <2>1, AnchorFacts DEF SmallFiles, Version
  <2>3. Small(Bumped(r), n + 1)
    BY <1>2, <2>2, SmallFacts DEF Bumped
  <2> QED
    BY <1>3, <2>1, <2>3, SmallFacts DEF SmallFiles
<1>8. Within(n + 1)'
  <2>1. SmallCommits(main', n + 1)
    BY <1>1, <1>2, WithinMore DEF Within
  <2>2. ASSUME NEW q \in Runners PROVE SmallTree(tree'[q], n + 1)
    <3>1. SmallTree(tree[q], n + 1)
      BY <1>1, WithinMore DEF Within
    <3>2. CASE q # r
      BY <1>2, <1>3, <3>1, <3>2
    <3>3. CASE q = r
      <4>1. /\ tree'[r].anchors = files(k) /\ tree'[r].ahead = tree[r].ahead
            /\ tree'[r].tags = tree[r].tags
        BY <1>2, <1>3 DEF Trees
      <4> QED
        BY <1>7, <3>1, <3>3, <4>1 DEF SmallTree
    <3> QED
      BY <3>2, <3>3
  <2> QED
    BY <2>1, <2>2 DEF Within
<1>9. (n + 1) + Cardinality(Pending') <= spent'.runs
  BY <1>1, <1>4, <1>6 DEF Counted, SpentOK
<1> QED
  BY <1>4, <1>6, <1>8, <1>9 DEF Counted

LEMMA SignCounts ==
  ASSUME Inv, Counted, NEW r \in Runners, Sign(r)
  PROVE  Counted'
<1>1. UNCHANGED main /\ tree[r] \in Trees /\ "check" \in Stages /\ "failed" \in Stages
  BY Facts DEF Sign, Stages, Ended
<1>2. ASSUME NEW n \in Nat, Within(n), NEW key
      PROVE  /\ SmallTree(Manifested(tree[r]), n)
             /\ SmallTree([Manifested(tree[r]) EXCEPT !.key = key], n)
  <2>1. SmallTree(tree[r], n)
    BY <1>2 DEF Within
  <2> DEFINE m == Manifested(tree[r])
             new == [tree[r].anchors EXCEPT !["manifest.json"] = tree[r].anchors["checksums.json"]]
             k == [m EXCEPT !.key = key]
  <2>2. /\ m = [tree[r] EXCEPT !.anchors = new] /\ m.anchors = new
        /\ m.ahead = tree[r].ahead /\ m.tags = tree[r].tags
        /\ k.anchors = m.anchors /\ k.ahead = m.ahead /\ k.tags = m.tags
    BY <1>1 DEF Manifested, Trees
  <2>3. SmallFiles(new, n)
    BY <1>1, <2>1, AnchorFacts DEF SmallTree, SmallFiles, Trees, AnchorsOf
  <2> HIDE DEF m, new, k
  <2>4. SmallTree(m, n) /\ SmallTree(k, n)
    BY <2>1, <2>2, <2>3 DEF SmallTree
  <2> QED
    BY <2>4 DEF m, k
<1>3. ASSUME NEW key, tree' = [tree EXCEPT ![r] = [Manifested(tree[r]) EXCEPT !.key = key]],
             Goto(r, "check") \/ Fault(r, "check")
      PROVE  Counted'
  <2> DEFINE t == [Manifested(tree[r]) EXCEPT !.key = key]
  <2>1. \A n \in Nat : Within(n) => SmallTree(t, n)
    BY <1>2
  <2> HIDE DEF t
  <2> QED
    BY <1>1, <1>3, <2>1, TreeStep DEF t
<1>4. ASSUME tree' = [tree EXCEPT ![r] = Manifested(tree[r])], Fault(r, "failed")
      PROVE  Counted'
  <2> DEFINE t == Manifested(tree[r])
  <2>1. \A n \in Nat : Within(n) => SmallTree(t, n)
    BY <1>2
  <2> HIDE DEF t
  <2> QED
    BY <1>1, <1>4, <2>1, TreeStep DEF t
<1>5. CASE Fault(r, "failed") /\ UNCHANGED tree
  BY <1>1, <1>5, QuietStep
<1> QED
  BY <1>3, <1>4, <1>5 DEF Sign

LEMMA CommitCounts ==
  ASSUME Inv, Counted, NEW r \in Runners, CommitVersion(r)
  PROVE  Counted'
<1>1. UNCHANGED main /\ tree[r] \in Trees /\ "tag" \in Stages /\ "failed" \in Stages
  BY Facts DEF CommitVersion, Stages, Ended
<1>2. CASE /\ tree' = [tree EXCEPT ![r].ahead = Append(@, Commit(tree[r].anchors))]
           /\ Goto(r, "tag")
  <2> DEFINE c == Commit(tree[r].anchors)
             s == Append(tree[r].ahead, c)
             t == [tree[r] EXCEPT !.ahead = s]
  <2>1. /\ t.anchors = tree[r].anchors /\ t.ahead = s /\ t.tags = tree[r].tags
        /\ tree' = [tree EXCEPT ![r] = t]
    BY <1>1, <1>2 DEF Trees, Inv
  <2>2. tree[r].ahead \in Seq(MainCommit) /\ c \in MainCommit /\ c.anchors = tree[r].anchors
    BY <1>1, AnchorFacts DEF Trees, Commit, MainCommit, AnchorsOf
  <2> HIDE DEF t, c
  <2>3. /\ Len(s) = Len(tree[r].ahead) + 1 /\ Len(tree[r].ahead) \in Nat
        /\ \A i \in 1..Len(tree[r].ahead) : s[i] = tree[r].ahead[i]
        /\ s[Len(tree[r].ahead) + 1] = c
    BY <2>2
  <2> HIDE DEF s
  <2>4. \A n \in Nat : Within(n) => SmallTree(t, n)
    <3> SUFFICES ASSUME NEW n \in Nat, Within(n) PROVE SmallTree(t, n)
      OBVIOUS
    <3>1. SmallTree(tree[r], n)
      BY DEF Within
    <3>2. ASSUME NEW i \in 1..Len(s) PROVE SmallFiles(s[i].anchors, n)
      <4>1. CASE i \in 1..Len(tree[r].ahead)
        BY <2>3, <3>1, <4>1 DEF SmallTree, SmallCommits
      <4>2. CASE i = Len(tree[r].ahead) + 1
        BY <2>2, <2>3, <3>1, <4>2 DEF SmallTree
      <4> QED
        BY <2>3, <4>1, <4>2
    <3> QED
      BY <2>1, <3>1, <3>2 DEF SmallTree, SmallCommits
  <2> QED
    BY <1>1, <1>2, <2>1, <2>4, TreeStep
<1>3. CASE Fault(r, "failed") /\ UNCHANGED tree
  BY <1>1, <1>3, QuietStep
<1> QED
  BY <1>2, <1>3 DEF CommitVersion

LEMMA TagCounts ==
  ASSUME Inv, Counted, NEW r \in Runners, TagVersion(r)
  PROVE  Counted'
<1>1. UNCHANGED main /\ tree[r] \in Trees /\ "push" \in Stages /\ "failed" \in Stages
  BY Facts DEF TagVersion, Stages, Ended
<1>2. CASE tree' = [tree EXCEPT ![r].tags = @ \cup {Version(r)}] /\ Goto(r, "push")
  <2> DEFINE t == [tree[r] EXCEPT !.tags = @ \cup {Version(r)}]
  <2>1. /\ t.anchors = tree[r].anchors /\ t.ahead = tree[r].ahead
        /\ t.tags = tree[r].tags \cup {Version(r)}
        /\ tree' = [tree EXCEPT ![r] = t]
    BY <1>1, <1>2 DEF Trees, Inv
  <2> HIDE DEF t
  <2>2. \A n \in Nat : Within(n) => SmallTree(t, n)
    BY <2>1, AnchorFacts DEF Within, SmallTree, SmallFiles, Version
  <2> QED
    BY <1>1, <1>2, <2>1, <2>2, TreeStep
<1>3. CASE (Refused(r) \/ Fault(r, "failed")) /\ UNCHANGED tree
  BY <1>1, <1>3, QuietStep DEF Refused
<1> QED
  BY <1>2, <1>3 DEF TagVersion

LEMMA LandCounts ==
  ASSUME Inv, Counted, NEW r \in Runners, NEW pc \in {"create", "failed"}, NEW clean \in BOOLEAN,
         Land(r, pc, clean), SpentOK', spent'.runs = spent.runs
  PROVE  Counted'
<1>1. /\ tree \in [Runners -> Trees] /\ run \in [Runners -> Runs] /\ tree[r] \in Trees
      /\ main \in Seq(MainCommit) /\ tree[r].ahead \in Seq(MainCommit)
  BY Facts DEF MainInv, Trees
<1>2. Pending' \subseteq Pending
  BY <1>1 DEF Land, Pending, Runs
<1>3. ASSUME NEW n \in Nat, Within(n) PROVE Within(n)'
  <2>1. SmallCommits(main', n)
    <3>1. main' = main \o tree[r].ahead
      BY DEF Land
    <3>2. /\ Len(main') = Len(main) + Len(tree[r].ahead)
          /\ Len(main) \in Nat /\ Len(tree[r].ahead) \in Nat
          /\ \A i \in 1..Len(main') :
                main'[i] = IF i <= Len(main) THEN main[i] ELSE tree[r].ahead[i - Len(main)]
      BY <1>1, <3>1
    <3>3. SmallCommits(main, n) /\ SmallCommits(tree[r].ahead, n)
      BY <1>3 DEF Within, SmallTree
    <3>4. ASSUME NEW i \in 1..Len(main') PROVE SmallFiles(main'[i].anchors, n)
      <4>1. CASE i <= Len(main)
        BY <3>2, <3>3, <4>1 DEF SmallCommits
      <4>2. CASE i > Len(main)
        <5>1. /\ i - Len(main) \in 1..Len(tree[r].ahead)
              /\ main'[i] = tree[r].ahead[i - Len(main)]
          BY <3>2, <4>2
        <5> QED
          BY <3>3, <5>1 DEF SmallCommits
      <4> QED
        BY <3>2, <4>1, <4>2
    <3> QED
      BY <3>4 DEF SmallCommits
  <2>2. ASSUME NEW q \in Runners PROVE SmallTree(tree'[q], n)
    <3>1. CASE q = r
      <4>1. /\ tree'[r].anchors = tree[r].anchors /\ tree'[r].ahead = <<>>
            /\ tree'[r].tags = tree[r].tags
        BY <1>1 DEF Land, Trees
      <4>2. SmallCommits(<<>>, n)
        BY DEF SmallCommits
      <4> QED
        BY <1>3, <3>1, <4>1, <4>2 DEF Within, SmallTree
    <3>2. CASE q # r
      BY <1>1, <1>3, <3>2 DEF Land, Within
    <3> QED
      BY <3>1, <3>2
  <2> QED
    BY <2>1, <2>2 DEF Within
<1> QED
  BY <1>2, <1>3, CountStep

LEMMA PushCounts ==
  ASSUME Inv, Counted, NEW r \in Runners, Push(r)
  PROVE  Counted'
<1>1. "failed" \in Stages
  BY DEF Stages, Ended
<1>2. CASE Land(r, "create", TRUE) /\ UNCHANGED spent
  BY <1>2, LandCounts DEF Counted, SpentOK
<1>3. CASE Land(r, "failed", FALSE) /\ SpendFault
  <2>1. SpentOK' /\ spent'.runs = spent.runs
    BY <1>3, ReleaseAssumption DEF SpendFault, Counted, SpentOK
  <2> QED
    BY <1>3, <2>1, LandCounts
<1>4. CASE (Refused(r) \/ Fault(r, "failed")) /\ UNCHANGED <<main, tree>>
  BY <1>1, <1>4, QuietStep DEF Refused
<1> QED
  BY <1>2, <1>3, <1>4 DEF Push

LEMMA MergeCounts ==
  ASSUME Inv, Counted, MergePullRequest
  PROVE  Counted'
<1>1. SpentOK' /\ spent'.runs = spent.runs
  BY ReleaseAssumption DEF MergePullRequest, SpendFault, Counted, SpentOK
<1>2. Pending' = Pending
  BY DEF MergePullRequest, Pending, Inv, Runs
<1>3. MainInv(main) /\ main' = Append(main, Tip) /\ tree' = tree
  BY DEF MergePullRequest, Inv
<1>4. /\ Len(main) \in Nat /\ Len(main) >= 1 /\ Len(main') = Len(main) + 1
      /\ \A i \in 1..Len(main) : main'[i] = main[i]
      /\ main'[Len(main) + 1] = main[Len(main)]
  <2>1. main \in Seq(MainCommit) /\ Len(main) \in 1..Len(main)
    BY <1>3 DEF MainInv
  <2>2. Tip \in MainCommit
    BY <2>1 DEF Tip
  <2> QED
    BY <1>3, <2>1, <2>2 DEF Tip
<1>5. ASSUME NEW n \in Nat, Within(n) PROVE Within(n)'
  <2>1. ASSUME NEW i \in 1..Len(main') PROVE SmallFiles(main'[i].anchors, n)
    <3>1. CASE i \in 1..Len(main)
      BY <1>4, <1>5, <3>1 DEF Within, SmallCommits
    <3>2. CASE i = Len(main) + 1
      BY <1>4, <1>5, <3>2 DEF Within, SmallCommits
    <3> QED
      BY <1>4, <3>1, <3>2
  <2> QED
    BY <1>3, <1>5, <2>1 DEF Within, SmallCommits
<1> QED
  BY <1>1, <1>2, <1>5, CountStep

LEMMA InitCounts == Init => Counted
<1> SUFFICES ASSUME Init PROVE Counted
  OBVIOUS
<1>1. SpentOK /\ spent.runs = 0
  BY ReleaseAssumption DEF Init, SpentOK
<1>2. Pending = {}
  BY DEF Init, Pending
<1>3. Cardinality(Pending) = 0 /\ IsFiniteSet(Pending)
  BY <1>2, FS_EmptySet
<1>4. SmallFiles(Same(First), 0)
  BY SmallFacts DEF SmallFiles, Same
<1>5. SmallCommits(main, 0)
  <2>1. Len(main) = 1 /\ main[1].anchors = Same(First)
    BY DEF Init, Commit
  <2> QED
    BY <1>4, <2>1 DEF SmallCommits
<1>6. ASSUME NEW r \in Runners PROVE SmallTree(tree[r], 0)
  <2>1. tree[r].anchors = Same(First) /\ tree[r].ahead = <<>> /\ tree[r].tags = {}
    BY DEF Init, FreshTree
  <2>2. SmallCommits(<<>>, 0)
    BY DEF SmallCommits
  <2> QED
    BY <1>4, <2>1, <2>2 DEF SmallTree
<1>7. Within(0)
  BY <1>5, <1>6 DEF Within
<1> QED
  BY <1>1, <1>3, <1>7 DEF Counted

LEMMA NextCounts == Inv /\ Counted /\ [Next]_vars => Counted'
<1> SUFFICES ASSUME Inv, Counted, [Next]_vars PROVE Counted'
  OBVIOUS
<1>1. CASE UNCHANGED vars
  BY <1>1 DEF vars, Counted, SpentOK, Pending, Within
<1>2. ASSUME NEW r \in Runners, NEW kind \in Kinds, NEW fresh \in BOOLEAN, Begin(r, kind, fresh)
      PROVE  Counted'
  BY <1>2, BeginCounts
<1>3. ASSUME NEW r \in Runners, Prepare(r) \/ Sign(r) \/ Publish(r) \/ Kill(r) PROVE Counted'
  <2> DEFINE quiet == Stages \ {"pull", "bump"}
  <2>1. {"sign", "commit", "upload", "verify", "undraft", "published", "failed", "cleanup"}
           \subseteq quiet
    BY DEF Stages, Ended
  <2>2. CASE Build(r) \/ Check(r) \/ CreateRelease(r) \/ Verify(r) \/ Undraft(r)
             \/ Cleanup(r) \/ Kill(r) \/ UploadAssets(r)
    <3>1. /\ UNCHANGED <<main, tree>>
          /\ \E pc \in quiet : Goto(r, pc) \/ Fault(r, pc)
      BY <2>1, <2>2 DEF Build, Check, CreateRelease, Verify, Undraft, Cleanup, Kill,
                        UploadAssets, Refused
    <3> QED
      BY <3>1, QuietStep
  <2> QED
    BY <1>3, <2>2, PullCounts, BumpCounts, SignCounts, CommitCounts, TagCounts, PushCounts
       DEF Prepare, Publish
<1>4. CASE Triage
  BY <1>4 DEF Triage, Counted, SpentOK, Pending, Within
<1> QED
  BY <1>1, <1>2, <1>3, <1>4, MergeCounts DEF Next

(* Every variable keeps its type, and no version outgrows the runs so far.  *)
THEOREM TypeCorrect == Spec => []TypeOK
<1>1. ASSUME Inv, Counted PROVE TypeOK
  <2>1. PICK n \in Nat : n + Cardinality(Pending) <= spent.runs /\ Within(n)
    BY <1>1 DEF Counted
  <2>2. n <= MaxRuns
    BY <1>1, <2>1, FS_CardinalityType, ReleaseAssumption DEF Counted, SpentOK
  <2>3. \A v \in Versions : Small(v, n) => v \in VersionBound
    BY <2>2, ReleaseAssumption DEF Small, Versions, VersionBound
  <2>4. \A f \in AnchorsOf : SmallFiles(f, n) => f \in [AnchorSet -> VersionBound]
    BY <2>3 DEF AnchorsOf, SmallFiles
  <2>5. ASSUME NEW s \in Seq(MainCommit), SmallCommits(s, n), \A i \in 1..Len(s) : Sound(s[i])
        PROVE  s \in Seq(Commits) /\ \A i \in 1..Len(s) : s[i].v \in VersionBound
    <3>1. ASSUME NEW i \in 1..Len(s) PROVE s[i] \in Commits /\ s[i].v \in VersionBound
      <4>1. s[i] \in MainCommit /\ s[i].anchors \in AnchorsOf /\ SmallFiles(s[i].anchors, n)
        BY <2>5, CommitFacts DEF SmallCommits
      <4>2. s[i].anchors \in [AnchorSet -> VersionBound]
        BY <2>4, <4>1
      <4>3. s[i].v \in VersionBound
        BY <2>5, <4>2, AnchorFacts DEF Sound
      <4> QED
        BY <4>1, <4>2, <4>3 DEF MainCommit, Commits
    <3> QED
      BY <3>1
  <2>6. main \in Seq(Commits) /\ \A i \in 1..Len(main) : main[i].v \in VersionBound
    BY <1>1, <2>1, <2>5 DEF Inv, MainInv, Within
  <2>7. /\ \A v \in DOMAIN tags : tags[v] \in 1..Len(main) /\ v \in VersionBound
        /\ \A v \in DOMAIN rel : v \in DOMAIN tags /\ rel[v] \in Releases
        /\ preserved \subseteq DOMAIN rel
    BY <1>1, <2>6 DEF Inv, Registry
  <2>8. ASSUME NEW r \in Runners
        PROVE  /\ tree[r].base \in 0..Len(main)
               /\ tree[r].ahead \in Seq(Commits)
               /\ tree[r].anchors \in [AnchorSet -> VersionBound]
               /\ tree[r].tags \subseteq VersionBound
               /\ tree[r].key \in {"none", "release", "other"}
               /\ run[r] \in [pc : Stages, kind : Kinds, clean : BOOLEAN]
    <3>1. tree[r] \in Trees /\ run[r] \in Runs /\ Forward(tree[r], run[r].pc, main)
      BY <1>1, Facts
    <3>2. SmallTree(tree[r], n)
      BY <2>1 DEF Within
    <3>3. tree[r].base \in 0..Len(main)
      BY <2>6, <3>1 DEF Forward, Trees
    <3>4. tree[r].ahead \in Seq(Commits)
      BY <2>5, <3>1, <3>2 DEF SmallTree, Trees, Forward
    <3>5. tree[r].anchors \in [AnchorSet -> VersionBound]
      BY <2>4, <3>1, <3>2 DEF SmallTree, Trees
    <3>6. tree[r].tags \subseteq VersionBound
      BY <2>3, <3>1, <3>2 DEF SmallTree, Trees
    <3> QED
      BY <3>1, <3>3, <3>4, <3>5, <3>6 DEF Trees, Runs
  <2> QED
    BY <1>1, <2>6, <2>7, <2>8 DEF TypeOK, Counted, SpentOK, Releases
<1> QED
  BY <1>1, InitCounts, NextCounts, Invariant, PTL DEF Spec
=============================================================================
