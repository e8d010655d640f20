---------------------------- MODULE BootstrapProofs ----------------------------
(***************************************************************************)
(* Proofs about Bootstrap, for any number of invocations, any contents and *)
(* any faults.                                                             *)
(***************************************************************************)
EXTENDS Bootstrap, TLAPS

Files  == [body : Binaries \cup {None}, x : BOOLEAN]
Temps  == [bin : Files, sig : Signatures \cup {None}]
Boots  == [pc : Stages, cached : BOOLEAN, sig : Signatures \cup {None},
           ran : Binaries \cup {None}, late : BOOLEAN, hollow : BOOLEAN,
           why : Reasons \cup {None}]
Shims  == [at : {"none", "empty", "torn", "whole"}, last : Procs \cup {None}]

(* What an invocation that has its verdict relies on. *)
Trusted(b) == ~b.late /\ ~b.hollow

Relies(p) ==
    /\ At(p, "exec") /\ Trusted(boot[p]) => launcher.body \in Genuine \cup {None}
    /\ boot[p].pc \in {"movesig", "movebin"} /\ ~boot[p].hollow =>
          tmp[p].bin.body \in Genuine
    /\ boot[p].ran # None /\ Trusted(boot[p]) => boot[p].ran \in Genuine

(* The temporary files an invocation has at each step. *)
Unfetched == {"start", "stage", "copying", "chmod", "check", "evict", "evictsig"}

Holds(p) ==
    /\ boot[p].pc \in Unfetched => boot[p].cached
    /\ boot[p].cached \/ boot[p].pc \in {"fetchbin", "exec"} => tmp[p] = NoTemps
    /\ boot[p].pc \in {"fetchsig", "movebin"} => tmp[p].sig = None
    /\ boot[p].pc \in {"launched", "failed"} /\ boot[p].why # "move" => tmp[p] = NoTemps
    /\ boot[p].pc \in {"fetchbin", "fetchsig", "movesig", "movebin"} => ~boot[p].cached

Inv == TypeOK /\ \A p \in Procs : Relies(p) /\ Holds(p)

-----------------------------------------------------------------------------
LEMMA GenuineFacts == Genuine \subseteq Binaries /\ None \notin Genuine
BY BootstrapAssumption DEF Genuine

LEMMA InitInv == Init => Inv
<1> SUFFICES ASSUME Init PROVE Inv
  OBVIOUS
<1>1. Released[1] \in Signatures /\ Released[2] \in Binaries
  BY BootstrapAssumption
<1>2. TypeOK
  <2>1. Absent \in Files /\ NoTemps \in Temps /\ "start" \in Stages
    BY DEF Absent, NoTemps, Files, Temps, Stages
  <2>2. launcher \in Files /\ sig \in Signatures \cup {None}
    <3>1. [body |-> Released[2], x |-> TRUE] \in Files
      BY <1>1 DEF Files
    <3> QED
      BY <1>1, <2>1, <3>1 DEF Init
  <2>3. boot \in [Procs -> Boots] /\ tmp \in [Procs -> Temps]
    BY <2>1 DEF Init, Boots
  <2>4. shim \in Shims
    BY DEF Init, Shims
  <2>5. faults \in 0..MaxFaults
    BY BootstrapAssumption DEF Init
  <2> QED
    BY <2>2, <2>3, <2>4, <2>5 DEF TypeOK, Boots, Files, Temps, Shims
<1>3. ASSUME NEW p \in Procs PROVE Relies(p) /\ Holds(p)
  BY <1>3 DEF Init, Trusted, Relies, Holds, At, Unfetched, NoTemps
<1> QED
  BY <1>2, <1>3 DEF Inv

(* An invocation whose record, files and launcher are left alone. *)
LEMMA Bystander ==
  ASSUME NEW q \in Procs, Relies(q), Holds(q),
         boot'[q] = boot[q], tmp'[q] = tmp[q],
         launcher'.body \in {launcher.body, None} \cup Genuine
  PROVE  Relies(q)' /\ Holds(q)'
BY DEF Trusted, Relies, Holds, At, NoTemps, Absent, Genuine

(* A step of p preserves the invariant if it does what p relies on. *)
LEMMA StepOfOne ==
  ASSUME Inv, NEW p \in Procs, NEW b \in Boots, NEW t \in Temps,
         boot' = [boot EXCEPT ![p] = b], tmp' = [tmp EXCEPT ![p] = t],
         shim' \in Shims,
         launcher' \in Files, sig' \in Signatures \cup {None},
         faults' \in 0..MaxFaults,
         launcher'.body \in {launcher.body, None} \cup Genuine,
         Relies(p)', Holds(p)'
  PROVE  Inv'
<1>1. boot \in [Procs -> Boots] /\ tmp \in [Procs -> Temps]
  BY DEF Inv, TypeOK, Boots, Temps, Files
<1>2. boot' \in [Procs -> Boots] /\ tmp' \in [Procs -> Temps]
  BY <1>1
<1>3. TypeOK'
  BY <1>2 DEF TypeOK, Boots, Temps, Files, Shims
<1>4. ASSUME NEW q \in Procs, q # p PROVE Relies(q)' /\ Holds(q)'
  <2>1. boot'[q] = boot[q] /\ tmp'[q] = tmp[q]
    BY <1>1, <1>4
  <2> QED
    BY <2>1, <1>4, Bystander DEF Inv
<1> QED
  BY <1>3, <1>4 DEF Inv

(* What every step starts from. *)
LEMMA Facts ==
  ASSUME Inv, NEW p \in Procs
  PROVE  /\ boot \in [Procs -> Boots] /\ tmp \in [Procs -> Temps]
         /\ boot[p] \in Boots /\ tmp[p] \in Temps
         /\ launcher \in Files /\ sig \in Signatures \cup {None}
         /\ shim \in Shims
         /\ faults \in 0..MaxFaults
         /\ Relies(p) /\ Holds(p)
BY DEF Inv, TypeOK, Boots, Temps, Files, Shims

LEMMA ShimsFacts ==
  ASSUME NEW p \in Procs, shim \in Shims
  PROVE  Unfinished(p) \in Shims
BY DEF Unfinished, Shims

LEMMA FaultType ==
  ASSUME Inv, Fault \/ UNCHANGED faults
  PROVE  faults' \in 0..MaxFaults
BY BootstrapAssumption DEF Inv, TypeOK, Fault

(* A step that moves p from one stage to another and touches no file. *)
LEMMA GotoStep ==
  ASSUME Inv, NEW p \in Procs, NEW pc \in Stages, Goto(p, pc),
         UNCHANGED <<launcher, sig, tmp>>, Fault \/ UNCHANGED faults,
         shim' \in Shims,
         pc = "exec" => launcher.body \in Genuine \cup {None} /\ tmp[p] = NoTemps,
         pc \in {"movesig", "movebin"} => tmp[p].bin.body \in Genuine,
         pc # "movebin",
         pc \in Unfetched => boot[p].cached,
         pc \in {"launched", "failed"} => tmp[p] = NoTemps,
         pc \notin {"fetchbin", "fetchsig"}, pc = "movesig" => ~boot[p].cached
  PROVE  Inv'
<1> DEFINE b == [boot[p] EXCEPT !.pc = pc]
<1>1. b \in Boots
  BY Facts DEF Boots
<1>2. boot' = [boot EXCEPT ![p] = b] /\ boot'[p] = b
  BY Facts DEF Goto
<1>3. tmp' = [tmp EXCEPT ![p] = tmp[p]]
  BY Facts
<1>4. /\ b.pc = pc /\ b.cached = boot[p].cached /\ b.ran = boot[p].ran
      /\ b.late = boot[p].late /\ b.hollow = boot[p].hollow /\ b.why = boot[p].why
  BY Facts DEF Boots
<1> HIDE DEF b
<1>5. Relies(p)'
  BY <1>2, <1>4, Facts DEF Trusted, Relies, At
<1>6. Holds(p)'
  BY <1>2, <1>4, Facts DEF Holds, NoTemps, Absent
<1> QED
  BY <1>1, <1>2, <1>3, <1>5, <1>6, Facts, FaultType, StepOfOne

(* A step that ends p with a message, and leaves its files or drops them. *)
LEMMA FailStep ==
  ASSUME Inv, NEW p \in Procs, NEW why \in Reasons, Fail(p, why),
         UNCHANGED <<launcher, sig>>, Fault \/ UNCHANGED faults, shim' \in Shims,
         \/ tmp' = [tmp EXCEPT ![p] = NoTemps]
         \/ UNCHANGED tmp /\ (why = "move" \/ tmp[p] = NoTemps)
  PROVE  Inv'
<1> DEFINE b == [boot[p] EXCEPT !.pc = "failed", !.why = why]
           t == tmp'[p]
<1>1. b \in Boots
  BY Facts DEF Boots, Stages, Ended
<1>2. boot' = [boot EXCEPT ![p] = b] /\ boot'[p] = b
  BY Facts DEF Fail
<1>3. tmp' = [tmp EXCEPT ![p] = t] /\ t \in Temps
  <2>1. NoTemps \in Temps
    BY DEF NoTemps, Absent, Temps, Files
  <2>2. CASE tmp' = [tmp EXCEPT ![p] = NoTemps]
    BY <2>1, <2>2, Facts
  <2>3. CASE tmp' = tmp
    BY <2>3, Facts
  <2> QED
    BY <2>2, <2>3
<1>4. /\ b.pc = "failed" /\ b.cached = boot[p].cached /\ b.ran = boot[p].ran
      /\ b.late = boot[p].late /\ b.hollow = boot[p].hollow /\ b.why = why
  BY Facts DEF Boots
<1>7. t = NoTemps \/ (why = "move" /\ t = tmp[p])
  BY Facts
<1>8. tmp'[p] = t
  OBVIOUS
<1> HIDE DEF b, t
<1>5. Relies(p)'
  BY <1>2, <1>4, Facts DEF Trusted, Relies, At
<1>6. Holds(p)'
  BY <1>2, <1>4, <1>7, <1>8, Facts DEF Holds, Unfetched
<1> QED
  BY <1>1, <1>2, <1>3, <1>5, <1>6, Facts, FaultType, StepOfOne

LEMMA NotVerifiedStep ==
  ASSUME Inv, NEW p \in Procs, NotVerified(p), boot[p].pc \in {"shim"} \cup Running,
         UNCHANGED <<shim, launcher, sig, faults>>
  PROVE  Inv'
<1>1. CASE boot[p].cached
  <2>1. tmp[p] = NoTemps
    BY <1>1, Facts DEF Holds
  <2> QED
    BY <1>1, <2>1, Facts, GotoStep DEF NotVerified, Stages, Unfetched
<1>2. CASE ~boot[p].cached
  BY <1>2, Facts, FailStep DEF NotVerified, Reasons
<1> QED
  BY <1>1, <1>2

LEMMA BeforeTheCheck ==
  ASSUME Inv, NEW p \in Procs,
         \/ Start(p) \/ OpenShim(p) \/ WriteSome(p) \/ FinishCopy(p)
         \/ ChmodShim(p) \/ CheckCached(p)
  PROVE  Inv'
<1>1. tmp[p] = NoTemps /\ boot[p].cached
  BY Facts DEF Start, OpenShim, WriteSome, FinishCopy, ChmodShim, CheckCached, Holds, At,
               Unfetched
<1>2. {"stage", "copying", "chmod", "check", "shim", "evict"} \subseteq Stages
  BY DEF Stages
<1>3. CASE Start(p)
  BY <1>1, <1>2, <1>3, Facts, GotoStep, FailStep DEF Start, Reasons, Unfetched
<1>4. CASE OpenShim(p)
  <2>1. CASE shim' = [at |-> "empty", last |-> p] /\ Goto(p, "copying") /\ UNCHANGED faults
    <3>1. shim' \in Shims
      BY <2>1 DEF Shims
    <3> QED
      BY <1>1, <1>2, <1>4, <2>1, <3>1, GotoStep DEF OpenShim, Unfetched
  <2>2. CASE Fail(p, "stage") /\ UNCHANGED shim /\ (Fault \/ UNCHANGED faults)
    BY <1>1, <1>4, <2>2, Facts, FailStep DEF OpenShim, Reasons
  <2> QED
    BY <1>4, <2>1, <2>2 DEF OpenShim
<1>5. CASE FinishCopy(p)
  <2>1. shim' \in Shims
    BY <1>5, Facts, ShimsFacts DEF FinishCopy, Shims
  <2>2. CASE Goto(p, "chmod") /\ UNCHANGED faults
    BY <1>1, <1>2, <1>5, <2>1, <2>2, GotoStep DEF FinishCopy, Unfetched
  <2>3. CASE Fault /\ Fail(p, "stage")
    BY <1>1, <1>5, <2>1, <2>3, FailStep DEF FinishCopy, Reasons
  <2> QED
    BY <1>5, <2>2, <2>3 DEF FinishCopy
<1>8. CASE WriteSome(p)
  <2>1. shim' \in Shims /\ UNCHANGED <<launcher, sig, tmp, boot, faults>>
    BY <1>8, Facts DEF WriteSome, Shims
  <2>2. TypeOK'
    BY <2>1 DEF Inv, TypeOK, Shims
  <2> QED
    BY <2>1, <2>2, Facts, Bystander DEF Inv
<1>6. CASE ChmodShim(p)
  BY <1>1, <1>2, <1>6, Facts, GotoStep, FailStep DEF ChmodShim, Reasons, Unfetched
<1>7. CASE CheckCached(p)
  BY <1>1, <1>2, <1>7, Facts, GotoStep DEF CheckCached, Unfetched
<1> QED
  BY <1>3, <1>4, <1>5, <1>6, <1>7, <1>8

LEMMA Verifying ==
  ASSUME Inv, NEW p \in Procs, RunShim(p) \/ ReadSignature(p) \/ ReadTarget(p)
  PROVE  Inv'
<1>1. CASE RunShim(p)
  <2>1. CASE Goto(p, "readsig") /\ UNCHANGED tmp
    BY <1>1, <2>1, Facts, GotoStep DEF RunShim, Unfetched, Stages, Running
  <2>2. CASE NotVerified(p)
    BY <1>1, <2>2, NotVerifiedStep DEF RunShim, At
  <2>3. CASE Believed(p) /\ UNCHANGED tmp
    <3> DEFINE b == [boot[p] EXCEPT !.pc = IF boot[p].cached THEN "exec" ELSE "movesig",
                                    !.hollow = TRUE]
    <3>1. b \in Boots
      BY Facts DEF Boots, Stages
    <3>2. boot' = [boot EXCEPT ![p] = b] /\ boot'[p] = b
      BY <2>3, Facts DEF Believed
    <3>3. /\ b.pc = IF boot[p].cached THEN "exec" ELSE "movesig"
          /\ b.cached = boot[p].cached /\ b.hollow
      BY Facts DEF Boots
    <3>4. tmp' = [tmp EXCEPT ![p] = tmp[p]]
      BY <2>3, Facts
    <3> HIDE DEF b
    <3>5. Relies(p)' /\ Holds(p)'
      BY <2>3, <3>2, <3>3, Facts DEF Trusted, Relies, Holds, At, Unfetched
    <3> QED
      BY <1>1, <2>3, <3>1, <3>2, <3>4, <3>5, Facts, StepOfOne DEF RunShim
  <2> QED
    BY <1>1, <2>1, <2>2, <2>3 DEF RunShim
<1>2. CASE ReadSignature(p)
  <2>1. CASE /\ PairSig(p) # None /\ UNCHANGED tmp
             /\ boot' = [boot EXCEPT ![p].pc = "readbin", ![p].sig = PairSig(p)]
    <3> DEFINE b == [boot[p] EXCEPT !.pc = "readbin", !.sig = PairSig(p)]
    <3>1. PairSig(p) \in Signatures \cup {None}
      BY Facts DEF PairSig, Temps
    <3>2. b \in Boots
      BY <3>1, Facts DEF Boots, Stages, Running
    <3>3. boot' = [boot EXCEPT ![p] = b] /\ boot'[p] = b
      BY <2>1, Facts
    <3>4. /\ b.pc = "readbin" /\ b.cached = boot[p].cached /\ b.ran = boot[p].ran
          /\ b.late = boot[p].late /\ b.hollow = boot[p].hollow /\ b.why = boot[p].why
      BY Facts DEF Boots
    <3>5. tmp' = [tmp EXCEPT ![p] = tmp[p]]
      BY <2>1, Facts
    <3> HIDE DEF b
    <3>6. Relies(p)' /\ Holds(p)'
      BY <2>1, <3>3, <3>4, Facts DEF Trusted, Relies, Holds, At, Unfetched
    <3> QED
      BY <1>2, <2>1, <3>2, <3>3, <3>5, <3>6, Facts, StepOfOne DEF ReadSignature
  <2>2. CASE NotVerified(p)
    BY <1>2, <2>2, NotVerifiedStep DEF ReadSignature, At, Running
  <2> QED
    BY <1>2, <2>1, <2>2 DEF ReadSignature
<1>3. CASE ReadTarget(p)
  <2>1. CASE /\ Verdict(boot[p].sig, PairBin(p)) /\ UNCHANGED tmp
             /\ Goto(p, IF boot[p].cached THEN "exec" ELSE "movesig")
    <3>1. PairBin(p) \in Genuine
      BY <2>1 DEF Verdict, Genuine
    <3>2. CASE boot[p].cached
      BY <1>3, <2>1, <3>1, <3>2, Facts, GotoStep
         DEF ReadTarget, PairBin, Stages, Unfetched, Holds
    <3>3. CASE ~boot[p].cached
      BY <1>3, <2>1, <3>1, <3>3, Facts, GotoStep
         DEF ReadTarget, PairBin, Stages, Unfetched, Holds
    <3> QED
      BY <3>2, <3>3
  <2>2. CASE NotVerified(p)
    BY <1>3, <2>2, NotVerifiedStep DEF ReadTarget, At, Running
  <2> QED
    BY <1>3, <2>1, <2>2 DEF ReadTarget
<1> QED
  BY <1>1, <1>2, <1>3

(* The record of p after Goto, and what does not change in it. *)
LEMMA GotoFacts ==
  ASSUME Inv, NEW p \in Procs, NEW pc \in Stages, Goto(p, pc)
  PROVE  \E b \in Boots : /\ boot' = [boot EXCEPT ![p] = b] /\ boot'[p] = b
                          /\ b.pc = pc /\ b.cached = boot[p].cached
                          /\ b.ran = boot[p].ran /\ b.late = boot[p].late
                          /\ b.hollow = boot[p].hollow
                          /\ b.why = boot[p].why
<1> DEFINE b == [boot[p] EXCEPT !.pc = pc]
<1>1. b \in Boots
  BY Facts DEF Boots
<1>2. boot' = [boot EXCEPT ![p] = b] /\ boot'[p] = b
  BY Facts DEF Goto
<1>3. /\ b.pc = pc /\ b.cached = boot[p].cached /\ b.ran = boot[p].ran
      /\ b.late = boot[p].late /\ b.hollow = boot[p].hollow /\ b.why = boot[p].why
  BY Facts DEF Boots
<1> QED
  BY <1>1, <1>2, <1>3

LEMMA Evicting ==
  ASSUME Inv, NEW p \in Procs, EvictBinary(p) \/ EvictSignature(p)
  PROVE  Inv'
<1>1. tmp[p] = NoTemps /\ boot[p].cached
  BY Facts DEF EvictBinary, EvictSignature, Holds, At, Unfetched
<1>2. Absent \in Files /\ Absent.body = None
  BY DEF Absent, Files
<1>3. faults' \in 0..MaxFaults
  BY FaultType DEF EvictBinary, EvictSignature
<1>4. CASE EvictBinary(p)
  <2>1. PICK b \in Boots : /\ boot' = [boot EXCEPT ![p] = b] /\ boot'[p] = b
                           /\ b.pc = "evictsig" /\ b.cached = boot[p].cached
                           /\ b.ran = boot[p].ran /\ b.late = boot[p].late
                           /\ b.hollow = boot[p].hollow
                           /\ b.why = boot[p].why
    BY <1>4, GotoFacts DEF EvictBinary, Stages
  <2>2. tmp' = [tmp EXCEPT ![p] = tmp[p]]
    BY <1>4, Facts DEF EvictBinary
  <2>3. launcher' \in Files /\ launcher'.body \in {launcher.body, None}
    BY <1>2, <1>4, Facts DEF EvictBinary
  <2>4. Relies(p)' /\ Holds(p)'
    BY <1>1, <1>4, <2>1, Facts DEF EvictBinary, Trusted, Relies, Holds, At, Unfetched
  <2> QED
    BY <1>3, <1>4, <2>1, <2>2, <2>3, <2>4, Facts, StepOfOne DEF EvictBinary
<1>5. CASE EvictSignature(p)
  <2> DEFINE b == [boot[p] EXCEPT !.pc = "fetchbin", !.cached = FALSE]
  <2>1. b \in Boots
    BY Facts DEF Boots, Stages
  <2>2. boot' = [boot EXCEPT ![p] = b] /\ boot'[p] = b
    BY <1>5, Facts DEF EvictSignature
  <2>3. /\ b.pc = "fetchbin" /\ b.cached = FALSE /\ b.ran = boot[p].ran
        /\ b.late = boot[p].late /\ b.hollow = boot[p].hollow /\ b.why = boot[p].why
    BY Facts DEF Boots
  <2>4. tmp' = [tmp EXCEPT ![p] = tmp[p]]
    BY <1>5, Facts DEF EvictSignature
  <2>5. sig' \in Signatures \cup {None}
    BY <1>5, Facts DEF EvictSignature
  <2> HIDE DEF b
  <2>6. Relies(p)' /\ Holds(p)'
    BY <1>1, <1>5, <2>2, <2>3, Facts DEF EvictSignature, Trusted, Relies, Holds, At, Unfetched
  <2> QED
    BY <1>3, <1>5, <2>1, <2>2, <2>4, <2>5, <2>6, Facts, StepOfOne DEF EvictSignature
<1> QED
  BY <1>4, <1>5

LEMMA Fetching ==
  ASSUME Inv, NEW p \in Procs, FetchBinary(p) \/ FetchSignature(p)
  PROVE  Inv'
<1>1. tmp[p].sig = None /\ ~boot[p].cached /\ (At(p, "fetchbin") => tmp[p] = NoTemps)
  BY Facts DEF FetchBinary, FetchSignature, Holds, At, NoTemps
<1>2. faults' \in 0..MaxFaults
  BY FaultType DEF FetchBinary, FetchSignature
<1>3. CASE FetchBinary(p)
  <2>1. CASE \E b \in Binaries : /\ tmp' = [tmp EXCEPT ![p].bin = [body |-> b, x |-> FALSE]]
                                 /\ Goto(p, "fetchsig")
    <3>1. PICK c \in Binaries : tmp' = [tmp EXCEPT ![p].bin = [body |-> c, x |-> FALSE]]
      BY <2>1
    <3> DEFINE t == [tmp[p] EXCEPT !.bin = [body |-> c, x |-> FALSE]]
    <3>2. t \in Temps /\ t.sig = None
      BY <1>1, Facts DEF Temps, Files
    <3>3. tmp' = [tmp EXCEPT ![p] = t] /\ tmp'[p] = t
      BY <3>1, Facts
    <3>4. PICK b \in Boots : /\ boot' = [boot EXCEPT ![p] = b] /\ boot'[p] = b
                             /\ b.pc = "fetchsig" /\ b.cached = boot[p].cached
                             /\ b.ran = boot[p].ran /\ b.late = boot[p].late
                             /\ b.hollow = boot[p].hollow
                             /\ b.why = boot[p].why
      BY <2>1, GotoFacts DEF Stages
    <3> HIDE DEF t
    <3>5. Relies(p)' /\ Holds(p)'
      BY <1>1, <1>3, <3>2, <3>3, <3>4, Facts DEF FetchBinary, Trusted, Relies, Holds, At, Unfetched
    <3> QED
      BY <1>2, <1>3, <3>2, <3>3, <3>4, <3>5, Facts, StepOfOne DEF FetchBinary
  <2>2. CASE Fault /\ Fail(p, "fetch") /\ tmp' = [tmp EXCEPT ![p].bin = Absent]
    <3>1. [tmp[p] EXCEPT !.bin = Absent] = NoTemps
      BY <1>1, <1>3 DEF FetchBinary, NoTemps
    <3>2. tmp' = [tmp EXCEPT ![p] = NoTemps]
      BY <2>2, <3>1, Facts
    <3> QED
      BY <1>3, <2>2, <3>2, Facts, FailStep DEF FetchBinary, Reasons
  <2> QED
    BY <1>3, <2>1, <2>2 DEF FetchBinary
<1>4. CASE FetchSignature(p)
  <2>1. CASE \E s \in Signatures, x \in BOOLEAN :
                /\ tmp' = [tmp EXCEPT ![p].sig = s, ![p].bin.x = x]
                /\ Goto(p, "shim")
    <3>1. PICK s \in Signatures, x \in BOOLEAN :
             tmp' = [tmp EXCEPT ![p].sig = s, ![p].bin.x = x]
      BY <2>1
    <3> DEFINE t == [tmp[p] EXCEPT !.sig = s, !.bin.x = x]
    <3>2. t \in Temps
      BY Facts DEF Temps, Files
    <3>3. tmp' = [tmp EXCEPT ![p] = t] /\ tmp'[p] = t
      BY <3>1, Facts
    <3>4. PICK b \in Boots : /\ boot' = [boot EXCEPT ![p] = b] /\ boot'[p] = b
                             /\ b.pc = "shim" /\ b.cached = boot[p].cached
                             /\ b.ran = boot[p].ran /\ b.late = boot[p].late
                             /\ b.hollow = boot[p].hollow
                             /\ b.why = boot[p].why
      BY <2>1, GotoFacts DEF Stages
    <3> HIDE DEF t
    <3>5. Relies(p)' /\ Holds(p)'
      BY <1>1, <1>4, <3>3, <3>4, Facts DEF FetchSignature, Trusted, Relies, Holds, At, Unfetched
    <3> QED
      BY <1>2, <1>4, <3>2, <3>3, <3>4, <3>5, Facts, StepOfOne DEF FetchSignature
  <2>2. CASE Fault /\ Fail(p, "fetch") /\ tmp' = [tmp EXCEPT ![p] = NoTemps]
    BY <1>4, <2>2, Facts, FailStep DEF FetchSignature, Reasons
  <2> QED
    BY <1>4, <2>1, <2>2 DEF FetchSignature
<1> QED
  BY <1>3, <1>4

LEMMA Moving ==
  ASSUME Inv, NEW p \in Procs, MoveSignature(p) \/ MoveBinary(p)
  PROVE  Inv'
<1>1. ~boot[p].hollow => tmp[p].bin.body \in Genuine
  BY Facts DEF MoveSignature, MoveBinary, Relies, At
<1>2. faults' \in 0..MaxFaults
  BY FaultType DEF MoveSignature, MoveBinary
<1>3. ~boot[p].cached
  BY Facts DEF MoveSignature, MoveBinary, Holds, At
<1>4. CASE MoveSignature(p)
  <2>1. CASE /\ sig' = tmp[p].sig /\ tmp' = [tmp EXCEPT ![p].sig = None]
             /\ Goto(p, "movebin")
    <3> DEFINE t == [tmp[p] EXCEPT !.sig = None]
    <3>1. t \in Temps /\ t.sig = None /\ t.bin = tmp[p].bin
      BY Facts DEF Temps
    <3>2. tmp' = [tmp EXCEPT ![p] = t] /\ tmp'[p] = t
      BY <2>1, Facts
    <3>3. PICK b \in Boots : /\ boot' = [boot EXCEPT ![p] = b] /\ boot'[p] = b
                             /\ b.pc = "movebin" /\ b.cached = boot[p].cached
                             /\ b.ran = boot[p].ran /\ b.late = boot[p].late
                             /\ b.hollow = boot[p].hollow
                             /\ b.why = boot[p].why
      BY <2>1, GotoFacts DEF Stages
    <3>4. sig' \in Signatures \cup {None}
      BY <2>1, Facts DEF Temps
    <3> HIDE DEF t
    <3>5. Relies(p)' /\ Holds(p)'
      BY <1>1, <1>3, <1>4, <3>1, <3>2, <3>3, Facts
         DEF MoveSignature, Trusted, Relies, Holds, At, Unfetched
    <3> QED
      BY <1>2, <1>4, <3>1, <3>2, <3>3, <3>4, <3>5, Facts, StepOfOne DEF MoveSignature
  <2>2. CASE Fault /\ Fail(p, "move") /\ UNCHANGED <<sig, tmp>>
    BY <1>4, <2>2, Facts, FailStep DEF MoveSignature, Reasons
  <2> QED
    BY <1>4, <2>1, <2>2 DEF MoveSignature
<1>5. CASE MoveBinary(p)
  <2>1. CASE /\ launcher' = tmp[p].bin /\ tmp' = [tmp EXCEPT ![p].bin = Absent]
             /\ boot' = [q \in Procs |-> [boot[q] EXCEPT
                           !.pc = IF q = p THEN "exec" ELSE @,
                           !.hollow = @ \/ (boot[p].hollow /\ At(q, "exec"))]]
    <3> DEFINE t == [tmp[p] EXCEPT !.bin = Absent]
    <3>1. t = NoTemps
      <4>1. tmp[p].sig = None /\ tmp[p] \in Temps
        BY <1>5, Facts DEF MoveBinary, Holds, At
      <4> QED
        BY <4>1 DEF Temps, NoTemps
    <3>2. /\ NoTemps \in Temps /\ tmp' = [tmp EXCEPT ![p] = NoTemps]
          /\ tmp'[p] = NoTemps /\ tmp' \in [Procs -> Temps]
      BY <2>1, <3>1, Facts DEF NoTemps, Absent, Temps, Files
    <3>3. launcher' \in Files /\ (~boot[p].hollow => launcher'.body \in Genuine)
      BY <1>1, <2>1, Facts DEF Temps
    <3>4. ASSUME NEW q \in Procs
          PROVE  /\ boot'[q] \in Boots
                 /\ boot'[q].pc = IF q = p THEN "exec" ELSE boot[q].pc
                 /\ boot'[q].cached = boot[q].cached /\ boot'[q].ran = boot[q].ran
                 /\ boot'[q].late = boot[q].late /\ boot'[q].why = boot[q].why
                 /\ boot'[q].hollow = (boot[q].hollow \/ (boot[p].hollow /\ At(q, "exec")))
      <4>1. (boot[q].hollow \/ (boot[p].hollow /\ At(q, "exec"))) \in BOOLEAN
        BY <3>4
      <4>2. boot'[q] = [boot[q] EXCEPT
                           !.pc = IF q = p THEN "exec" ELSE @,
                           !.hollow = @ \/ (boot[p].hollow /\ At(q, "exec"))]
        BY <2>1, <3>4
      <4>3. "exec" \in Stages
        BY DEF Stages
      <4> QED
        BY <3>4, <4>1, <4>2, <4>3, Facts DEF Boots
    <3>5. Relies(p)' /\ Holds(p)'
      BY <1>3, <1>5, <3>2, <3>3, <3>4, Facts
         DEF MoveBinary, Trusted, Relies, Holds, At, Unfetched
    <3>6. ASSUME NEW q \in Procs, q # p PROVE Relies(q)' /\ Holds(q)'
      <4>1. tmp'[q] = tmp[q]
        BY <3>2, <3>6, Facts
      <4>2. Holds(q)'
        BY <3>4, <3>6, <4>1, Facts DEF Holds, At
      <4>3. Relies(q)'
        BY <3>3, <3>4, <3>6, <4>1, Facts DEF Trusted, Relies, At
      <4> QED
        BY <4>2, <4>3
    <3>7. boot' \in [Procs -> Boots]
      BY <2>1, <3>4
    <3>8. shim' \in Shims /\ sig' \in Signatures \cup {None}
      BY <1>5, Facts DEF MoveBinary
    <3>9. TypeOK'
      BY <1>2, <3>2, <3>3, <3>7, <3>8 DEF TypeOK, Boots, Temps, Files, Shims
    <3> QED
      BY <3>5, <3>6, <3>9 DEF Inv
  <2>2. CASE Fault /\ Fail(p, "move") /\ UNCHANGED <<launcher, tmp>>
    BY <1>5, <2>2, Facts, FailStep DEF MoveBinary, Reasons
  <2> QED
    BY <1>5, <2>1, <2>2 DEF MoveBinary
<1> QED
  BY <1>4, <1>5

LEMMA Executing ==
  ASSUME Inv, NEW p \in Procs, Exec(p)
  PROVE  Inv'
<1>1. tmp[p] = NoTemps /\ (Trusted(boot[p]) => launcher.body \in Genuine \cup {None})
  BY Facts DEF Exec, Holds, Trusted, Relies, At
<1>2. CASE boot' = [boot EXCEPT ![p].pc = "launched", ![p].ran = launcher.body]
  <2> DEFINE b == [boot[p] EXCEPT !.pc = "launched", !.ran = launcher.body]
  <2>1. b \in Boots
    BY Facts DEF Boots, Files, Stages, Ended
  <2>2. boot' = [boot EXCEPT ![p] = b] /\ boot'[p] = b
    BY <1>2, Facts
  <2>3. /\ b.pc = "launched" /\ b.cached = boot[p].cached /\ b.ran = launcher.body
        /\ b.late = boot[p].late /\ b.hollow = boot[p].hollow /\ b.why = boot[p].why
    BY Facts DEF Boots, Files
  <2>4. tmp' = [tmp EXCEPT ![p] = tmp[p]]
    BY Facts DEF Exec
  <2> HIDE DEF b
  <2>5. Relies(p)' /\ Holds(p)'
    BY <1>1, <2>2, <2>3, Facts DEF Exec, Trusted, Relies, Holds, At, Unfetched
  <2> QED
    BY <2>1, <2>2, <2>4, <2>5, Facts, StepOfOne DEF Exec
<1>3. CASE Fail(p, "exec")
  BY <1>1, <1>3, Facts, FailStep DEF Exec, Reasons
<1> QED
  BY <1>2, <1>3 DEF Exec

LEMMA Environment ==
  ASSUME Inv, (\E p \in Procs : Kill(p)) \/ DamageLauncher \/ DamageSignature
  PROVE  Inv'
<1>1. CASE \E p \in Procs : Kill(p)
  <2>1. PICK p \in Procs : Kill(p)
    BY <1>1
  <2>2. shim' \in Shims
    BY <2>1, Facts, ShimsFacts DEF Kill
  <2> QED
    BY <2>1, <2>2, Facts, GotoStep DEF Kill, Stages, Ended, Unfetched
<1>2. CASE DamageLauncher
  <2>1. launcher' \in Files
    <3>1. PICK f \in {Absent} \cup [body : Binaries, x : {TRUE}] : launcher' = f
      BY <1>2 DEF DamageLauncher
    <3>2. Absent \in Files /\ [body : Binaries, x : {TRUE}] \subseteq Files
      BY DEF Absent, Files
    <3> QED
      BY <3>1, <3>2
  <2>2. ASSUME NEW p \in Procs
        PROVE  /\ boot'[p] \in Boots /\ Relies(p)' /\ Holds(p)'
    <3>1. boot'[p] = [boot[p] EXCEPT !.late = @ \/ At(p, "exec")] /\ tmp' = tmp
      BY <1>2 DEF DamageLauncher
    <3>2. At(p, "exec") \in BOOLEAN
      BY DEF At
    <3>3. boot'[p] \in Boots
      BY <3>1, <3>2, Facts DEF Boots
    <3>4. /\ boot'[p].pc = boot[p].pc /\ boot'[p].cached = boot[p].cached
          /\ boot'[p].ran = boot[p].ran /\ boot'[p].why = boot[p].why
          /\ boot'[p].hollow = boot[p].hollow
      BY <3>1, Facts DEF Boots
    <3>5. boot'[p].late = (boot[p].late \/ At(p, "exec"))
      BY <3>1, Facts DEF Boots
    <3>6. ~boot'[p].late => ~boot[p].late /\ ~At(p, "exec")
      BY <3>5
    <3> QED
      BY <3>1, <3>3, <3>4, <3>6, Facts DEF Trusted, Relies, Holds, At
  <2>3. boot' \in [Procs -> Boots]
    BY <1>2, <2>2 DEF DamageLauncher
  <2>4. faults' \in 0..MaxFaults
    BY <1>2, FaultType DEF DamageLauncher
  <2>5. TypeOK'
    BY <1>2, <2>1, <2>3, <2>4 DEF DamageLauncher, Inv, TypeOK, Boots, Files
  <2> QED
    BY <2>2, <2>5 DEF Inv
<1>3. CASE DamageSignature
  <2>1. sig' \in Signatures \cup {None} /\ faults' \in 0..MaxFaults
    BY <1>3, FaultType DEF DamageSignature
  <2>2. TypeOK'
    BY <1>3, <2>1 DEF DamageSignature, Inv, TypeOK
  <2>3. ASSUME NEW p \in Procs PROVE Relies(p)' /\ Holds(p)'
    BY <1>3, Facts, Bystander DEF DamageSignature
  <2> QED
    BY <2>2, <2>3 DEF Inv
<1> QED
  BY <1>1, <1>2, <1>3

LEMMA NextInv == Inv /\ [Next]_vars => Inv'
<1> SUFFICES ASSUME Inv, [Next]_vars PROVE Inv'
  OBVIOUS
<1>1. ASSUME NEW p \in Procs, Step(p) PROVE Inv'
  BY <1>1, BeforeTheCheck, Verifying, Evicting, Fetching, Moving, Executing DEF Step
<1>2. CASE UNCHANGED vars
  <2>1. TypeOK'
    BY <1>2 DEF Inv, TypeOK, vars
  <2>2. ASSUME NEW p \in Procs PROVE Relies(p)' /\ Holds(p)'
    BY <1>2, Facts, Bystander DEF vars
  <2> QED
    BY <2>1, <2>2 DEF Inv
<1> QED
  BY <1>1, <1>2, Environment DEF Next

LEMMA Invariant == Spec => []Inv
BY InitInv, NextInv, PTL DEF Spec

-----------------------------------------------------------------------------
(* Every reachable state has the declared types. *)
THEOREM TypeCorrect == Spec => []TypeOK
<1>1. Inv => TypeOK
  BY DEF Inv
<1> QED
  BY <1>1, Invariant, PTL

(* What an invocation executes was verified, however many there are and     *)
(* whatever they do to each other's files, unless somebody else wrote the   *)
(* launcher after its verdict, or the verdict, its own or that of whoever   *)
(* replaced the launcher after it, was given by an empty shim.              *)
THEOREM OnlyVerifiedRuns == Spec => []ExecVerified
<1>1. Inv => ExecVerified
  BY DEF Inv, Trusted, Relies, ExecVerified
<1> QED
  BY <1>1, Invariant, PTL

(* No step of the script puts anything unverified under the launcher's      *)
(* name, but on the verdict of an empty shim.                               *)
THEOREM OnlyVerifiedPublished == Spec => PublishesVerified
<1> DEFINE Fine == \A p \in Procs : boot'[p].pc # boot[p].pc /\ ~boot[p].hollow =>
                      launcher'.body \in {launcher.body, None} \cup Genuine
<1>1. ASSUME Inv, [Next]_vars PROVE Fine
  <2>1. ASSUME NEW p \in Procs, MoveBinary(p) PROVE Fine
    <3>1. CASE boot[p].hollow
      <4>1. ASSUME NEW q \in Procs \ {p} PROVE boot'[q].pc = boot[q].pc
        <5>1. CASE Fail(p, "move")
          BY <1>1, <5>1, Facts DEF Fail
        <5>2. CASE boot' = [r \in Procs |-> [boot[r] EXCEPT
                             !.pc = IF r = p THEN "exec" ELSE @,
                             !.hollow = @ \/ (boot[p].hollow /\ At(r, "exec"))]]
          BY <1>1, <5>2, Facts DEF Boots
        <5> QED
          BY <2>1, <5>1, <5>2 DEF MoveBinary
      <4> QED
        BY <3>1, <4>1
    <3>2. CASE ~boot[p].hollow
      BY <1>1, <2>1, <3>2, Facts DEF MoveBinary, Relies, At
    <3> QED
      BY <3>1, <3>2
  <2>2. CASE \E p \in Procs : EvictBinary(p)
    BY <2>2 DEF EvictBinary, Absent
  <2>3. CASE DamageLauncher
    <3>1. ASSUME NEW p \in Procs PROVE boot'[p].pc = boot[p].pc
      BY <1>1, <2>3, Facts DEF DamageLauncher, Boots
    <3> QED
      BY <3>1
  <2>4. CASE UNCHANGED launcher
    BY <2>4
  <2> QED
    BY <1>1, <2>1, <2>2, <2>3, <2>4
       DEF Next, vars, Step, Start, OpenShim, WriteSome, FinishCopy, ChmodShim, CheckCached,
           RunShim, ReadSignature, ReadTarget, EvictSignature, FetchBinary, FetchSignature,
           MoveSignature, EvictBinary, Exec, Kill, DamageSignature
<1>2. Inv /\ [Next]_vars => [Fine]_vars
  BY <1>1
<1> QED
  BY <1>2, Invariant, PTL DEF Spec, PublishesVerified

(* An invocation that ends by itself has removed its temporary files,       *)
(* unless one of the two moves failed.                                      *)
THEOREM NoTempsLeft == Spec => []TempsRemoved
<1>1. Inv => TempsRemoved
  BY DEF Inv, Holds, TempsRemoved
<1> QED
  BY <1>1, Invariant, PTL

-----------------------------------------------------------------------------
(* RestsUsable.  As long as nothing fails, what the cache lacks is being    *)
(* put there: an invocation is refused by a shim that is not runnable only  *)
(* while another one is copying it, and whoever copies has everything still *)
(* before it.                                                               *)
Served  == [body |-> Released[2], x |-> TRUE]
Waiting == {"start", "stage"}
Active  == {"copying", "chmod", "check", "shim", "readsig", "readbin", "evict",
            "evictsig", "fetchbin", "fetchsig", "movesig", "movebin"}

Untouched  == \A p \in Procs : boot[p].pc \in Waiting
Busy(b)    == b.pc \in Active
Refills(b) == Busy(b) /\ b.pc # "movebin" /\ (b.pc = "readbin" => ~b.cached)

Fetched(b, t) ==
    /\ b.pc # "killed"
    /\ b.pc = "fetchsig" => t.bin.body = Released[2]
    /\ b.pc = "movesig" \/ (b.pc \in {"shim"} \cup Running /\ ~b.cached) =>
          t.bin = Served /\ t.sig = Released[1]
    /\ b.pc = "movebin" => t.bin = Served
    /\ b.pc = "readbin" => b.sig = Released[1]

ShimComes ==
    /\ shim.at = "none" => Untouched
    /\ shim.at \in {"empty", "torn"} => shim.last \in Copying

PairComes ==
    /\ launcher \in {Absent, Served} /\ sig \in {None, Released[1]}
    /\ sig = None => Untouched \/ \E p \in Procs : Refills(boot[p])
    /\ launcher = Absent => Untouched \/ \E p \in Procs : Busy(boot[p])
    /\ \/ Untouched
       \/ \E p \in Procs : Busy(boot[p]) \/ boot[p].pc \in {"exec", "launched"}

Calm == faults = 0 => /\ ShimComes
                      /\ PairComes
                      /\ \A p \in Procs : Fetched(boot[p], tmp[p])

LEMMA ServedFacts ==
  /\ Released[1] \in Signatures /\ Released[2] \in Binaries
  /\ Released[1] # None /\ Released[2] # None
  /\ <<Released[1], Released[2]>> \in Accepts
  /\ Absent # Served /\ Served.body = Released[2] /\ Served.x /\ ~Absent.x
  /\ Absent.body = None
<1>1. /\ Released[1] \in Signatures /\ Released[2] \in Binaries
      /\ <<Released[1], Released[2]>> \in Accepts
  BY BootstrapAssumption
<1> QED
  BY <1>1, BootstrapAssumption DEF Served, Absent

LEMMA InitCalm == Init => Calm
<1> SUFFICES ASSUME Init PROVE Calm
  OBVIOUS
<1>1. Untouched /\ \A p \in Procs : boot[p].pc = "start"
  BY DEF Init, Untouched, Waiting
<1>2. ShimComes
  BY <1>1 DEF Init, ShimComes
<1>3. PairComes
  BY <1>1 DEF Init, PairComes, Served
<1>4. \A p \in Procs : Fetched(boot[p], tmp[p])
  BY <1>1 DEF Fetched, Running
<1> QED
  BY <1>2, <1>3, <1>4 DEF Calm

(* While nothing fails, a shim that does not run is being copied. *)
LEMMA Copier ==
  ASSUME Inv, ShimComes, ~ShimRunnable, ~Untouched
  PROVE  Copying # {}
BY DEF Inv, TypeOK, ShimComes, ShimRunnable

(* A step of p, which leaves the others alone, keeps what is on its way     *)
(* coming: p does, or another one copies the shim, or p had no part in it.  *)
Alike(b, c) == b.pc = c.pc /\ b.cached = c.cached /\ b.sig = c.sig

LEMMA CalmStep ==
  ASSUME Inv, Calm, faults = 0, NEW p \in Procs, NEW b, NEW t,
         \/ boot' = [boot EXCEPT ![p] = b]
         \/ boot'[p] = b /\ \A q \in Procs \ {p} : Alike(boot'[q], boot[q]),
         b.pc \notin Waiting,
         tmp' = [tmp EXCEPT ![p] = t],
         ShimComes', Fetched(b, t),
         launcher' \in {Absent, Served}, sig' \in {None, Released[1]},
         \/ sig' # None
         \/ Refills(b)
         \/ \E q \in Procs \ {p} : At(q, "copying")
         \/ sig = None /\ ~Untouched /\ ~Refills(boot[p]),
         \/ launcher' # Absent
         \/ Busy(b)
         \/ \E q \in Procs \ {p} : Busy(boot[q])
         \/ launcher = Absent /\ ~Untouched /\ ~Busy(boot[p]),
         \/ Busy(b)
         \/ b.pc \in {"exec", "launched"}
         \/ \E q \in Procs \ {p} : Busy(boot[q])
         \/ launcher = Absent /\ ~Untouched /\ ~Busy(boot[p])
  PROVE  Calm'
<1>1. boot \in [Procs -> Boots] /\ tmp \in [Procs -> Temps]
  BY Facts
<1>2. /\ \A q \in Procs \ {p} : Alike(boot'[q], boot[q]) /\ tmp'[q] = tmp[q]
      /\ boot'[p] = b /\ tmp'[p] = t
  BY <1>1 DEF Alike
<1>3. \A q \in Procs : At(q, "copying") => Refills(boot[q]) /\ Busy(boot[q])
  BY DEF At, Refills, Busy, Active
<1>4. \A q \in Procs : Fetched(boot'[q], tmp'[q])
  BY <1>2 DEF Calm, Fetched, Alike
<1>9. \A q \in Procs \ {p} : /\ Refills(boot'[q]) <=> Refills(boot[q])
                             /\ Busy(boot'[q]) <=> Busy(boot[q])
                             /\ boot'[q].pc = boot[q].pc
  BY <1>2 DEF Refills, Busy, Alike
<1>5. sig' = None => \E q \in Procs : Refills(boot'[q])
  BY <1>2, <1>3, <1>9 DEF Calm, PairComes
<1>6. launcher' = Absent => \E q \in Procs : Busy(boot'[q])
  BY <1>2, <1>9 DEF Calm, PairComes
<1>7. \E q \in Procs : Busy(boot'[q]) \/ boot'[q].pc \in {"exec", "launched"}
  BY <1>2, <1>9 DEF Calm, PairComes
<1>8. PairComes'
  BY <1>5, <1>6, <1>7 DEF PairComes
<1> QED
  BY <1>4, <1>8 DEF Calm

LEMMA NoFault ==
  ASSUME faults = 0, faults' = 0
  PROVE  ~Fault
BY DEF Fault

LEMMA CalmBefore ==
  ASSUME Inv, Calm, faults = 0, faults' = 0, NEW p \in Procs,
         \/ Start(p) \/ OpenShim(p) \/ WriteSome(p) \/ FinishCopy(p)
         \/ ChmodShim(p) \/ CheckCached(p)
  PROVE  Calm'
<1> USE NoFault
<1>1. /\ ShimComes /\ PairComes /\ Fetched(boot[p], tmp[p])
      /\ boot \in [Procs -> Boots] /\ tmp \in [Procs -> Temps]
  BY Facts DEF Calm
<1>2. CASE Start(p)
  <2>1. Goto(p, "stage") /\ boot[p].pc = "start" /\ UNCHANGED <<shim, launcher, sig, tmp>>
    BY <1>2 DEF Start, At
  <2>2. /\ \A q \in Procs \ {p} : boot'[q] = boot[q]
        /\ boot'[p] = [boot[p] EXCEPT !.pc = "stage"]
    BY <1>1, <2>1 DEF Goto
  <2>3. boot'[p].pc = "stage" /\ boot[p] \in Boots
    BY <1>1, <2>2 DEF Boots
  <2>4. ~Busy(boot[p]) /\ ~Refills(boot[p]) /\ boot[p].pc \notin {"exec", "launched", "copying"}
    BY <2>1 DEF Busy, Refills, Active
  <2>5. Untouched => Untouched'
    BY <2>2, <2>3 DEF Untouched, Waiting
  <2>6. ShimComes'
    BY <1>1, <2>1, <2>2, <2>4, <2>5 DEF ShimComes, Copying, At
  <2>7. PairComes'
    <3>1. Untouched \/ \E q \in Procs \ {p} : Busy(boot[q]) \/ boot[q].pc \in {"exec", "launched"}
      BY <1>1, <2>4 DEF PairComes
    <3>2. sig = None => Untouched \/ \E q \in Procs \ {p} : Refills(boot[q])
      BY <1>1, <2>4 DEF PairComes
    <3>3. launcher = Absent => Untouched \/ \E q \in Procs \ {p} : Busy(boot[q])
      BY <1>1, <2>4 DEF PairComes
    <3> QED
      BY <1>1, <2>1, <2>2, <2>5, <3>1, <3>2, <3>3 DEF PairComes
  <2>8. Fetched(boot'[p], tmp'[p])
    BY <2>3 DEF Fetched, Running
  <2>9. \A q \in Procs : Fetched(boot'[q], tmp'[q])
    BY <2>1, <2>2, <2>8 DEF Calm
  <2> QED
    BY <2>6, <2>7, <2>9 DEF Calm
<1>3. CASE OpenShim(p)
  <2>1. CASE shim' = [at |-> "empty", last |-> p] /\ Goto(p, "copying")
    <3> DEFINE b == [boot[p] EXCEPT !.pc = "copying"]
    <3>1. boot' = [boot EXCEPT ![p] = b] /\ boot'[p] = b /\ b.pc = "copying"
      BY <1>1, <2>1 DEF Goto, Boots
    <3>2. tmp' = [tmp EXCEPT ![p] = tmp[p]]
      BY <1>1, <1>3 DEF OpenShim
    <3> HIDE DEF b
    <3>3. ShimComes'
      BY <2>1, <3>1 DEF ShimComes, Copying, At
    <3>4. Fetched(b, tmp[p]) /\ Busy(b) /\ Refills(b) /\ b.pc \notin Waiting
      BY <3>1 DEF Fetched, Running, Busy, Refills, Active, Waiting
    <3>5. launcher' \in {Absent, Served} /\ sig' \in {None, Released[1]}
      BY <1>1, <1>3 DEF OpenShim, PairComes
    <3> QED
      BY <3>1, <3>2, <3>3, <3>4, <3>5, CalmStep
  <2>2. CASE (ShimInUse \/ Copying # {}) /\ Fail(p, "stage") /\ UNCHANGED shim
    <3> DEFINE b == [boot[p] EXCEPT !.pc = "failed", !.why = "stage"]
    <3>1. boot' = [boot EXCEPT ![p] = b] /\ boot'[p] = b /\ b.pc = "failed"
      BY <1>1, <2>2 DEF Fail, Boots
    <3>2. tmp' = [tmp EXCEPT ![p] = tmp[p]]
      BY <1>1, <1>3 DEF OpenShim
    <3> HIDE DEF b
    <3>3. PICK q \in Procs : boot[q].pc \in Running \cup {"copying"}
      BY <2>2 DEF ShimInUse, Copying, At
    <3>4. q # p /\ Busy(boot[q]) /\ ~Untouched
      BY <1>3, <3>3 DEF OpenShim, At, Running, Busy, Active, Untouched, Waiting
    <3>5. ShimComes'
      <4>1. Copying \subseteq Copying'
        BY <1>1, <1>3, <3>1 DEF OpenShim, Copying, At
      <4> QED
        BY <1>1, <2>2, <3>4, <4>1 DEF ShimComes
    <3>6. Fetched(b, tmp[p]) /\ b.pc \notin Waiting
      BY <3>1 DEF Fetched, Running, Waiting
    <3>7. ~Busy(boot[p]) /\ ~Refills(boot[p])
      BY <1>3 DEF OpenShim, At, Busy, Refills, Active
    <3>8. UNCHANGED <<launcher, sig>>
      BY <1>3 DEF OpenShim
    <3> QED
      BY <1>1, <3>1, <3>2, <3>4, <3>5, <3>6, <3>7, <3>8, CalmStep DEF PairComes
  <2> QED
    BY <1>3, <2>1, <2>2 DEF OpenShim
<1>4. CASE FinishCopy(p)
  <2> DEFINE b == [boot[p] EXCEPT !.pc = "chmod"]
  <2>7. Goto(p, "chmod")
    BY <1>4 DEF FinishCopy
  <2>1. boot' = [boot EXCEPT ![p] = b] /\ boot'[p] = b /\ b.pc = "chmod"
    BY <1>1, <2>7 DEF Goto, Boots
  <2>2. tmp' = [tmp EXCEPT ![p] = tmp[p]]
    BY <1>1, <1>4 DEF FinishCopy
  <2> HIDE DEF b
  <2>3. ~Untouched
    BY <1>4 DEF FinishCopy, Untouched, At, Waiting
  <2>4. ShimComes'
    <3>1. \/ shim.last = p /\ shim'.at = "whole"
          \/ shim.last # p /\ shim'.at \in {shim.at, "whole"} /\ shim'.last = shim.last
      BY <1>4, Facts DEF FinishCopy, Shims
    <3>2. shim.last # p /\ shim.last \in Copying => shim.last \in Copying'
      BY <1>1, <2>1 DEF Copying, At
    <3> QED
      BY <1>1, <2>3, <3>1, <3>2 DEF ShimComes
  <2>5. Fetched(b, tmp[p]) /\ Busy(b) /\ Refills(b) /\ b.pc \notin Waiting
    BY <2>1 DEF Fetched, Running, Busy, Refills, Active, Waiting
  <2>6. launcher' \in {Absent, Served} /\ sig' \in {None, Released[1]}
    BY <1>1, <1>4 DEF FinishCopy, PairComes
  <2> QED
    BY <2>1, <2>2, <2>4, <2>5, <2>6, CalmStep
<1>5. CASE ChmodShim(p) \/ CheckCached(p)
  <2>1. PICK pc \in {"check", "shim", "evict"} : Goto(p, pc)
    BY <1>5 DEF ChmodShim, CheckCached
  <2> DEFINE b == [boot[p] EXCEPT !.pc = pc]
  <2>2. boot' = [boot EXCEPT ![p] = b] /\ boot'[p] = b /\ b.pc = pc /\ b.cached = boot[p].cached
    BY <1>1, <2>1 DEF Goto, Boots
  <2>3. tmp' = [tmp EXCEPT ![p] = tmp[p]] /\ UNCHANGED <<shim, launcher, sig>>
    BY <1>1, <1>5 DEF ChmodShim, CheckCached
  <2> HIDE DEF b
  <2>4. ~Untouched /\ boot[p].pc # "copying" /\ boot[p].cached
    BY <1>5, Facts DEF ChmodShim, CheckCached, Untouched, At, Waiting, Holds, Unfetched
  <2>5. ShimComes'
    <3>1. Copying \subseteq Copying'
      BY <1>1, <2>2, <2>4 DEF Copying, At
    <3> QED
      BY <1>1, <2>3, <2>4, <3>1 DEF ShimComes
  <2>6. Fetched(b, tmp[p]) /\ Busy(b) /\ Refills(b) /\ b.pc \notin Waiting
    BY <2>2, <2>4 DEF Fetched, Running, Busy, Refills, Active, Waiting
  <2>7. launcher' \in {Absent, Served} /\ sig' \in {None, Released[1]}
    BY <1>1, <2>3 DEF PairComes
  <2> QED
    BY <2>2, <2>3, <2>5, <2>6, <2>7, CalmStep
<1>6. CASE WriteSome(p)
  <2>1. /\ UNCHANGED <<launcher, sig, tmp, boot>> /\ shim.at = "empty" /\ ~Untouched
        /\ shim'.at = "torn" /\ shim'.last = shim.last
    BY <1>6, Facts DEF WriteSome, Shims, Untouched, At, Waiting
  <2>2. ShimComes'
    BY <1>1, <2>1 DEF ShimComes, Copying, At, Untouched
  <2>3. PairComes'
    BY <1>1, <2>1 DEF PairComes, Untouched
  <2> QED
    BY <2>1, <2>2, <2>3 DEF Calm
<1> QED
  BY <1>2, <1>3, <1>4, <1>5, <1>6

LEMMA ShimStays ==
  ASSUME Inv, ShimComes, NEW p \in Procs, boot[p].pc \notin Waiting \cup {"copying"},
         NEW b, boot' = [boot EXCEPT ![p] = b], UNCHANGED shim
  PROVE  ShimComes'
<1>1. Copying \subseteq Copying'
  BY Facts DEF Copying, At
<1> QED
  BY <1>1 DEF ShimComes, Untouched

LEMMA CalmNotVerified ==
  ASSUME Inv, Calm, faults = 0, NEW p \in Procs, NotVerified(p),
         boot[p].pc \in {"shim"} \cup Running, boot[p].cached \/ ~ShimRunnable,
         UNCHANGED <<shim, launcher, sig, faults>>
  PROVE  Calm'
<1>1. /\ ShimComes /\ PairComes
      /\ boot \in [Procs -> Boots] /\ tmp \in [Procs -> Temps]
  BY Facts DEF Calm
<1>2. boot[p].pc \notin Waiting \cup {"copying"} /\ ~Untouched
  BY DEF Running, Waiting, Untouched
<1>3. launcher' \in {Absent, Served} /\ sig' \in {None, Released[1]}
  BY <1>1 DEF PairComes
<1>4. CASE boot[p].cached
  <2> DEFINE b == [boot[p] EXCEPT !.pc = "evict"]
  <2>1. /\ boot' = [boot EXCEPT ![p] = b] /\ b.pc = "evict" /\ b.cached
        /\ tmp' = [tmp EXCEPT ![p] = tmp[p]]
    BY <1>1, <1>4 DEF NotVerified, Goto, Boots
  <2> HIDE DEF b
  <2>2. ShimComes'
    BY <1>1, <1>2, <2>1, ShimStays
  <2>3. Fetched(b, tmp[p]) /\ Busy(b) /\ Refills(b) /\ b.pc \notin Waiting
    BY <2>1 DEF Fetched, Running, Busy, Refills, Active, Waiting
  <2> QED
    BY <1>3, <2>1, <2>2, <2>3, CalmStep
<1>5. CASE ~boot[p].cached
  <2> DEFINE b == [boot[p] EXCEPT !.pc = "failed", !.why = "fetch"]
  <2>1. /\ boot' = [boot EXCEPT ![p] = b] /\ b.pc = "failed"
        /\ tmp' = [tmp EXCEPT ![p] = NoTemps]
    <3>1. Fail(p, "fetch") /\ tmp' = [tmp EXCEPT ![p] = NoTemps]
      BY <1>5 DEF NotVerified
    <3>2. b.pc = "failed"
      BY <1>1 DEF Boots
    <3>3. boot' = [boot EXCEPT ![p] = b]
      BY <1>1, <3>1 DEF Fail
    <3> QED
      BY <3>1, <3>2, <3>3
  <2> HIDE DEF b
  <2>2. ShimComes'
    BY <1>1, <1>2, <2>1, ShimStays
  <2>3. Fetched(b, NoTemps) /\ b.pc \notin Waiting
    BY <2>1 DEF Fetched, Running, Waiting
  <2>4. PICK q \in Copying : TRUE
    BY <1>1, <1>2, <1>5, Copier
  <2>5. q \in Procs \ {p} /\ At(q, "copying") /\ Busy(boot[q])
    BY <1>2, <2>4 DEF Copying, At, Busy, Active
  <2> QED
    BY <1>3, <2>1, <2>2, <2>3, <2>5, CalmStep
<1> QED
  BY <1>4, <1>5

LEMMA CalmVerifying ==
  ASSUME Inv, Calm, faults = 0, NEW p \in Procs,
         RunShim(p) \/ ReadSignature(p) \/ ReadTarget(p)
  PROVE  Calm'
<1>1. /\ ShimComes /\ PairComes /\ Fetched(boot[p], tmp[p])
      /\ boot \in [Procs -> Boots] /\ tmp \in [Procs -> Temps]
      /\ boot[p] \in Boots
  BY Facts DEF Calm
<1>2. /\ boot[p].pc \in {"shim"} \cup Running /\ ~Untouched
      /\ boot[p].pc \notin Waiting \cup {"copying"}
      /\ UNCHANGED <<shim, launcher, sig, faults>>
  BY DEF RunShim, ReadSignature, ReadTarget, At, Running, Waiting, Untouched
<1>3. launcher' \in {Absent, Served} /\ sig' \in {None, Released[1]}
  BY <1>1, <1>2 DEF PairComes
<1>4. ~boot[p].cached => tmp[p].bin = Served /\ tmp[p].sig = Released[1]
  BY <1>1, <1>2 DEF Fetched
<1>5. CASE NotVerified(p) /\ (boot[p].cached \/ ~ShimRunnable)
  BY <1>2, <1>5, CalmNotVerified
<1>6. CASE RunShim(p) /\ Goto(p, "readsig") /\ UNCHANGED tmp
  <2> DEFINE b == [boot[p] EXCEPT !.pc = "readsig"]
  <2>1. /\ boot' = [boot EXCEPT ![p] = b] /\ b.pc = "readsig" /\ b.cached = boot[p].cached
        /\ tmp' = [tmp EXCEPT ![p] = tmp[p]]
    BY <1>1, <1>6 DEF Goto, Boots
  <2> HIDE DEF b
  <2>2. ShimComes'
    BY <1>1, <1>2, <2>1, ShimStays
  <2>3. Fetched(b, tmp[p]) /\ Busy(b) /\ Refills(b) /\ b.pc \notin Waiting
    BY <1>4, <2>1 DEF Fetched, Busy, Refills, Active, Waiting
  <2> QED
    BY <1>3, <2>1, <2>2, <2>3, CalmStep
<1>7. CASE /\ ReadSignature(p) /\ PairSig(p) # None /\ UNCHANGED tmp
           /\ boot' = [boot EXCEPT ![p].pc = "readbin", ![p].sig = PairSig(p)]
  <2> DEFINE b == [boot[p] EXCEPT !.pc = "readbin", !.sig = PairSig(p)]
  <2>1. /\ boot' = [boot EXCEPT ![p] = b] /\ b.pc = "readbin" /\ b.cached = boot[p].cached
        /\ tmp' = [tmp EXCEPT ![p] = tmp[p]] /\ b.sig = PairSig(p)
    BY <1>1, <1>7 DEF Boots
  <2> HIDE DEF b
  <2>2. ShimComes'
    BY <1>1, <1>2, <2>1, ShimStays
  <2>3. PairSig(p) = Released[1] /\ (boot[p].cached => sig # None)
    BY <1>1, <1>4, <1>7 DEF PairSig, PairComes
  <2>4. Fetched(b, tmp[p]) /\ Busy(b) /\ (~b.cached => Refills(b)) /\ b.pc \notin Waiting
    BY <1>4, <2>1, <2>3 DEF Fetched, Busy, Refills, Active, Waiting
  <2>5. sig' # None \/ Refills(b)
    BY <1>2, <2>1, <2>3, <2>4
  <2> QED
    BY <1>3, <2>1, <2>2, <2>4, <2>5, CalmStep
<1>8. CASE /\ ReadTarget(p) /\ Verdict(boot[p].sig, PairBin(p)) /\ UNCHANGED tmp
           /\ Goto(p, IF boot[p].cached THEN "exec" ELSE "movesig")
  <2> DEFINE pc == IF boot[p].cached THEN "exec" ELSE "movesig"
             b == [boot[p] EXCEPT !.pc = pc]
  <2>1. /\ boot' = [boot EXCEPT ![p] = b] /\ b.pc = pc /\ b.cached = boot[p].cached
        /\ tmp' = [tmp EXCEPT ![p] = tmp[p]]
    BY <1>1, <1>8 DEF Goto, Boots
  <2> HIDE DEF b
  <2>2. ShimComes'
    BY <1>1, <1>2, <2>1, ShimStays
  <2>3. Fetched(b, tmp[p]) /\ b.pc \notin Waiting
    BY <1>4, <2>1 DEF Fetched, Running, Waiting
  <2>4. CASE boot[p].cached
    <3>1. launcher' # Absent
      BY <1>2, <1>8, <2>4, GenuineFacts, ServedFacts DEF Verdict, PairBin, Genuine
    <3>2. ~Refills(boot[p]) /\ b.pc = "exec"
      BY <1>8, <2>1, <2>4 DEF ReadTarget, At, Refills
    <3> QED
      BY <1>2, <1>3, <2>1, <2>2, <2>3, <3>1, <3>2, CalmStep
  <2>5. CASE ~boot[p].cached
    <3>1. Busy(b) /\ Refills(b)
      BY <2>1, <2>5 DEF Busy, Refills, Active
    <3> QED
      BY <1>3, <2>1, <2>2, <2>3, <3>1, CalmStep
  <2> QED
    BY <2>4, <2>5
<1>12. CASE RunShim(p) /\ shim.at = "empty" /\ Believed(p) /\ UNCHANGED tmp
  <2> DEFINE pc == IF boot[p].cached THEN "exec" ELSE "movesig"
             b == [boot[p] EXCEPT !.pc = pc, !.hollow = TRUE]
  <2>1. /\ boot' = [boot EXCEPT ![p] = b] /\ b.pc = pc /\ b.cached = boot[p].cached
        /\ tmp' = [tmp EXCEPT ![p] = tmp[p]]
    BY <1>1, <1>12 DEF Believed, Boots
  <2> HIDE DEF b
  <2>2. ShimComes'
    BY <1>1, <1>2, <2>1, ShimStays
  <2>3. Fetched(b, tmp[p]) /\ b.pc \notin Waiting
    BY <1>4, <2>1 DEF Fetched, Running, Waiting
  <2>4. shim.last \in Procs \ {p} /\ At(shim.last, "copying")
    BY <1>1, <1>2, <1>12 DEF ShimComes, Copying, At
  <2>5. Busy(boot[shim.last])
    BY <2>4 DEF At, Busy, Active
  <2> QED
    BY <1>3, <2>1, <2>2, <2>3, <2>4, <2>5, CalmStep
<1>9. CASE RunShim(p)
  BY <1>5, <1>6, <1>9, <1>12 DEF RunShim, ShimRunnable
<1>10. CASE ReadSignature(p)
  <2>1. ~boot[p].cached => PairSig(p) # None
    BY <1>4, ServedFacts DEF PairSig
  <2> QED
    BY <1>5, <1>7, <1>10, <2>1 DEF ReadSignature
<1>11. CASE ReadTarget(p)
  <2>1. ~boot[p].cached => Verdict(boot[p].sig, PairBin(p))
    BY <1>1, <1>4, <1>11, ServedFacts DEF PairBin, Verdict, ReadTarget, At, Fetched
  <2> QED
    BY <1>5, <1>8, <1>11, <2>1 DEF ReadTarget
<1> QED
  BY <1>9, <1>10, <1>11

LEMMA CalmRefilling ==
  ASSUME Inv, Calm, faults = 0, faults' = 0, NEW p \in Procs,
         \/ EvictBinary(p) \/ EvictSignature(p) \/ FetchBinary(p) \/ FetchSignature(p)
         \/ MoveSignature(p)
  PROVE  Calm'
<1>1. /\ ShimComes /\ PairComes /\ Fetched(boot[p], tmp[p]) /\ ~Fault
      /\ boot \in [Procs -> Boots] /\ tmp \in [Procs -> Temps]
      /\ boot[p] \in Boots /\ tmp[p] \in Temps
  BY Facts, NoFault DEF Calm
<1>2. boot[p].pc \notin Waiting \cup {"copying"} /\ UNCHANGED shim
  BY DEF EvictBinary, EvictSignature, FetchBinary, FetchSignature, MoveSignature, At, Waiting
<1>3. launcher \in {Absent, Served} /\ sig \in {None, Released[1]}
  BY <1>1 DEF PairComes
<1>4. CASE EvictBinary(p) \/ EvictSignature(p)
  <2> DEFINE pc == IF EvictBinary(p) THEN "evictsig" ELSE "fetchbin"
             b == boot'[p]
  <2>1. CASE EvictBinary(p)
    <3>1. /\ boot' = [boot EXCEPT ![p] = b] /\ b.pc = "evictsig"
          /\ tmp' = [tmp EXCEPT ![p] = tmp[p]]
      BY <1>1, <2>1 DEF EvictBinary, Goto, Boots
    <3>2. launcher' \in {Absent, Served} /\ sig' \in {None, Released[1]}
      BY <1>1, <1>3, <2>1 DEF EvictBinary
    <3> HIDE DEF b
    <3>3. ShimComes'
      BY <1>1, <1>2, <3>1, ShimStays
    <3>4. Fetched(b, tmp[p]) /\ Busy(b) /\ Refills(b) /\ b.pc \notin Waiting
      BY <3>1 DEF Fetched, Running, Busy, Refills, Active, Waiting
    <3> QED
      BY <3>1, <3>2, <3>3, <3>4, CalmStep
  <2>2. CASE EvictSignature(p)
    <3>1. /\ boot' = [boot EXCEPT ![p] = b] /\ b.pc = "fetchbin"
          /\ tmp' = [tmp EXCEPT ![p] = tmp[p]]
      BY <1>1, <2>2 DEF EvictSignature, Boots
    <3>2. launcher' \in {Absent, Served} /\ sig' \in {None, Released[1]}
      BY <1>1, <1>3, <2>2 DEF EvictSignature
    <3> HIDE DEF b
    <3>3. ShimComes'
      BY <1>1, <1>2, <3>1, ShimStays
    <3>4. Fetched(b, tmp[p]) /\ Busy(b) /\ Refills(b) /\ b.pc \notin Waiting
      BY <3>1 DEF Fetched, Running, Busy, Refills, Active, Waiting
    <3> QED
      BY <3>1, <3>2, <3>3, <3>4, CalmStep
  <2> QED
    BY <1>4, <2>1, <2>2
<1>5. CASE FetchBinary(p)
  <2> DEFINE b == [boot[p] EXCEPT !.pc = "fetchsig"]
             t == [tmp[p] EXCEPT !.bin = [body |-> Released[2], x |-> FALSE]]
  <2>1. /\ tmp' = [tmp EXCEPT ![p].bin = [body |-> Released[2], x |-> FALSE]]
        /\ Goto(p, "fetchsig") /\ UNCHANGED <<launcher, sig>>
    BY <1>1, <1>5 DEF FetchBinary
  <2>2. /\ boot' = [boot EXCEPT ![p] = b] /\ b.pc = "fetchsig"
        /\ tmp' = [tmp EXCEPT ![p] = t] /\ t.bin.body = Released[2]
    BY <1>1, <2>1 DEF Goto, Boots, Temps, Files
  <2> HIDE DEF b, t
  <2>3. ShimComes'
    BY <1>1, <1>2, <2>2, ShimStays
  <2>4. Fetched(b, t) /\ Busy(b) /\ Refills(b) /\ b.pc \notin Waiting
    BY <2>2 DEF Fetched, Running, Busy, Refills, Active, Waiting
  <2> QED
    BY <1>3, <2>1, <2>2, <2>3, <2>4, CalmStep
<1>6. CASE FetchSignature(p)
  <2> DEFINE b == [boot[p] EXCEPT !.pc = "shim"]
             t == [tmp[p] EXCEPT !.sig = Released[1], !.bin.x = TRUE]
  <2>1. /\ tmp' = [tmp EXCEPT ![p].sig = Released[1], ![p].bin.x = TRUE]
        /\ Goto(p, "shim") /\ UNCHANGED <<launcher, sig>>
    BY <1>1, <1>6 DEF FetchSignature
  <2>2. tmp[p].bin.body = Released[2]
    BY <1>1, <1>6 DEF FetchSignature, At, Fetched
  <2>3. /\ boot' = [boot EXCEPT ![p] = b] /\ b.pc = "shim"
        /\ tmp' = [tmp EXCEPT ![p] = t] /\ t.sig = Released[1] /\ t.bin = Served
    BY <1>1, <2>1, <2>2 DEF Goto, Boots, Temps, Files, Served
  <2> HIDE DEF b, t
  <2>4. ShimComes'
    BY <1>1, <1>2, <2>3, ShimStays
  <2>5. Fetched(b, t) /\ Busy(b) /\ Refills(b) /\ b.pc \notin Waiting
    BY <2>3 DEF Fetched, Running, Busy, Refills, Active, Waiting
  <2> QED
    BY <1>3, <2>1, <2>3, <2>4, <2>5, CalmStep
<1>7. CASE MoveSignature(p)
  <2> DEFINE b == [boot[p] EXCEPT !.pc = "movebin"]
             t == [tmp[p] EXCEPT !.sig = None]
  <2>1. /\ sig' = tmp[p].sig /\ tmp' = [tmp EXCEPT ![p].sig = None]
        /\ Goto(p, "movebin") /\ UNCHANGED launcher
    BY <1>1, <1>7 DEF MoveSignature
  <2>2. tmp[p].bin = Served /\ tmp[p].sig = Released[1]
    BY <1>1, <1>7 DEF MoveSignature, At, Fetched
  <2>3. /\ boot' = [boot EXCEPT ![p] = b] /\ b.pc = "movebin"
        /\ tmp' = [tmp EXCEPT ![p] = t] /\ t.bin = Served
    BY <1>1, <2>1, <2>2 DEF Goto, Boots, Temps
  <2> HIDE DEF b, t
  <2>4. ShimComes'
    BY <1>1, <1>2, <2>3, ShimStays
  <2>5. Fetched(b, t) /\ Busy(b) /\ b.pc \notin Waiting
    BY <2>3 DEF Fetched, Running, Busy, Active, Waiting
  <2>6. sig' # None
    BY <2>1, <2>2, ServedFacts
  <2> QED
    BY <1>3, <2>1, <2>2, <2>3, <2>4, <2>5, <2>6, CalmStep
<1> QED
  BY <1>4, <1>5, <1>6, <1>7

LEMMA CalmEnding ==
  ASSUME Inv, Calm, faults = 0, faults' = 0, NEW p \in Procs, MoveBinary(p) \/ Exec(p)
  PROVE  Calm'
<1>1. /\ ShimComes /\ PairComes /\ Fetched(boot[p], tmp[p]) /\ ~Fault
      /\ boot \in [Procs -> Boots] /\ tmp \in [Procs -> Temps]
      /\ boot[p] \in Boots /\ tmp[p] \in Temps
  BY Facts, NoFault DEF Calm
<1>2. /\ boot[p].pc \notin Waiting \cup {"copying"} /\ UNCHANGED <<shim, sig>>
      /\ ~Untouched /\ ~Refills(boot[p])
  BY DEF MoveBinary, Exec, At, Waiting, Untouched, Refills, Busy, Active
<1>3. launcher \in {Absent, Served} /\ sig \in {None, Released[1]}
  BY <1>1 DEF PairComes
<1>4. CASE MoveBinary(p)
  <2> DEFINE b == boot'[p]
             t == [tmp[p] EXCEPT !.bin = Absent]
  <2>1. /\ launcher' = tmp[p].bin /\ tmp' = [tmp EXCEPT ![p].bin = Absent]
        /\ boot' = [q \in Procs |-> [boot[q] EXCEPT
                      !.pc = IF q = p THEN "exec" ELSE @,
                      !.hollow = @ \/ (boot[p].hollow /\ At(q, "exec"))]]
    BY <1>1, <1>4 DEF MoveBinary
  <2>2. launcher' = Served
    BY <1>1, <1>4, <2>1 DEF MoveBinary, At, Fetched
  <2>3. /\ boot'[p] = b /\ b.pc = "exec" /\ tmp' = [tmp EXCEPT ![p] = t]
        /\ \A q \in Procs \ {p} : Alike(boot'[q], boot[q])
    BY <1>1, <2>1 DEF Boots, Temps, Alike
  <2> HIDE DEF b, t
  <2>4. ShimComes'
    <3>1. \A q \in Procs \ {p} : boot'[q].pc = boot[q].pc
      BY <2>3 DEF Alike
    <3>2. Copying \subseteq Copying'
      BY <1>2, <3>1 DEF Copying, At
    <3> QED
      BY <1>1, <1>2, <3>2 DEF ShimComes
  <2>5. Fetched(b, t) /\ b.pc \notin Waiting
    BY <2>3 DEF Fetched, Running, Waiting
  <2> QED
    BY <1>2, <1>3, <2>2, <2>3, <2>4, <2>5, ServedFacts, CalmStep
<1>5. CASE Exec(p)
  <2> DEFINE b == boot'[p]
  <2>1. /\ boot' = [boot EXCEPT ![p] = b] /\ tmp' = [tmp EXCEPT ![p] = tmp[p]]
        /\ b.pc \in {"launched", "failed"} /\ (launcher.x => b.pc = "launched")
    BY <1>1, <1>5 DEF Exec, Fail, Boots
  <2>2. launcher' = launcher
    BY <1>5 DEF Exec
  <2> HIDE DEF b
  <2>3. ShimComes'
    BY <1>1, <1>2, <2>1, ShimStays
  <2>4. Fetched(b, tmp[p]) /\ b.pc \notin Waiting
    BY <2>1 DEF Fetched, Running, Waiting
  <2>5. ~Busy(boot[p])
    BY <1>5 DEF Exec, At, Busy, Active
  <2> QED
    BY <1>2, <1>3, <2>1, <2>2, <2>3, <2>4, <2>5, ServedFacts, CalmStep
<1> QED
  BY <1>4, <1>5

LEMMA NextCalm == Inv /\ Calm /\ [Next]_vars => Calm'
<1> SUFFICES ASSUME Inv, Calm, [Next]_vars, faults' = 0 PROVE Calm'
  BY DEF Calm
<1>1. CASE UNCHANGED vars
  <2>1. ShimComes' = ShimComes
    BY <1>1 DEF vars, ShimComes, Untouched, Copying, At
  <2>2. PairComes' = PairComes
    BY <1>1 DEF vars, PairComes, Untouched
  <2> QED
    BY <1>1, <2>1, <2>2 DEF vars, Calm
<1>2. ASSUME NEW p \in Procs, Step(p) PROVE Calm'
  <2>1. faults = 0
    <3>1. Fault => faults = 0
      BY DEF Fault, Inv, TypeOK
    <3>2. Fault \/ UNCHANGED faults
      BY <1>2 DEF Step, Start, OpenShim, WriteSome, FinishCopy, ChmodShim, CheckCached,
           RunShim, ReadSignature, ReadTarget, EvictBinary, EvictSignature, FetchBinary,
         FetchSignature, MoveSignature, MoveBinary, Exec
    <3> QED
      BY <3>1, <3>2
  <2> QED
    BY <1>2, <2>1, CalmBefore, CalmVerifying, CalmRefilling, CalmEnding DEF Step
<1>3. ~Fault
  BY DEF Fault, Inv, TypeOK
<1> QED
  BY <1>1, <1>2, <1>3 DEF Next, Kill, DamageLauncher, DamageSignature

(* As long as nothing fails but the invocations each other, at rest one of  *)
(* them has launched and the cache holds the release's pair, runnable.      *)
THEOREM SomebodyLaunches == Spec => []RestsUsable
<1>1. ASSUME Inv, Calm PROVE RestsUsable
  <2> SUFFICES ASSUME faults = 0, NEW r \in Procs, boot[r].pc \in Ended,
                      \A p \in Procs : boot[p].pc \in Ended \cup {"start"}
               PROVE  /\ \E p \in Procs : At(p, "launched")
                      /\ <<sig, launcher.body>> \in Accepts /\ launcher.x
    BY DEF RestsUsable
  <2>1. PairComes /\ ~Untouched
    BY <1>1 DEF Calm, Untouched, Waiting, Ended
  <2>2. \A p \in Procs : ~Busy(boot[p]) /\ ~Refills(boot[p]) /\ boot[p].pc # "exec"
    BY DEF Busy, Refills, Active, Ended
  <2>3. sig = Released[1] /\ launcher = Served
    BY <2>1, <2>2 DEF PairComes
  <2>4. PICK p \in Procs : boot[p].pc = "launched"
    BY <2>1, <2>2 DEF PairComes
  <2> QED
    BY <2>3, <2>4, ServedFacts DEF At
<1>2. Spec => [](Inv /\ Calm)
  BY InitInv, NextInv, InitCalm, NextCalm, PTL DEF Spec
<1> QED
  BY <1>1, <1>2, PTL

-----------------------------------------------------------------------------
(* An invocation that has the cache to itself, and finds a verified pair in *)
(* it, on its way to the exec.                                              *)
Hit(p) ==
    /\ faults = MaxFaults
    /\ \A q \in Procs \ {p} : boot[q].pc \in Ended
    /\ launcher.x /\ <<sig, launcher.body>> \in Accepts
    /\ boot[p].cached
    /\ boot[p].pc \in {"stage", "copying", "chmod", "check", "shim", "readsig", "readbin",
                       "exec", "launched"}
    /\ At(p, "copying") => shim.last = p
    /\ boot[p].pc \in {"chmod", "check", "shim", "readsig", "readbin"} => shim.at = "whole"
    /\ At(p, "readbin") => boot[p].sig = sig

LEMMA HitStart ==
  ASSUME Inv, NEW p \in Procs, Alone(p), launcher.x, <<sig, launcher.body>> \in Accepts
  PROVE  Hit(p)
BY Facts DEF Alone, Hit, At, Holds, Unfetched

(* Its steps. *)
LEMMA HitStep ==
  ASSUME Inv, NEW p \in Procs, Hit(p), Step(p)
  PROVE  Hit(p)'
<1>0. /\ boot \in [Procs -> Boots] /\ ~Fault /\ launcher.x /\ sig # None
      /\ \A q \in Procs \ {p} : boot[q].pc \in Ended
      /\ shim \in Shims
  <2>1. sig # None
    BY BootstrapAssumption DEF Hit
  <2>2. ~Fault
    BY BootstrapAssumption DEF Hit, Fault
  <2> QED
    BY <2>1, <2>2, Facts DEF Hit
<1>1. \A q \in Procs \ {p} : /\ ~At(q, "copying") /\ boot[q].pc \notin Running
  BY <1>0 DEF At, Ended, Running
(* Whatever the step does to p's record, it does to no other's. *)
<1>2. ASSUME NEW b \in Boots, boot' = [boot EXCEPT ![p] = b], b.cached = boot[p].cached,
             b.pc \in {"stage", "copying", "chmod", "check", "shim", "readsig", "readbin",
                      "exec", "launched"},
             UNCHANGED <<launcher, sig, faults>>,
             b.pc = "copying" => shim'.last = p,
             b.pc \in {"chmod", "check", "shim", "readsig", "readbin"} => shim'.at = "whole",
             b.pc = "readbin" => b.sig = sig
      PROVE  Hit(p)'
  <2>1. boot'[p] = b /\ \A q \in Procs \ {p} : boot'[q] = boot[q]
    BY <1>0, <1>2
  <2> QED
    BY <1>0, <1>2, <2>1 DEF Hit, At
<1>3. ASSUME NEW pc \in Stages \ {"readbin"}, Goto(p, pc), UNCHANGED <<launcher, sig, faults>>,
             pc \in {"stage", "copying", "chmod", "check", "shim", "readsig", "readbin", "exec"},
             pc = "copying" => shim'.last = p,
             pc \in {"chmod", "check", "shim", "readsig"} => shim'.at = "whole"
      PROVE  Hit(p)'
  <2>1. PICK b \in Boots : /\ boot' = [boot EXCEPT ![p] = b] /\ b.pc = pc
                           /\ b.cached = boot[p].cached
    BY <1>3, GotoFacts
  <2> QED
    BY <1>2, <1>3, <2>1
<1>4. {"copying", "chmod", "check", "shim", "readsig", "exec"} \subseteq Stages \ {"readbin"}
  BY DEF Stages, Running, Ended
<1>5. CASE OpenShim(p)
  <2>1. ~ShimInUse /\ Copying = {}
    BY <1>1, <1>5 DEF OpenShim, ShimInUse, Copying, At, Running
  <2>2. /\ shim' = [at |-> "empty", last |-> p] /\ Goto(p, "copying")
        /\ UNCHANGED <<launcher, sig, faults>>
    BY <1>0, <1>5, <2>1 DEF OpenShim
  <2> QED
    BY <1>3, <1>4, <2>2
<1>6. CASE FinishCopy(p)
  <2>1. shim.last = p
    BY <1>6 DEF FinishCopy, Hit
  <2>2. shim' = [shim EXCEPT !.at = "whole"] /\ Goto(p, "chmod")
        /\ UNCHANGED <<launcher, sig, faults>>
    BY <1>0, <1>6, <2>1 DEF FinishCopy
  <2>3. shim'.at = "whole"
    BY <1>0, <2>2 DEF Shims
  <2> QED
    BY <1>3, <1>4, <2>2, <2>3
<1>7. CASE ChmodShim(p)
  <2>1. Goto(p, "check") /\ shim.at = "whole" /\ UNCHANGED <<shim, launcher, sig, faults>>
    BY <1>0, <1>7 DEF ChmodShim, Hit, At
  <2> QED
    BY <1>3, <1>4, <2>1
<1>8. CASE CheckCached(p)
  <2>1. Goto(p, "shim") /\ shim.at = "whole" /\ UNCHANGED <<shim, launcher, sig, faults>>
    BY <1>0, <1>8 DEF CheckCached, Hit, At
  <2> QED
    BY <1>3, <1>4, <2>1
<1>9. CASE RunShim(p)
  <2>1. shim.at = "whole" /\ Copying = {}
    BY <1>1, <1>9 DEF RunShim, Hit, At, Copying
  <2>2. Goto(p, "readsig") /\ UNCHANGED <<shim, launcher, sig, faults>>
    BY <1>9, <2>1 DEF RunShim
  <2> QED
    BY <1>3, <1>4, <2>1, <2>2
<1>10. CASE ReadSignature(p)
  <2>1. shim.at = "whole" /\ Copying = {} /\ PairSig(p) = sig
    BY <1>1, <1>10 DEF ReadSignature, Hit, At, Copying, PairSig
  <2>2. /\ boot' = [boot EXCEPT ![p].pc = "readbin", ![p].sig = sig]
        /\ UNCHANGED <<shim, launcher, sig, faults>>
    BY <1>0, <1>10, <2>1 DEF ReadSignature, ShimRunnable
  <2> DEFINE b == [boot[p] EXCEPT !.pc = "readbin", !.sig = sig]
  <2>3. b \in Boots /\ boot' = [boot EXCEPT ![p] = b]
    BY <1>0, <2>2, Facts DEF Boots, Stages, Running
  <2>4. b.pc = "readbin" /\ b.sig = sig /\ b.cached = boot[p].cached
    BY <1>0 DEF Boots
  <2> QED
    BY <1>2, <2>1, <2>2, <2>3, <2>4
<1>11. CASE ReadTarget(p)
  <2>1. shim.at = "whole" /\ Copying = {} /\ boot[p].cached
        /\ Verdict(boot[p].sig, PairBin(p))
    BY <1>1, <1>11 DEF ReadTarget, Hit, At, Copying, PairBin, Verdict
  <2>2. Goto(p, "exec") /\ UNCHANGED <<shim, launcher, sig, faults>>
    BY <1>11, <2>1 DEF ReadTarget, ShimRunnable
  <2> QED
    BY <1>3, <1>4, <2>2
<1>12. CASE Exec(p)
  <2> DEFINE b == [boot[p] EXCEPT !.pc = "launched", !.ran = launcher.body]
  <2>1. boot' = [boot EXCEPT ![p] = b] /\ UNCHANGED <<launcher, sig, faults>>
    BY <1>0, <1>12 DEF Exec
  <2>2. b \in Boots /\ b.pc = "launched" /\ b.cached = boot[p].cached
    BY <1>0, Facts DEF Boots, Stages, Ended, Files
  <2> QED
    BY <1>2, <2>1, <2>2
<1>13. ~(Start(p) \/ EvictBinary(p) \/ EvictSignature(p) \/ FetchBinary(p)
         \/ FetchSignature(p) \/ MoveSignature(p) \/ MoveBinary(p))
  BY DEF Start, EvictBinary, EvictSignature, FetchBinary, FetchSignature, MoveSignature,
         MoveBinary, At, Hit
<1>14. CASE WriteSome(p)
  BY <1>0, <1>14, Facts DEF WriteSome, Hit, At, Shims
<1> QED
  BY <1>14, <1>5, <1>6, <1>7, <1>8, <1>9, <1>10, <1>11, <1>12, <1>13 DEF Step

(* Nobody else takes one. *)
LEMMA HitStays ==
  ASSUME Inv, NEW p \in Procs, Hit(p), [Next]_vars
  PROVE  Hit(p)'
<1>1. ~Fault
  BY BootstrapAssumption DEF Hit, Fault
<1>2. ASSUME NEW q \in Procs \ {p}, Step(q) PROVE FALSE
  <2>1. boot[q].pc \in {"launched", "failed", "killed"}
    BY <1>2 DEF Hit, Ended
  <2> QED
    BY <1>2, <2>1
       DEF Step, At, Start, OpenShim, WriteSome, FinishCopy, ChmodShim, CheckCached,
           RunShim, ReadSignature, ReadTarget, EvictBinary, EvictSignature, FetchBinary,
           FetchSignature, MoveSignature, MoveBinary, Exec
<1>3. CASE UNCHANGED vars
  BY <1>3 DEF vars, Hit, At
<1> QED
  BY <1>1, <1>2, <1>3, HitStep DEF Next, Kill, DamageLauncher, DamageSignature

(* With a verified pair in the cache and the cache to itself, an invocation *)
(* never comes to fetch.                                                    *)
THEOREM HitsStayOffline == Spec => HitNeedsNoNetwork
<1>1. ASSUME NEW p \in Procs
      PROVE  Spec => [](Alone(p) /\ launcher.x /\ <<sig, launcher.body>> \in Accepts
                          => [](~At(p, "fetchbin")))
  <2>1. Inv /\ Alone(p) /\ launcher.x /\ <<sig, launcher.body>> \in Accepts => Hit(p)
    BY HitStart
  <2>2. Inv /\ Hit(p) /\ [Next]_vars => Hit(p)'
    BY HitStays
  <2>3. Hit(p) => ~At(p, "fetchbin")
    BY DEF Hit, At
  <2> QED
    BY <2>1, <2>2, <2>3, Invariant, PTL DEF Spec
<1> QED
  BY <1>1 DEF HitNeedsNoNetwork
=============================================================================
