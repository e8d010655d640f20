---------------------------- MODULE LauncherProofs ----------------------------
(***************************************************************************)
(* Proofs about Launcher, for every command line, environment, document    *)
(* and set of usable directories, and any number of attempts and           *)
(* redirects.                                                              *)
(***************************************************************************)
EXTENDS Launcher, PromptProofs, DiscoveryProofs, TLAPS

(* Where an invocation of each kind can be once it is dispatched. *)
Stages(command) ==
    CASE command = "version" -> {"Version", "Ended"}
      [] command = "config" -> {"Config", "Ended"}
      [] command \in Prompts -> {"Project", "Name", "Skill", "Print", "Explain", "Ended"}
      [] command = "help" -> {"Manifest", "Signature", "Ended"}
      [] command = "external" -> {"Root", "Manifest", "Signature", "Asset", "Exec",
                                  "Replaced", "Ended"}
      [] OTHER -> {}

Local == call = "Idle" /\ root = NoRoot /\ reason = NoReason

(* Nothing is resolved before the command line is, and by no built-in. *)
OnPath ==
    /\ parsed => pc \in Stages(request.command)
    /\ ~parsed => pc \in {"Boot", "Parse", "Ended"} /\ Local
    /\ request.command \notin {"external", "help"} => Local

(* What is counted is what was spoilt, while the URL is one that is tried. *)
Counted ==
    /\ secure /\ call # "Idle" => attempt = faults
    /\ call \in Busy => secure /\ attempt < MaxAttempts
    /\ secure /\ call = "Unreachable" => attempt = MaxAttempts

(* The first of at most two directories in which a probe succeeds. *)
Choice(dirs, in) ==
    IF Len(dirs) >= 1 /\ dirs[1] \in in THEN dirs[1]
    ELSE IF Len(dirs) = 2 /\ dirs[2] \in in THEN dirs[2] ELSE NoRoot

(* While directories stay as they are, each search ends where it would have *)
(* ended had it looked at all of them at once.                              *)
Chosen ==
    /\ bootRoot # NoRoot => env["plugin"]
    /\ pc = "Boot" => env["plugin"] /\ root = NoRoot
    /\ changes = 0 =>
        /\ bootRoot # NoRoot => bootRoot = Choice(BootCandidates(env), usable)
        /\ pc = "Boot" /\ bootRoot = NoRoot =>
              Choice(candidates, usable) = Choice(BootCandidates(env), usable)
        /\ root # NoRoot => root = Choice(LaunchCandidates(env), usable)
        /\ pc = "Root" /\ root = NoRoot =>
              Choice(candidates, usable) = Choice(LaunchCandidates(env), usable)
        /\ reason = "CacheRootUnavailable" /\ root = NoRoot =>
              Choice(LaunchCandidates(env), usable) = NoRoot

(* A prompt prints what it is asked for; nothing else prints like one, and  *)
(* what ends well before it is parsed asks for nothing.                     *)
Spoken ==
    /\ parsed /\ request.command \in Prompts => PromptInv
    /\ ~parsed \/ request.command \notin Prompts => Quiet
    /\ ~parsed /\ pc = "Ended" /\ exit = 0 => request.command = "usage"

Builtin == Version \/ LocateConfig \/ Config

Typed ==
    /\ FetchTypeOK
    /\ DiscoveryTypeOK
    /\ request \in Requests
    /\ team \in Found \cup {NotRead}
    /\ project \in Sections /\ skill \in Sections
    /\ exit \in {0, 1, 2, Panic}
    /\ env \in Environments /\ usable \subseteq Directories /\ changes \in 0..MaxChanges
    /\ bootRoot \in Directories \cup {NoRoot} /\ root \in Directories \cup {NoRoot}
    /\ candidates \in Seq(Directories) /\ Len(candidates) <= 2
    /\ parsed \in BOOLEAN
    /\ reason \in ResolutionErrors \cup {NoReason}

Inv == Typed /\ OnPath /\ Counted /\ Chosen /\ FailSafe /\ Spoken /\ Placed

-----------------------------------------------------------------------------
LEMMA CandidateFacts ==
  ASSUME NEW e \in [Variables -> BOOLEAN]
  PROVE  /\ BootCandidates(e) \in Seq(Directories) /\ Len(BootCandidates(e)) <= 2
         /\ LaunchCandidates(e) \in Seq(Directories) /\ Len(LaunchCandidates(e)) <= 2
<1> DEFINE Short(s) == s \in Seq(Directories) /\ Len(s) <= 2
<1>1. /\ Short(<<>>)
      /\ \A d \in Directories : Short(<<d>>)
      /\ \A d \in Directories, f \in Directories : Short(<<d, f>>)
  OBVIOUS
<1>2. /\ "override" \in Directories /\ "primary" \in Directories /\ "xdg" \in Directories
      /\ "home" \in Directories /\ "slash" \in Directories
  BY DEF Directories
<1> HIDE DEF Short
<1>3. Short(BootCandidates(e))
  BY <1>1, <1>2 DEF BootCandidates
<1>4. Short(LaunchCandidates(e))
  BY <1>1, <1>2 DEF LaunchCandidates
<1> QED
  BY <1>3, <1>4 DEF Short

(* With a plugin root and somewhere to fall back on, both lists have the    *)
(* same first usable directory.                                             *)
LEMMA SameChoice ==
  ASSUME NEW e \in [Variables -> BOOLEAN], NEW in, e["plugin"],
         e["override"] \/ e["xdg"] \/ e["home"]
  PROVE  BootCandidates(e) = LaunchCandidates(e)
BY DEF BootCandidates, LaunchCandidates, Variables

LEMMA EnvFacts ==
  ASSUME Typed
  PROVE  /\ env \in [Variables -> BOOLEAN]
         /\ request \in [command : Commands, skill : Skills,
                         explain : BOOLEAN, fail_safe : BOOLEAN]
         /\ usable \subseteq Directories
BY DEF Typed, Environments, Requests

LEMMA ProbeFacts ==
  ASSUME candidates \in Seq(Directories), Len(candidates) <= 2, NEW chosen, Probe(chosen)
  PROVE  /\ candidates' \in Seq(Directories) /\ Len(candidates') <= 2
         /\ chosen \in Directories \cup {NoRoot}
         /\ chosen # NoRoot => chosen = Choice(candidates, usable)
         /\ chosen = NoRoot => Choice(candidates', usable) = Choice(candidates, usable)
<1>1. Head(candidates) = candidates[1] /\ Head(candidates) \in Directories
      /\ Len(candidates) >= 1
  BY DEF Probe
<1>2. CASE Head(candidates) \in usable
  BY <1>1, <1>2, LauncherAssumption DEF Probe, Choice
<1>3. CASE Head(candidates) \notin usable
  <2>1. chosen = NoRoot /\ candidates' = Tail(candidates)
    BY <1>3 DEF Probe
  <2>2. /\ candidates' \in Seq(Directories) /\ Len(candidates') = Len(candidates) - 1
        /\ Len(candidates) = 2 => candidates'[1] = candidates[2]
    BY <1>1, <2>1
  <2> QED
    BY <1>1, <1>3, <2>1, <2>2 DEF Choice
<1> QED
  BY <1>2, <1>3

LEMMA InitInv == Init => Inv
<1> SUFFICES ASSUME Init PROVE Inv
  OBVIOUS
<1>0. /\ request \in Requests /\ env \in [Variables -> BOOLEAN]
      /\ usable \subseteq Directories /\ marks \subseteq Marks
  <2>1. PICK setup \in Setups : /\ request = setup.request /\ env = setup.env
                                /\ usable = setup.usable /\ marks = setup.marks
    BY DEF Init
  <2>2. setup \in [request : Requests, env : Environments,
                   usable : SUBSET Directories, marks : SUBSET Marks]
    BY LauncherAssumption
  <2> QED
    BY <2>1, <2>2 DEF Environments
<1>1. Typed
  <2>1. candidates \in Seq(Directories) /\ Len(candidates) <= 2
    BY <1>0, CandidateFacts DEF Init
  <2>2. FetchTypeOK
    BY FetcherAssumption DEF Init, FetchInit, FetchTypeOK
  <2>3. project \in Sections /\ skill \in Sections /\ team = NotRead
    BY SectionFacts DEF Init, PromptInit
  <2>4. changes \in 0..MaxChanges
    BY LauncherAssumption DEF Init
  <2>5. DiscoveryTypeOK
    BY <1>0, PlacedInit DEF Init, PromptInit
  <2> QED
    BY <1>0, <2>1, <2>2, <2>3, <2>4, <2>5 DEF Init, Typed, Environments
<1>2. OnPath
  BY DEF Init, FetchInit, OnPath, Local
<1>3. Counted
  BY DEF Init, FetchInit, Counted, Busy
<1>4. Chosen
  BY DEF Init, Chosen, NoReason
<1>5. FailSafe
  BY DEF Init, FailSafe
<1>6. Spoken
  BY DEF Init, PromptInit, Spoken, Quiet
<1>7. Placed
  BY <1>0, PlacedInit DEF Init, PromptInit
<1> QED
  BY <1>1, <1>2, <1>3, <1>4, <1>5, <1>6, <1>7 DEF Inv

-----------------------------------------------------------------------------
LEMMA TransferFacts ==
  ASSUME FetchTypeOK, Counted, Transfer
  PROVE  /\ FetchTypeOK' /\ Counted'
         /\ call \in Busy /\ call' \in Busy \cup Answers
<1>1. /\ MaxAttempts \in Nat /\ MaxRedirects \in Nat
      /\ attempt \in 0..MaxAttempts /\ hops \in 0..MaxRedirects /\ faults \in 0..MaxAttempts
      /\ secure \in BOOLEAN
  BY FetcherAssumption DEF FetchTypeOK
<1>2. CASE Spoilt /\ call \in {"Sending", "Reading"}
  <2>1. attempt < MaxAttempts /\ attempt = faults /\ secure
    BY <1>2 DEF Counted, Busy
  <2>2. /\ attempt' = attempt + 1 /\ faults' = faults + 1 /\ hops' = 0 /\ secure' = secure
        /\ call' = IF attempt + 1 < MaxAttempts THEN "Pausing" ELSE "Unreachable"
    BY <1>2 DEF Spoilt, Retryable
  <2> QED
    BY <1>1, <1>2, <2>1, <2>2 DEF FetchTypeOK, Counted, Busy, Answers
<1>3. CASE /\ UNCHANGED <<attempt, secure, faults>> /\ call \in Busy
           /\ hops' \in 0..MaxRedirects /\ call' \in {"Sending", "Reading", "NotFound", "Body"}
  <2>1. FetchTypeOK'
    BY <1>1, <1>3 DEF FetchTypeOK, Busy, Answers
  <2>2. Counted'
    BY <1>3 DEF Counted, Busy
  <2> QED
    BY <1>3, <2>1, <2>2 DEF Busy, Answers
<1>4. CASE Redirect
  BY <1>1, <1>2, <1>3, <1>4 DEF Redirect, Busy
<1>5. CASE SendFails
  BY <1>2, <1>5 DEF SendFails
<1>6. CASE NotPublished \/ Success \/ Retry
  BY <1>1, <1>3, <1>6 DEF NotPublished, Success, Retry, Busy
<1>7. CASE ReadBody
  BY <1>1, <1>2, <1>3, <1>7 DEF ReadBody, Busy
<1> QED
  BY <1>4, <1>5, <1>6, <1>7 DEF Transfer

LEMMA GetFacts ==
  ASSUME Typed, Get(env["https"])
  PROVE  FetchTypeOK' /\ Counted'
<1>1. env["https"] \in BOOLEAN
  BY EnvFacts DEF Variables
<1> QED
  BY <1>1, FetcherAssumption DEF Get, FetchTypeOK, Counted, Busy, Answers

LEMMA CountedStep == Inv /\ Next => FetchTypeOK' /\ Counted'
<1> SUFFICES ASSUME Inv, Next PROVE FetchTypeOK' /\ Counted'
  OBVIOUS
<1>1. FetchTypeOK /\ Counted /\ Typed
  BY DEF Inv, Typed
<1>2. CASE UNCHANGED fetchVars
  BY <1>1, <1>2 DEF fetchVars, FetchTypeOK, Counted
<1>3. CASE StartGet
  BY <1>1, <1>3, GetFacts DEF StartGet
<1>4. CASE Fetching
  BY <1>1, <1>4, TransferFacts DEF Fetching
<1>5. CASE GetUsed
  BY <1>1, <1>5 DEF GetUsed, FetchTypeOK, Counted, Busy
<1> QED
  BY <1>2, <1>3, <1>4, <1>5
     DEF Next, Step, BootProbe, BootFails, BootExecs, Reject, Dispatch, Version, LocateConfig,
         Config, RootProbe, NoRootFound, BuildFails, Find, GetFailed, Exec, Prompting, Change, fetchVars

(* Every step of the launcher is one of the walk, or leaves the place. *)
LEMMA PlaceSteps ==
  ASSUME Next
  PROVE  PlaceStep
<1>1. CASE UNCHANGED promptVars
  BY <1>1 DEF promptVars, PlaceStep, placeVars
<1>2. CASE Builtin
  BY <1>2 DEF Builtin, Version, LocateConfig, Config, promptVars, PlaceStep, placeVars
<1>3. CASE Prompting
  <2>1. CASE \E source \in Sources : NoDirectory(source) \/ ReadTeam(source) \/ ReadPersonal(source)
    BY <2>1 DEF NoDirectory, ReadTeam, ReadPersonal, PlaceStep
  <2>2. CASE LocateSource \/ ParseName \/ PrintBlocks \/ Explain
    BY <2>2 DEF LocateSource, ParseName, PrintBlocks, Explain, PlaceStep, placeVars
  <2> QED
    BY <1>3, <2>1, <2>2 DEF Prompting, PromptStep
<1>4. CASE Change
  BY <1>4 DEF Change, PlaceStep
<1> QED
  BY <1>1, <1>2, <1>3, <1>4
     DEF Next, Step, Builtin, BootProbe, BootFails, BootExecs, Reject, Dispatch, RootProbe,
         NoRootFound, BuildFails, Find, StartGet, Fetching, GetFailed, GetUsed, Exec

LEMMA BuiltinFacts ==
  ASSUME Builtin
  PROVE  /\ UNCHANGED <<request, sectionVars, fetchVars, rootVars, parsed, reason>>
         /\ pc \in {"Version", "Config"}
         /\ (pc' = pc /\ exit' = exit) \/ (pc' = "Ended" /\ exit' \in {0, 1, Panic})
BY DEF Builtin, Version, LocateConfig, Config, PrintLast, End, promptVars, sectionVars

LEMMA PromptPlaces ==
  ASSUME PromptStep
  PROVE  pc \in {"Project", "Skill", "Name", "Print", "Explain"} /\ request' = request
BY DEF PromptStep, NoDirectory, ReadTeam, ReadPersonal, LocateSource, ParseName, PrintBlocks,
       Explain, Sources

(* How far each kind of step takes the prompt commands. *)
LEMMA PromptFacts ==
  ASSUME Typed, request.command \in Prompts, PromptStep
  PROVE  /\ request' = request
         /\ team' \in Found \cup {NotRead} /\ project' \in Sections /\ skill' \in Sections
         /\ exit' \in {0, 1, 2, Panic}
         /\ pc \in {"Project", "Skill", "Name", "Print", "Explain"}
         /\ pc' \in {"Project", "Skill", "Name", "Print", "Explain", "Ended"}
         /\ pc' = "Ended" /\ request.fail_safe => exit' \in {0, Panic}
<1> DEFINE Fine == /\ team' \in Found \cup {NotRead} /\ project' \in Sections
                   /\ skill' \in Sections /\ exit' \in {0, 1, 2, Panic}
                   /\ pc' \in {"Project", "Skill", "Name", "Print", "Explain", "Ended"}
                   /\ pc' = "Ended" /\ request.fail_safe => exit' \in {0, Panic}
<1>0. /\ team \in Found \cup {NotRead} /\ project \in Sections /\ skill \in Sections
      /\ exit \in {0, 1, 2, Panic}
  BY DEF Typed
<1>1. ASSUME NEW source \in Sources, NEW section \in Sections, Resolved(source, section)
      PROVE  Fine
  BY <1>0, <1>1 DEF Resolved, Sources
<1>2. ASSUME NEW source \in Sources, NEW section \in Sections, Failed(source, section)
      PROVE  Fine
  <2>1. CASE Resolved(source, section)
    BY <2>1, <1>1
  <2>2. CASE ~request.fail_safe /\ End(1) /\ UNCHANGED sectionVars
    BY <1>0, <2>2 DEF End, sectionVars
  <2> QED
    BY <1>2, <2>1, <2>2 DEF Failed
<1>3. request.skill \in Skills /\ PromptTyped
  BY <1>0, EnvFacts DEF PromptTyped
<1>4. ASSUME NEW source \in Sources, NoDirectory(source) PROVE Fine
  <2>1. Degraded(Error("Io", <<".">>)) \in Sections
    <3>1. "Io" \in ReadError /\ <<".">> \in Paths
      BY DEF ReadError, Paths
    <3> QED
      BY <3>1, SectionFacts
  <2> QED
    BY <1>4, <2>1, <1>2 DEF NoDirectory
<1>5. ASSUME NEW source \in Sources, ReadTeam(source) PROVE Fine
  <2>1. CASE \E kind \in ReadError : Failed(source, Degraded(Error(kind, Path(source, "Team"))))
    <3>1. PICK kind \in ReadError : Failed(source, Degraded(Error(kind, Path(source, "Team"))))
      BY <2>1
    <3>2. Degraded(Error(kind, Path(source, "Team"))) \in Sections
      BY <1>3, SectionFacts, PathFacts DEF Levels
    <3> QED
      BY <1>2, <3>1, <3>2
  <2>2. CASE \E doc \in Found : /\ team' = doc
                                /\ UNCHANGED <<pc, project, skill, stdout, stderr, exit>>
    BY <1>0, <1>5, <2>2 DEF ReadTeam, Sources
  <2> QED
    BY <1>5, <2>1, <2>2 DEF ReadTeam
<1>6. ASSUME NEW source \in Sources, ReadPersonal(source) PROVE Fine
  <2>1. CASE \E kind \in ReadError :
                Failed(source, Degraded(Error(kind, Path(source, "Personal"))))
    <3>1. PICK kind \in ReadError :
             Failed(source, Degraded(Error(kind, Path(source, "Personal"))))
      BY <2>1
    <3>2. Degraded(Error(kind, Path(source, "Personal"))) \in Sections
      BY <1>3, SectionFacts, PathFacts DEF Levels
    <3> QED
      BY <1>2, <3>1, <3>2
  <2>2. CASE \E doc \in Found : Resolved(source, Assembled(team, doc))
    <3>1. PICK doc \in Found : Resolved(source, Assembled(team, doc))
      BY <2>2
    <3>2. Assembled(team, doc) \in Sections
      BY <1>0, <1>6, SectionFacts DEF ReadPersonal
    <3> QED
      BY <1>1, <3>1, <3>2
  <2> QED
    BY <1>6, <2>1, <2>2 DEF ReadPersonal
<1>7. ASSUME LocateSource PROVE Fine
  <2>1. pc \in Sources \cup {"Explain"} /\ UNCHANGED <<pc, team, project, skill, exit>>
    BY <1>7 DEF LocateSource, sectionVars
  <2> QED
    BY <1>0, <2>1 DEF Sources
<1>8. ASSUME ParseName PROVE Fine
  <2>1. CASE Failed("Skill", Unresolved)
    BY <1>2, <2>1, SectionFacts DEF Sources
  <2>2. CASE pc' \in {"Print", "Skill"} /\ UNCHANGED <<sectionVars, exit>>
    BY <1>0, <2>2 DEF sectionVars
  <2> QED
    BY <1>8, <2>1, <2>2 DEF ParseName
<1>9. ASSUME PrintBlocks PROVE Fine
  <2>1. /\ UNCHANGED <<team, project, skill>>
        /\ \/ pc' = "Explain" /\ UNCHANGED exit
           \/ pc' = "Ended" /\ exit' \in {0, Panic}
    BY <1>9 DEF PrintBlocks, End
  <2> QED
    BY <1>0, <2>1
<1>10. ASSUME Explain PROVE Fine
  <2>1. /\ UNCHANGED <<team, project, skill>> /\ pc' = "Ended"
        /\ exit' \in {0, Panic} \/ (exit' = 1 /\ ~request.fail_safe)
    BY <1>10 DEF Explain, End
  <2> QED
    BY <1>0, <2>1
<1>11. Fine /\ request' = request
  BY <1>4, <1>5, <1>6, <1>7, <1>8, <1>9, <1>10
     DEF PromptStep, NoDirectory, ReadTeam, ReadPersonal, LocateSource, ParseName,
         PrintBlocks, Explain
<1>12. pc \in {"Project", "Skill", "Name", "Print", "Explain"}
  BY PromptPlaces
<1> QED
  BY <1>11, <1>12

LEMMA GiveUpFacts ==
  ASSUME NEW error \in ResolutionErrors, GiveUp(error)
  PROVE  /\ pc' = "Ended" /\ exit' \in {0, 1, Panic}
         /\ request.command = "help" => exit' \in {0, Panic} /\ reason' = reason
         /\ reason' \in {reason, error}
BY DEF GiveUp, PrintLast, End

(* What a step that resolves an external command may report. *)
LEMMA ResolvingFacts ==
  ASSUME NoRootFound \/ BuildFails \/ Find \/ GetFailed \/ GetUsed \/ Exec
  PROVE  /\ UNCHANGED <<request, promptVars, rootVars, parsed>>
         /\ \/ /\ UNCHANGED <<exit, reason>>
               /\ pc' \in {"Exec", "Manifest", "Signature", "Asset", "Replaced"}
            \/ pc' = "Ended" /\ exit' \in {0, Panic} /\ UNCHANGED reason
            \/ \E error \in ResolutionErrors :
                  /\ GiveUp(error)
                  /\ error = "CacheRootUnavailable" =>
                        NoRootFound \/ root # NoRoot \/ request.command = "help"
<1>1. CASE NoRootFound
  BY <1>1 DEF NoRootFound, ResolutionErrors
<1>2. CASE Find
  BY <1>2 DEF Find, ResolutionErrors
<1>3. CASE GetFailed
  <2>1. FetchError \in ResolutionErrors /\ FetchError # "CacheRootUnavailable"
    BY DEF FetchError, ResolutionErrors
  <2> QED
    BY <1>3, <2>1 DEF GetFailed
<1>4. CASE GetUsed
  <2>1. /\ {"ManifestSignature", "ManifestVersionMismatch", "UnsupportedSchema",
            "AssetNotFound", "ChecksumMismatch", "SignatureMismatch", "Cache"}
           \subseteq ResolutionErrors \ {"CacheRootUnavailable"}
    BY DEF ResolutionErrors
  <2>2. \/ UNCHANGED <<exit, reason>> /\ pc' \in {"Signature", "Asset", "Exec"}
        \/ PrintLast /\ UNCHANGED reason
        \/ \E error \in {"ManifestSignature", "ManifestVersionMismatch", "UnsupportedSchema",
                         "AssetNotFound", "ChecksumMismatch", "SignatureMismatch", "Cache"} :
              GiveUp(error)
    BY <1>4 DEF GetUsed
  <2> QED
    BY <1>4, <2>1, <2>2 DEF GetUsed, PrintLast, End
<1>5. CASE Exec
  BY <1>5 DEF Exec, ResolutionErrors
<1>6. CASE BuildFails
  BY <1>6 DEF BuildFails, ResolutionErrors
<1> QED
  BY <1>1, <1>2, <1>3, <1>4, <1>5, <1>6

(* Only a prompt command, once parsed, takes the steps of one. *)
LEMMA PromptsOnly ==
  ASSUME Typed, OnPath, PromptStep
  PROVE  parsed /\ request.command \in Prompts
<1>1. pc \in {"Project", "Skill", "Name", "Print", "Explain"}
  BY PromptPlaces
<1>2. parsed \in BOOLEAN /\ request.command \in Commands
  BY EnvFacts DEF Typed
<1> QED
  BY <1>1, <1>2 DEF OnPath, Stages, Prompts, Commands

LEMMA TypedStep == Inv /\ Next => Typed'
<1> SUFFICES ASSUME Inv, Next PROVE Typed'
  OBVIOUS
<1>0. Typed /\ FetchTypeOK' /\ DiscoveryTypeOK'
  BY CountedStep, PlaceSteps, PlacedStep DEF Inv, Typed
<1>1. CASE BootProbe
  <2>1. /\ bootRoot' \in Directories \cup {NoRoot}
        /\ candidates' \in Seq(Directories) /\ Len(candidates') <= 2
    BY <1>0, <1>1, ProbeFacts DEF BootProbe, Typed
  <2> QED
    BY <1>0, <1>1, <2>1 DEF BootProbe, Typed, promptVars
<1>2. CASE RootProbe
  <2>1. /\ root' \in Directories \cup {NoRoot}
        /\ candidates' \in Seq(Directories) /\ Len(candidates') <= 2
    BY <1>0, <1>2, ProbeFacts DEF RootProbe, Typed
  <2> QED
    BY <1>0, <1>2, <2>1 DEF RootProbe, Typed, promptVars
<1>3. CASE BootFails \/ Reject \/ Builtin
  <2>1. /\ exit' \in {0, 1, 2, Panic}
        /\ UNCHANGED <<request, team, project, skill, rootVars, parsed, reason>>
    BY <1>0, <1>3, BuiltinFacts DEF BootFails, Reject, PrintLast, End, promptVars, sectionVars, Typed
  <2> QED
    BY <1>0, <2>1 DEF Typed, rootVars
<1>4. CASE Dispatch
  <2>1. candidates' \in Seq(Directories) /\ Len(candidates') <= 2
    BY <1>0, <1>4, EnvFacts, CandidateFacts DEF Dispatch
  <2>2. /\ parsed' = TRUE
        /\ UNCHANGED <<request, promptVars, exit, env, usable, changes, bootRoot, root, reason>>
    BY <1>4 DEF Dispatch
  <2> QED
    BY <1>0, <2>1, <2>2 DEF Typed, promptVars
<1>5. CASE NoRootFound \/ BuildFails \/ Find \/ GetFailed \/ GetUsed \/ Exec
  <2>1. /\ exit' \in {0, 1, 2, Panic} /\ reason' \in ResolutionErrors \cup {NoReason}
        /\ UNCHANGED <<request, promptVars, rootVars, parsed>>
    BY <1>0, <1>5, ResolvingFacts, GiveUpFacts DEF Typed
  <2> QED
    BY <1>0, <2>1 DEF Typed, promptVars, rootVars
<1>6. CASE Prompting
  <2>1. UNCHANGED <<rootVars, parsed, reason>> /\ PromptStep /\ request.command \in Prompts
    BY <1>6, PromptsOnly DEF Prompting, Inv
  <2> QED
    BY <1>0, <2>1, PromptFacts DEF Typed, rootVars
<1>7. CASE Change
  <2>1. /\ changes' \in 0..MaxChanges /\ usable' \subseteq Directories
        /\ UNCHANGED <<request, team, project, skill, exit, env, candidates, bootRoot, root,
                       parsed, reason>>
    BY <1>0, <1>7, LauncherAssumption DEF Change, Typed, sectionVars
  <2> QED
    BY <1>0, <2>1 DEF Typed
<1>8. CASE BootExecs \/ StartGet \/ Fetching
  <2>1. UNCHANGED <<request, promptVars, exit, rootVars, parsed, reason>>
    BY <1>8 DEF BootExecs, StartGet, Fetching
  <2> QED
    BY <1>0, <2>1 DEF Typed, promptVars, rootVars
<1> QED
  BY <1>1, <1>2, <1>3, <1>4, <1>5, <1>6, <1>7, <1>8 DEF Next, Step, Builtin

(* The next place of each kind of command is on its path. *)
LEMMA OnPathStep == Inv /\ Next => OnPath'
<1> SUFFICES ASSUME Inv, Next PROVE OnPath'
  OBVIOUS
<1>0. Typed /\ OnPath /\ parsed \in BOOLEAN /\ request.command \in Commands
  BY EnvFacts DEF Inv, Typed
<1>1. CASE BootProbe \/ BootFails \/ BootExecs \/ Reject
  <2>1. /\ pc \in {"Boot", "Parse"} /\ ~parsed /\ ~parsed' /\ request' = request
        /\ pc' \in {"Boot", "Parse", "Ended"} /\ UNCHANGED <<call, root, reason>>
    BY <1>0, <1>1 DEF BootProbe, BootFails, BootExecs, Reject, End, fetchVars, rootVars,
       OnPath, Stages, Prompts, Commands
  <2> QED
    BY <1>0, <2>1 DEF OnPath, Local
<1>2. CASE Dispatch
  <2>1. ~parsed /\ Local /\ parsed'
    BY <1>0, <1>2 DEF Dispatch, OnPath, Stages, Prompts, Commands
  <2>2. request' = request /\ UNCHANGED <<call, root, reason>>
    BY <1>2 DEF Dispatch, fetchVars
  <2>3. pc' \in Stages(request.command)
    <3>1. request.command \in {"version", "config", "context", "instructions", "help", "external"}
      BY <1>0, <1>2 DEF Dispatch, Accepted, Commands
    <3>2. /\ request.command = "version" => pc' = "Version"
          /\ request.command = "config" => pc' = "Config"
          /\ request.command = "context" => pc' = "Project"
          /\ request.command = "instructions" => pc' = "Name"
          /\ request.command = "help" => pc' = "Manifest"
          /\ request.command = "external" => pc' \in {"Exec", "Root"}
      BY <1>2, <3>1 DEF Dispatch
    <3> QED
      BY <3>1, <3>2 DEF Stages, Prompts
  <2> QED
    BY <2>1, <2>2, <2>3 DEF OnPath, Local
<1>3. CASE Builtin
  <2>1. /\ pc \in {"Version", "Config"} /\ pc' \in {pc, "Ended"}
        /\ UNCHANGED <<request, call, root, reason, parsed>>
    BY <1>3, BuiltinFacts DEF fetchVars, rootVars
  <2>2. parsed /\ {pc, "Ended"} \subseteq Stages(request.command)
    BY <1>0, <2>1 DEF OnPath, Stages, Prompts, Commands
  <2> QED
    BY <1>0, <2>1, <2>2 DEF OnPath, Local
<1>4. CASE RootProbe \/ NoRootFound \/ BuildFails \/ Find \/ StartGet \/ GetFailed \/ GetUsed \/ Exec
  <2>1. pc \in {"Root", "Exec"} \cup Gets /\ UNCHANGED <<request, parsed>>
    BY <1>4 DEF RootProbe, NoRootFound, BuildFails, Find, StartGet, GetFailed, GetUsed, Exec, Gets
  <2>2. parsed /\ request.command \in {"external", "help"}
    BY <1>0, <2>1 DEF OnPath, Stages, Prompts, Commands, Gets
  <2>3. pc' \in Stages(request.command)
    <3>1. "Ended" \in Stages(request.command)
      BY <2>2 DEF Stages, Prompts
    <3>2. pc \in Stages(request.command)
      BY <1>0, <2>2 DEF OnPath
    <3>3. \A error : GiveUp(error) => pc' = "Ended"
      BY DEF GiveUp, PrintLast, End
    <3>4. CASE RootProbe \/ StartGet
      BY <3>2, <3>4 DEF RootProbe, StartGet
    <3>5. CASE NoRootFound \/ BuildFails \/ GetFailed
      BY <3>1, <3>3, <3>5 DEF NoRootFound, BuildFails, GetFailed
    <3>6. CASE Find
      <4>1. request.command = "external"
        BY <2>2, <3>2, <3>6 DEF Find, Stages, Prompts
      <4> QED
        BY <3>1, <3>3, <3>6, <4>1 DEF Find, Stages, Prompts
    <3>7. CASE Exec
      <4>1. request.command = "external"
        BY <2>2, <3>2, <3>7 DEF Exec, Stages, Prompts
      <4> QED
        BY <3>1, <3>3, <3>7, <4>1 DEF Exec, Stages, Prompts
    <3>8. CASE GetUsed
      <4>1. pc = "Asset" => request.command = "external"
        BY <2>2, <3>2 DEF Stages, Prompts
      <4>2. \/ pc' = "Ended" \/ pc' = "Signature"
            \/ request.command = "external" /\ pc' \in {"Asset", "Exec"}
        BY <3>3, <3>8, <4>1 DEF GetUsed, PrintLast, End
      <4> QED
        BY <2>2, <3>1, <4>2 DEF Stages, Prompts
    <3> QED
      BY <1>4, <3>4, <3>5, <3>6, <3>7, <3>8
  <2> QED
    BY <2>1, <2>2, <2>3 DEF OnPath
<1>5. CASE Fetching
  <2>1. call \in Busy /\ UNCHANGED <<pc, request, root, reason, parsed>>
    BY <1>5, TransferFacts DEF Fetching, Inv, Typed, rootVars
  <2>2. parsed /\ request.command \in {"external", "help"}
    BY <1>0, <2>1 DEF OnPath, Local, Busy
  <2> QED
    BY <1>0, <2>1, <2>2 DEF OnPath
<1>6. CASE Prompting
  <2>1. parsed /\ request.command \in Prompts
    BY <1>0, <1>6, PromptsOnly DEF Prompting
  <2>2. /\ UNCHANGED <<request, call, root, reason, parsed>>
        /\ pc' \in {"Project", "Skill", "Name", "Print", "Explain", "Ended"}
    BY <1>0, <1>6, <2>1, PromptFacts DEF Prompting, fetchVars, rootVars
  <2>3. pc' \in Stages(request.command)
    BY <2>1, <2>2 DEF Stages, Prompts
  <2> QED
    BY <1>0, <2>1, <2>2, <2>3 DEF OnPath, Local
<1>7. CASE Change
  <2>1. UNCHANGED <<pc, request, call, root, reason, parsed>>
    BY <1>7 DEF Change, fetchVars
  <2> QED
    BY <1>0, <2>1 DEF OnPath, Local
<1> QED
  BY <1>1, <1>2, <1>3, <1>4, <1>5, <1>6, <1>7 DEF Next, Step, Builtin

LEMMA FailSafeStep == Inv /\ Next => FailSafe'
<1> SUFFICES ASSUME Inv, Next PROVE FailSafe'
  OBVIOUS
<1>0. /\ Typed /\ OnPath /\ FailSafe /\ parsed \in BOOLEAN
      /\ request.command \in Commands
  BY EnvFacts DEF Inv, Typed
<1>1. CASE UNCHANGED <<pc, request, exit, parsed>>
  BY <1>0, <1>1 DEF FailSafe
<1>2. CASE BootFails \/ BootExecs \/ Reject
  <2>1. ~parsed /\ parsed' = parsed
    BY <1>0, <1>2 DEF BootFails, BootExecs, Reject, OnPath, Stages, Prompts, Commands
  <2> QED
    BY <2>1 DEF FailSafe
<1>3. CASE Dispatch
  <2>1. pc' # "Ended"
    <3>1. request.command \in {"version", "config", "context", "instructions", "help", "external"}
      BY <1>0, <1>3 DEF Dispatch, Accepted, Commands
    <3> QED
      BY <1>3, <3>1 DEF Dispatch
  <2> QED
    BY <2>1 DEF FailSafe
<1>4. CASE Builtin
  <2>1. pc \in {"Version", "Config"} /\ request' = request /\ parsed' = parsed
    BY <1>4, BuiltinFacts
  <2>2. ~parsed \/ request.command \in {"version", "config"}
    BY <1>0, <2>1 DEF OnPath, Stages, Prompts, Commands
  <2> QED
    BY <2>1, <2>2 DEF FailSafe, Prompts
<1>5. CASE NoRootFound \/ BuildFails \/ Find \/ GetFailed \/ GetUsed \/ Exec
  <2>1. pc \in {"Root", "Exec"} \cup Gets
    BY <1>5 DEF NoRootFound, BuildFails, Find, GetFailed, GetUsed, Exec, Gets
  <2>2. request.command \in {"external", "help"}
    BY <1>0, <2>1 DEF OnPath, Stages, Prompts, Commands, Gets
  <2>3. request' = request
    BY <1>5, ResolvingFacts
  <2>4. request.command = "help" /\ pc' = "Ended" => exit' \in {0, Panic}
    BY <1>5, ResolvingFacts, GiveUpFacts
  <2> QED
    BY <2>2, <2>3, <2>4 DEF FailSafe, Prompts
<1>6. CASE Prompting
  <2>1. PromptStep /\ parsed' = parsed
    BY <1>6 DEF Prompting
  <2>2. request.command \in Prompts
    BY <1>0, <2>1, PromptsOnly
  <2>3. /\ request' = request
        /\ pc' = "Ended" /\ request.fail_safe => exit' \in {0, Panic}
    BY <1>0, <2>1, <2>2, PromptFacts
  <2> QED
    BY <2>1, <2>2, <2>3 DEF FailSafe, Prompts
<1> QED
  BY <1>1, <1>2, <1>3, <1>4, <1>5, <1>6
     DEF Next, Step, Builtin, BootProbe, RootProbe, StartGet, Fetching, Change

LEMMA ChosenStep == Inv /\ Next => Chosen'
<1> SUFFICES ASSUME Inv, Next PROVE Chosen'
  OBVIOUS
<1>0. /\ Typed /\ OnPath /\ Chosen
      /\ candidates \in Seq(Directories) /\ Len(candidates) <= 2
  BY DEF Inv, Typed
<1>1. CASE BootProbe
  <2>1. /\ pc = "Boot" /\ bootRoot = NoRoot /\ Probe(bootRoot')
        /\ UNCHANGED <<pc, env, usable, changes, root, reason>>
    BY <1>1 DEF BootProbe
  <2>2. /\ bootRoot' # NoRoot => bootRoot' = Choice(candidates, usable)
        /\ bootRoot' = NoRoot => Choice(candidates', usable) = Choice(candidates, usable)
    BY <1>0, <2>1, ProbeFacts
  <2> QED
    BY <1>0, <2>1, <2>2 DEF Chosen
<1>2. CASE RootProbe
  <2>1. /\ pc = "Root" /\ root = NoRoot /\ Probe(root')
        /\ UNCHANGED <<pc, env, usable, changes, bootRoot, reason>>
    BY <1>2 DEF RootProbe
  <2>2. /\ root' # NoRoot => root' = Choice(candidates, usable)
        /\ root' = NoRoot => Choice(candidates', usable) = Choice(candidates, usable)
    BY <1>0, <2>1, ProbeFacts
  <2> QED
    BY <1>0, <2>1, <2>2 DEF Chosen
<1>3. CASE Dispatch
  <2>1. /\ UNCHANGED <<env, usable, changes, bootRoot, root, reason>>
        /\ pc' # "Boot"
        /\ pc' = "Root" => candidates' = LaunchCandidates(env)
    <3>1. request.command \in {"version", "config", "context", "instructions", "help", "external"}
      BY <1>0, <1>3, EnvFacts DEF Dispatch, Accepted, Commands
    <3> QED
      BY <1>3, <3>1 DEF Dispatch
  <2> QED
    BY <1>0, <2>1 DEF Chosen
<1>4. CASE NoRootFound
  <2>1. /\ pc = "Root" /\ root = NoRoot /\ candidates = <<>>
        /\ UNCHANGED rootVars /\ pc' = "Ended"
    BY <1>4, GiveUpFacts DEF NoRootFound, ResolutionErrors
  <2>2. Choice(candidates, usable) = NoRoot
    BY <2>1 DEF Choice
  <2> QED
    BY <1>0, <2>1, <2>2 DEF Chosen, rootVars
<1>5. CASE (BuildFails \/ Find \/ GetFailed \/ GetUsed \/ Exec) /\ ~NoRootFound
  <2>1. UNCHANGED rootVars /\ pc' \notin {"Boot", "Root"}
        /\ (reason' = "CacheRootUnavailable" /\ root = NoRoot => reason = "CacheRootUnavailable")
    BY <1>5, ResolvingFacts, GiveUpFacts
  <2> QED
    BY <1>0, <2>1 DEF Chosen, rootVars
<1>6. CASE Prompting
  <2>1. PromptStep /\ UNCHANGED <<rootVars, reason>> /\ request.command \in Prompts
    BY <1>0, <1>6, PromptsOnly DEF Prompting
  <2>2. pc' \in {"Project", "Skill", "Name", "Print", "Explain", "Ended"}
    BY <1>0, <2>1, PromptFacts
  <2> QED
    BY <1>0, <2>1, <2>2 DEF Chosen, rootVars
<1>7. CASE BootFails \/ BootExecs \/ Reject \/ Builtin
  <2>1. UNCHANGED <<rootVars, reason>> /\ pc' \in {"Parse", "Config", "Version", "Ended"}
    BY <1>7, BuiltinFacts DEF BootFails, BootExecs, Reject, PrintLast, End
  <2> QED
    BY <1>0, <2>1 DEF Chosen, rootVars
<1>8. CASE StartGet \/ Fetching
  <2>1. UNCHANGED <<rootVars, reason, pc>>
    BY <1>8 DEF StartGet, Fetching
  <2> QED
    BY <1>0, <2>1 DEF Chosen, rootVars
<1>9. CASE Change
  <2>1. changes' # 0 /\ UNCHANGED <<pc, env, bootRoot, root>>
    BY <1>0, <1>9 DEF Change, Typed
  <2> QED
    BY <1>0, <2>1 DEF Chosen
<1> QED
  BY <1>1, <1>2, <1>3, <1>4, <1>5, <1>6, <1>7, <1>8, <1>9 DEF Next, Step, Builtin

LEMMA SpokenKeeps ==
  ASSUME Spoken, UNCHANGED <<pc, request, project, skill, stdout, stderr, exit, parsed>>
  PROVE  Spoken'
<1>1. Quiet => Quiet'
  BY DEF Quiet
<1>2. AllBlocks' = AllBlocks /\ AllLines' = AllLines
      /\ (AsRequested' <=> AsRequested) /\ (Printed' <=> Printed)
  BY DEF AllBlocks, AllLines, AsRequested, Requested, SectionOf, Printed
<1>3. PromptInv => PromptInv'
  BY <1>2 DEF PromptInv, Resolving, Printing
<1> QED
  BY <1>1, <1>3 DEF Spoken

(* A prompt says what it is asked for, and nothing else speaks. *)
LEMMA SpokenStep == Inv /\ Next => Spoken'
<1> SUFFICES ASSUME Inv, Next PROVE Spoken'
  OBVIOUS
<1>0. /\ Typed /\ OnPath /\ Spoken /\ parsed \in BOOLEAN
      /\ request.command \in Commands /\ request.skill \in Skills
  BY EnvFacts DEF Inv, Typed
<1>1. CASE Prompting
  <2>1. PromptStep /\ parsed' = parsed
    BY <1>1 DEF Prompting
  <2>2. parsed /\ request.command \in Prompts
    BY <1>0, <2>1, PromptsOnly
  <2>3. PromptTyped /\ PromptInv
    BY <1>0, <2>2 DEF PromptTyped, Typed, Spoken
  <2>4. PromptInv' /\ request' = request
    BY <1>0, <2>1, <2>3, PromptInvStep, PromptPlaces
  <2> QED
    BY <2>1, <2>2, <2>4 DEF Spoken
<1>2. CASE Change
  <2>1. UNCHANGED <<pc, request, project, skill, stdout, stderr, exit, parsed>>
    BY <1>2 DEF Change, sectionVars
  <2> QED
    BY <1>0, <2>1, SpokenKeeps
<1>3. CASE Dispatch
  <2>1. ~parsed /\ Quiet
    BY <1>0, <1>3 DEF Dispatch, OnPath, Stages, Prompts, Commands, Spoken
  <2>2. parsed' /\ UNCHANGED <<request, project, skill, stdout, stderr>>
    BY <1>3 DEF Dispatch, promptVars
  <2>3. /\ request.command = "context" => pc' = "Project"
        /\ request.command = "instructions" => pc' = "Name"
    BY <1>3 DEF Dispatch
  <2>4. Quiet'
    BY <2>1, <2>2 DEF Quiet
  <2>5. request.command \in Prompts => PromptInv'
    BY <2>1, <2>2, <2>3, SectionFacts
       DEF Quiet, Prompts, PromptInv, Resolving, Printing, Printed
  <2> QED
    BY <2>2, <2>4, <2>5 DEF Spoken
<1>4. CASE Builtin \/ RootProbe \/ NoRootFound \/ BuildFails \/ Find \/ StartGet \/ GetFailed
           \/ GetUsed \/ Exec
  <2>1. /\ pc \in {"Version", "Config", "Root", "Exec"} \cup Gets
        /\ UNCHANGED <<request, project, skill, stdout, stderr, parsed>>
    BY <1>4, BuiltinFacts DEF RootProbe, NoRootFound, BuildFails, Find, StartGet, GetFailed,
       GetUsed, Exec, Gets, promptVars, sectionVars
  <2>2. parsed /\ request.command \notin Prompts
    BY <1>0, <2>1 DEF OnPath, Stages, Prompts, Commands, Gets
  <2> QED
    BY <1>0, <2>1, <2>2 DEF Spoken, Quiet
<1>5. CASE BootProbe \/ BootFails \/ BootExecs \/ Reject
  <2>1. /\ pc \in {"Boot", "Parse"} /\ ~parsed
        /\ UNCHANGED <<request, project, skill, stdout, stderr, parsed>>
    BY <1>0, <1>5 DEF BootProbe, BootFails, BootExecs, Reject, promptVars,
       OnPath, Stages, Prompts, Commands
  <2>2. pc' = "Ended" /\ exit' = 0 => request.command = "usage"
    BY <1>5, <2>1 DEF BootProbe, BootFails, BootExecs, Reject, End
  <2> QED
    BY <1>0, <2>1, <2>2 DEF Spoken, Quiet
<1>6. CASE Fetching
  <2>1. UNCHANGED <<pc, request, project, skill, stdout, stderr, exit, parsed>>
    BY <1>6 DEF Fetching, promptVars
  <2> QED
    BY <1>0, <2>1, SpokenKeeps
<1> QED
  BY <1>1, <1>2, <1>3, <1>4, <1>5, <1>6 DEF Next, Step, Builtin

LEMMA NextInv == Inv /\ [Next]_vars => Inv'
<1>1. ASSUME Inv, UNCHANGED vars PROVE Inv'
  <2>1. UNCHANGED <<pc, request, team, project, skill, stdout, stderr, exit, call, attempt,
                    hops, secure, faults, env, usable, changes, candidates, bootRoot, root,
                    parsed, reason>>
        /\ PlaceStep
    BY <1>1 DEF vars, promptVars, fetchVars, rootVars, PlaceStep, placeVars
  <2>2. DiscoveryTypeOK' /\ Placed'
    BY <1>1, <2>1, PlacedStep DEF Inv, Typed
  <2>3. Typed'
    BY <1>1, <2>1, <2>2 DEF Inv, Typed, FetchTypeOK
  <2>4. OnPath' /\ Counted' /\ FailSafe'
    BY <1>1, <2>1 DEF Inv, OnPath, Local, Counted, FailSafe
  <2>5. Chosen'
    BY <1>1, <2>1 DEF Inv, Chosen
  <2>6. Spoken'
    BY <1>1, <2>1, SpokenKeeps DEF Inv
  <2> QED
    BY <2>2, <2>3, <2>4, <2>5, <2>6 DEF Inv
<1>2. ASSUME Inv, Next PROVE Inv'
  <2>1. Placed'
    BY <1>2, PlaceSteps, PlacedStep DEF Inv, Typed
  <2> QED
    BY <1>2, <2>1, TypedStep, OnPathStep, CountedStep, FailSafeStep, ChosenStep, SpokenStep DEF Inv
<1> QED
  BY <1>1, <1>2

LEMMA Invariant == Spec => []Inv
BY InitInv, NextInv, PTL DEF Spec

-----------------------------------------------------------------------------
(* Once the command line is accepted, no error of a document, a directory   *)
(* or the server ends a prompt under --fail-safe or the root help: it exits *)
(* with 0, or panics because nobody reads what it prints.                   *)
THEOREM ErrorsDegrade == Spec => []FailSafe
<1>1. Inv => FailSafe
  BY DEF Inv
<1> QED
  BY <1>1, Invariant, PTL

(* A GET is given up as unreachable only after MaxAttempts spoilt attempts. *)
THEOREM RetriesMaskFaults == Spec => []FaultsMasked
<1>1. Inv => FaultsMasked
  BY DEF Inv, Counted, FaultsMasked
<1> QED
  BY <1>1, Invariant, PTL

(* A built-in touches neither the cache directory nor the network. *)
THEOREM BuiltinsNeedNothing == Spec => []BuiltinsStayLocal
<1>1. Inv => BuiltinsStayLocal
  BY DEF Inv, OnPath, Local, BuiltinsStayLocal
<1> QED
  BY <1>1, Invariant, PTL

(* While directories stay as they are, bootstrap and launcher choose the    *)
(* same one, given somewhere to fall back on.                               *)
THEOREM SameRoot == Spec => []RootsAgree
<1>1. ASSUME Inv PROVE RootsAgree
  <2> SUFFICES ASSUME bootRoot # NoRoot, changes = 0,
                      env["override"] \/ env["xdg"] \/ env["home"]
               PROVE  /\ root \in {NoRoot, bootRoot}
                      /\ root = NoRoot => reason # "CacheRootUnavailable"
    BY DEF RootsAgree
  <2>1. BootCandidates(env) = LaunchCandidates(env)
    BY <1>1, EnvFacts, SameChoice DEF Inv, Chosen
  <2> QED
    BY <1>1, <2>1 DEF Inv, Chosen
<1> QED
  BY <1>1, Invariant, PTL

(* Every reachable state has the declared types. *)
THEOREM TypeCorrect == Spec => []TypeOK
<1>1. ASSUME Inv PROVE TypeOK
  <2>1. Typed /\ parsed => pc \in Labels
    BY <1>1, EnvFacts DEF Inv, OnPath, Stages, Prompts, Commands, Labels, Gets, Sources
  <2>2. pc \in Labels
    BY <1>1, <2>1 DEF Inv, Typed, OnPath, Labels
  <2>3. Range(candidates) \subseteq Directories
    BY <1>1 DEF Inv, Typed, Range
  <2> QED
    BY <1>1, <2>2, <2>3 DEF Inv, Typed, TypeOK
<1> QED
  BY <1>1, Invariant, PTL

(* Nothing above a repository or a project that was there all along is read. *)
THEOREM StaysBelow == Spec => []NeverAboveRepo
<1>1. Inv => NeverAboveRepo
  BY DEF Inv, Placed
<1> QED
  BY <1>1, Invariant, PTL

(* What is printed, from the invariant. *)
LEMMA SpokenSound ==
  ASSUME Inv
  PROVE  SourcesStandAlone /\ TextIsWhole /\ ExplainAgrees
<1>0. Typed /\ OnPath /\ Spoken /\ parsed \in BOOLEAN /\ request.command \in Commands
  BY EnvFacts DEF Inv, Typed
<1>1. CASE parsed /\ request.command \in Prompts
  <2>1. PromptTyped /\ PromptInv
    BY <1>0, <1>1 DEF Typed, PromptTyped, Spoken
  <2> QED
    BY <2>1, PromptSound
<1>2. CASE ~(parsed /\ request.command \in Prompts)
  <2>1. Quiet
    BY <1>0, <1>2 DEF Spoken
  <2>2. Printed => Requested = {}
    <3>1. CASE request.command \notin Prompts
      BY <3>1 DEF Prompts, Requested
    <3>2. CASE ~parsed
      BY <1>0, <3>2 DEF OnPath, Spoken, Printed, Requested
    <3> QED
      BY <1>2, <3>1, <3>2
  <2> QED
    BY <2>1, <2>2, QuietSound
<1> QED
  BY <1>1, <1>2

(* Every source that is asked for speaks for itself. *)
THEOREM EachSourceSpeaks == Spec => []SourcesStandAlone
BY SpokenSound, Invariant, PTL

(* A block is the documents' own text, and all of it. *)
THEOREM NothingIsCut == Spec => []TextIsWhole
BY SpokenSound, Invariant, PTL

(* --explain tells the truth about what was printed. *)
THEOREM ExplanationsHold == Spec => []ExplainAgrees
BY SpokenSound, Invariant, PTL
=============================================================================
