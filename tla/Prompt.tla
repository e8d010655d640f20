------------------------------- MODULE Prompt ---------------------------------
(***************************************************************************)
(* The commands whose output is spliced into a prompt: context and         *)
(* instructions (launcher/src/{context_command,instructions_command}/      *)
(* inbound/cli.rs) over the fail-safe boundary they share                  *)
(* (command_support/mod.rs) and the assembly of a source from its two      *)
(* levels (config/src/fragment.rs).  Every read is preceded by its own walk *)
(* to the project root (Discovery), is a step, and may find any document:  *)
(* each is read once, and may be edited until then.                        *)
(***************************************************************************)
EXTENDS Discovery, Sequences, FiniteSetsExt

CONSTANTS
    Bodies,     \* texts of documents, as sequences of lines
    Blank       \* a line of white space

ASSUME PromptAssumption == \A b \in Bodies : b \in Seq(Range(b))

VARIABLES
    pc,         \* the step the invocation makes next
    request,    \* the parsed command line
    team,       \* the team document of the source being assembled
    project,    \* Section of the project's source
    skill,      \* Section of the skill's source
    stdout,     \* blocks printed
    stderr,     \* lines of --explain
    exit        \* exit code, once pc is "Ended"

sectionVars == <<team, project, skill, stdout, stderr>>
promptVars  == <<team, project, skill, stdout, stderr, marks, walk, base, steady, ever>>

Levels  == {"Team", "Personal"}

(* FragmentSource: the project's context, and a skill's context or          *)
(* instructions, as the command asks.                                       *)
Sources == {"Project", "Skill"}

(* A name by the kinds of the characters that occur in it.  SkillName::parse*)
(* has a list of those it permits.                                          *)
Characters == {"alphanumeric", "hyphen", "underscore", "separator", "dot", "NotUtf8"}
Permitted  == {"alphanumeric", "hyphen", "underscore"}

Skills == {<<>>} \cup {<<name>> : name \in SUBSET Characters}

SkillName(raw) == raw # {} /\ raw \subseteq Permitted

Prompts == {"context", "instructions"}

(* fragment_path: the document of a source and level, below the root. *)
Path(source, level) ==
    IF source = "Project" THEN <<"config", level>>
    ELSE <<"skills", request.skill, request.command, level>>

(* What reading one level may yield: no file, a body, or a ConfigError.     *)
Missing   == [kind |-> "Missing", lines |-> <<>>]
NotRead   == [kind |-> "NotRead", lines |-> <<>>]
Body(b)   == [kind |-> "Body", lines |-> b]
ReadError == {"MalformedFrontmatter", "UnsafePath", "Io"}
Found     == {Missing} \cup {Body(b) : b \in Bodies}

Error(kind, at) == [kind |-> kind, at |-> at]
NoError         == Error("None", <<>>)

Section(state, docs, error) == [state |-> state, docs |-> docs, error |-> error]
NoSection       == Section("None", <<>>, NoError)
Assembled(t, p) == Section("Assembled", <<t, p>>, NoError)
Degraded(e)     == Section("Degraded", <<>>, e)
Unresolved      == Section("Unresolved", <<>>, Error("InvalidSkillName", <<>>))

Paths == {<<".">>} \cup {<<"config", level>> : level \in Levels}
         \cup {<<"skills", name, command, level>> :
                  name \in Skills, command \in Prompts, level \in Levels}
Errors == {Error(kind, path) : kind \in ReadError, path \in Paths}
Sections == {NoSection, Unresolved} \cup {Degraded(e) : e \in Errors}
            \cup {Assembled(t, p) : t \in Found, p \in Found}

(* Mutant of TrimBlankLines: every blank line goes.                         *)
TrimAllBlankLines(lines) == SelectSeq(lines, LAMBDA line : line # Blank)

-----------------------------------------------------------------------------
(* trim_blank_lines: from the first line with text to the last. *)
TrimBlankLines(lines) ==
    LET text == {i \in DOMAIN lines : lines[i] # Blank}
    IN  IF text = {} THEN <<>> ELSE SubSeq(lines, Min(text), Max(text))

(* Mutant of HasBody: any line counts.                                      *)
HasLines(doc) == doc.lines # <<>>

HasBody(doc) == TrimBlankLines(doc.lines) # <<>>

(* combine: the parts that have text, one blank line between them. *)
Combine(first, second) ==
    IF first = <<>> \/ second = <<>> THEN first \o second
    ELSE first \o <<Blank>> \o second

Fragment(docs) ==
    Combine(TrimBlankLines(docs[1].lines), TrimBlankLines(docs[2].lines))

(* block and section_block: the blocks a section contributes, none or one. *)
Blocks(source, section) ==
    CASE section.state = "None" -> <<>>
      [] section.state = "Assembled" ->
            IF Fragment(section.docs) = <<>> THEN <<>>
            ELSE <<[source |-> source, text |-> Fragment(section.docs),
                    notice |-> NoError]>>
      [] OTHER -> <<[source |-> source, text |-> <<>>, notice |-> section.error]>>

(* explain_line, degraded_source_lines and invalid_skill_line. *)
Line(source, level, state) == [source |-> source, level |-> level, state |-> state]

Contribution(doc) ==
    CASE doc.kind = "Missing" -> "not found"
      [] doc.kind = "Body" -> IF HasBody(doc) THEN "body present" ELSE "empty body"

ExplainLines(source, section) ==
    CASE section.state = "None" -> <<>>
      [] section.state = "Unresolved" -> <<Line(source, "None", "invalid")>>
      [] section.state = "Assembled" ->
            <<Line(source, "Team", Contribution(section.docs[1])),
              Line(source, "Personal", Contribution(section.docs[2]))>>
      [] section.state = "Degraded" ->
            LET state == IF section.error.kind = "UnsafePath" THEN "unsafe"
                         ELSE "unreadable"
            IN  <<Line(source, "Team", state), Line(source, "Personal", state)>>

-----------------------------------------------------------------------------
End(code) == pc' = "Ended" /\ exit' = code

(* println! and eprintln! panic when nobody reads. *)
Panic == 101

PromptInit ==
    /\ team = NotRead
    /\ project = NoSection
    /\ skill = NoSection
    /\ stdout = <<>>
    /\ stderr = <<>>
    /\ DiscoveryInit

(* A section is resolved, and the command goes on to the next. *)
Resolved(source, section) ==
    /\ team' = NotRead
    /\ IF source = "Project"
       THEN project' = section /\ UNCHANGED skill /\ pc' = "Name"
       ELSE skill' = section /\ UNCHANGED project /\ pc' = "Print"
    /\ UNCHANGED <<stdout, stderr, exit>>

(* Mutant of Failed: a failure ends the command whatever the source.        *)
FailedAlways(source, section) ==
    \/ request.fail_safe /\ source = "Project" /\ Resolved(source, section)
    \/ ~(request.fail_safe /\ source = "Project") /\ End(1) /\ UNCHANGED sectionVars

(* Mutant of Failed: a skill that fails takes the project's block with it.  *)
FailedTogether(source, section) ==
    \/ /\ request.fail_safe
       /\ team' = NotRead
       /\ project' = section /\ skill' = NoSection
       /\ pc' = "Print"
       /\ UNCHANGED <<stdout, stderr, exit>>
    \/ ~request.fail_safe /\ End(1) /\ UNCHANGED sectionVars

(* A failure is absorbed into the section under --fail-safe, or ends the    *)
(* command.                                                                 *)
Failed(source, section) ==
    \/ request.fail_safe /\ Resolved(source, section)
    \/ ~request.fail_safe /\ End(1) /\ UNCHANGED sectionVars

(* --explain locates the root, except for instructions of no skill or of an *)
(* invalid name.                                                            *)
Locates == request.command = "context" \/ skill.state \in {"Assembled", "Degraded"}

(* discover_store, in a current directory that can be asked for or not. *)
LocateSource ==
    /\ pc \in Sources \/ (pc = "Explain" /\ Locates)
    /\ Discover \/ Ascend
    /\ UNCHANGED <<pc, request, sectionVars, exit>>

NoDirectory(source) ==
    /\ pc = source
    /\ Unlocated
    /\ Failed(source, Degraded(Error("Io", <<".">>)))
    /\ UNCHANGED <<request, placeVars>>

(* assemble: read_body of the team level, then of the personal one. *)
ReadTeam(source) ==
    /\ pc = source
    /\ base # 0 /\ Leave
    /\ team = NotRead
    /\ \/ \E kind \in ReadError :
             Failed(source, Degraded(Error(kind, Path(source, "Team"))))
       \/ \E doc \in Found :
             /\ team' = doc
             /\ UNCHANGED <<pc, project, skill, stdout, stderr, exit>>
    /\ UNCHANGED request

ReadPersonal(source) ==
    /\ pc = source
    /\ base # 0 /\ Leave
    /\ team # NotRead
    /\ \/ \E kind \in ReadError :
             Failed(source, Degraded(Error(kind, Path(source, "Personal"))))
       \/ \E doc \in Found : Resolved(source, Assembled(team, doc))
    /\ UNCHANGED request

(* resolve_skill and resolve_skill_name. *)
ParseName ==
    /\ pc = "Name"
    /\ \/ /\ request.skill = <<>>
          /\ pc' = "Print"
          /\ UNCHANGED <<sectionVars, exit>>
       \/ /\ request.skill # <<>>
          /\ ~SkillName(request.skill[1])
          /\ Failed("Skill", Unresolved)
       \/ /\ request.skill # <<>>
          /\ SkillName(request.skill[1])
          /\ pc' = "Skill"
          /\ UNCHANGED <<sectionVars, exit>>
    /\ UNCHANGED <<request, placeVars>>

(* join_blocks: project, then skill. *)
PrintBlocks ==
    /\ pc = "Print"
    /\ LET blocks == Blocks("Project", project) \o Blocks("Skill", skill)
       IN  \/ /\ stdout' = blocks
              /\ IF request.explain THEN pc' = "Explain" /\ UNCHANGED exit ELSE End(0)
           \/ blocks # <<>> /\ End(Panic) /\ UNCHANGED stdout
    /\ UNCHANGED <<request, team, project, skill, stderr, placeVars>>

(* The line that names the root is left out, with the later walks of        *)
(* locate, which fail as the first does.  eprintln! panics as println! does.*)
Explain ==
    /\ pc = "Explain"
    /\ walk = 0
    /\ LET lines == ExplainLines("Project", project) \o ExplainLines("Skill", skill)
       IN  \/ (Locates => base # 0) /\ stderr' = lines /\ End(0)
           \/ /\ Locates /\ base = 0 /\ request.fail_safe
              /\ stderr' = <<Line("None", "None", "unavailable")>> /\ End(0)
           \/ Locates /\ base = 0 /\ ~request.fail_safe /\ End(1) /\ UNCHANGED stderr
           \/ (Locates \/ lines # <<>>) /\ End(Panic) /\ UNCHANGED stderr
    /\ Leave
    /\ UNCHANGED <<request, team, project, skill, stdout>>

PromptStep ==
    \/ \E source \in Sources : NoDirectory(source) \/ ReadTeam(source) \/ ReadPersonal(source)
    \/ LocateSource \/ ParseName \/ PrintBlocks \/ Explain

-----------------------------------------------------------------------------
(* The command has printed all that it prints on stdout. *)
Printed == pc = "Explain" \/ (pc = "Ended" /\ exit = 0)

Requested ==
    IF request.command = "context" /\ request.skill = <<>> THEN {"Project"}
    ELSE IF request.command = "context" THEN Sources
    ELSE IF request.command = "instructions" /\ request.skill # <<>> THEN {"Skill"}
    ELSE {}

SectionOf(source) == IF source = "Project" THEN project ELSE skill
BlocksOf(source)  == {i \in DOMAIN stdout : stdout[i].source = source}
Words(lines)      == {lines[i] : i \in DOMAIN lines} \ {Blank}

(* "degrades each source through - so an unreadable skill file still leaves *)
(* the healthy project block standing": every requested source has one      *)
(* block, or none when it has no text, whatever became of the other; the    *)
(* project's is first; and a command that fails has printed nothing, unless *)
(* it is the diagnostic that failed.                                        *)
SourcesStandAlone ==
    /\ Printed => \A source \in Sources :
          LET section == SectionOf(source)
              silent  == \/ source \notin Requested
                         \/ /\ section.state = "Assembled"
                            /\ \A i \in 1..2 : Words(section.docs[i].lines) = {}
          IN  IF silent THEN BlocksOf(source) = {}
              ELSE \E i \in DOMAIN stdout :
                      /\ BlocksOf(source) = {i}
                      /\ stdout[i].notice = IF section.state = "Assembled" THEN NoError
                                            ELSE section.error
                      /\ section.state # "Assembled" => section.error # NoError
    /\ Printed => \A i, j \in DOMAIN stdout :
          i < j => stdout[i].source = "Project" /\ stdout[j].source = "Skill"
    /\ pc = "Ended" /\ exit # 0 /\ stdout # <<>> => request.explain

(* "The two bodies are trimmed independently, the empty ones dropped, and   *)
(* the survivors joined team-then-personal with a single blank line": what  *)
(* a block says is each document without the blank lines around it.         *)
IsTrimmed(part, lines) ==
    \E i, j \in DOMAIN lines :
        /\ part = SubSeq(lines, i, j)
        /\ lines[i] # Blank /\ lines[j] # Blank
        /\ \A k \in DOMAIN lines : k < i \/ k > j => lines[k] = Blank

SaysBoth(text, first, second) ==
    \/ Words(second) = {} /\ IsTrimmed(text, first)
    \/ Words(first) = {} /\ IsTrimmed(text, second)
    \/ \E k \in DOMAIN text :
          /\ text[k] = Blank
          /\ IsTrimmed(SubSeq(text, 1, k - 1), first)
          /\ IsTrimmed(SubSeq(text, k + 1, Len(text)), second)

TextIsWhole ==
    \A i \in DOMAIN stdout : stdout[i].notice = NoError =>
        LET docs == SectionOf(stdout[i].source).docs
        IN  SaysBoth(stdout[i].text, docs[1].lines, docs[2].lines)

(* "a level's has_body can never disagree with whether it appears in the    *)
(* fragment": --explain reports a body where, and only where, the block     *)
(* that was printed has its text.                                           *)
ExplainAgrees ==
    pc = "Ended" /\ exit = 0 => \A i \in DOMAIN stderr :
        LET line == stderr[i]
            said == UNION {Words(stdout[j].text) :
                       j \in {k \in DOMAIN stdout : stdout[k].source = line.source}}
            doc  == SectionOf(line.source).docs[IF line.level = "Team" THEN 1 ELSE 2]
        IN  line.state \in {"body present", "empty body", "not found"} =>
              (line.state = "body present"
               <=> Words(doc.lines) # {} /\ Words(doc.lines) \subseteq said)
=============================================================================
