----------------------------- MODULE ConfigStore ------------------------------
(***************************************************************************)
(* Processes that run config get, config set and the reading of prompt     *)
(* bodies on the same .luminosity directory                                *)
(* (cli/config/src/{service,fragment}.rs, cli/config-adapters/src/store.rs).*)
(* Nothing is locked.  Every read, write and rename is a step; a set reads *)
(* its document twice, once for the tree and once for the body.  Calls may *)
(* fail, processes may be killed, and somebody may edit a document.        *)
(***************************************************************************)
EXTENDS ConfigDocument

CONSTANTS
    Procs,
    Commands,      \* the commands that may be run
    InitialFiles,  \* the documents there may be at the start
    Drafts,        \* what an edit may leave behind
    MaxEdits,      \* bound on the number of edits
    IoFaults,      \* file-system calls may fail
    Crashes        \* processes may be killed

ASSUME StoreAssumption ==
    /\ Commands \subseteq AllCommands
    /\ \A c \in Commands : c.op = "Set" =>
          c.value \in Strings /\ Len(c.levels) = 1
    /\ InitialFiles \subseteq [Levels -> Files]
    /\ Drafts \subseteq Contents
    /\ MaxEdits \in Nat
    /\ {IoFaults, Crashes} \subseteq BOOLEAN

VARIABLES
    file,       \* per level, config.md or config.local.md
    tmp,        \* the process's file in .luminosity/tmp (pid and counter)
    pc,         \* the call it makes next
    command,    \* what it runs
    todo,       \* levels it has still to read
    got,        \* documents it has read
    draft,      \* the tree it is going to write
    page,       \* the text it is going to write
    reply,      \* how it ended
    edits,      \* number of edits so far
    window,     \* history: per level, the documents in place since it began
    overlapped  \* history: levels edited between a set's second read and its end

memory == <<todo, got, draft, page>>
vars   == <<file, tmp, pc, command, memory, reply, edits, window, overlapped>>

Labels == {"New", "Check", "Read", "Decide", "CheckAgain", "ReadAgain",
           "CreateTemp", "WriteTemp", "Rename", "Ended"}

Level(p) == command[p].levels[1]
Nothing  == [l \in Levels |-> NoFile]
NoWindow == [l \in Levels |-> {}]

Phase(label) == IF label \in {"New", "Ended"} THEN label ELSE "Running"

(* A set that holds the text it is going to write. *)
Writing(p) == pc[p] \in {"CreateTemp", "WriteTemp", "Rename"}

Init ==
    /\ file \in InitialFiles
    /\ tmp = [p \in Procs |-> NoFile]
    /\ pc = [p \in Procs |-> "New"]
    /\ command \in [Procs -> Commands]
    /\ todo = [p \in Procs |-> <<>>]
    /\ got = [p \in Procs |-> Nothing]
    /\ draft = [p \in Procs |-> EmptyTree]
    /\ page = [p \in Procs |-> NoFile]
    /\ reply = [p \in Procs |-> Plain("None")]
    /\ edits = 0
    /\ window = [p \in Procs |-> NoWindow]
    /\ overlapped = {}

Goto(p, label) == pc' = [pc EXCEPT ![p] = label]

(* The command ends, and the process's memory is gone. *)
End(p, answer) ==
    /\ Goto(p, "Ended")
    /\ reply' = [reply EXCEPT ![p] = answer]
    /\ todo' = [todo EXCEPT ![p] = <<>>]
    /\ got' = [got EXCEPT ![p] = Nothing]
    /\ draft' = [draft EXCEPT ![p] = EmptyTree]
    /\ page' = [page EXCEPT ![p] = NoFile]

(* ... without having changed a document. *)
Leave(p, answer) ==
    /\ End(p, answer)
    /\ window' = [window EXCEPT ![p] = NoWindow]
    /\ UNCHANGED <<file, command, edits, overlapped>>

(* A document changes under all running processes. *)
Put(level, content) ==
    /\ file' = [file EXCEPT ![level] = content]
    /\ window' = [p \in Procs |->
            IF Phase(pc'[p]) = "Running"
            THEN [window[p] EXCEPT ![level] = @ \cup {content}]
            ELSE NoWindow]

-----------------------------------------------------------------------------
Begin(p) ==
    /\ pc[p] = "New"
    /\ Goto(p, "Check")
    /\ todo' = [todo EXCEPT ![p] = command[p].levels]
    /\ window' = [window EXCEPT ![p] = [l \in Levels |-> {file[l]}]]
    /\ UNCHANGED <<file, tmp, command, got, draft, page, reply, edits, overlapped>>

(* Mutant of CheckPath: a link is followed wherever it leads. *)
CheckPathFollows(p) ==
    /\ pc[p] = "Check"
    /\ \/ IoFaults /\ Leave(p, Plain("Io"))
       \/ /\ Goto(p, "Read")
          /\ UNCHANGED <<file, command, memory, reply, edits, window, overlapped>>
    /\ UNCHANGED tmp

(* refuse_escaping_path. *)
CheckPath(p) ==
    /\ pc[p] = "Check"
    /\ \/ Escapes(file[Head(todo[p])]) /\ Leave(p, Plain("UnsafePath"))
       \/ IoFaults /\ Leave(p, Plain("Io"))
       \/ /\ ~Escapes(file[Head(todo[p])])
          /\ Goto(p, "Read")
          /\ UNCHANGED <<file, command, memory, reply, edits, window, overlapped>>
    /\ UNCHANGED tmp

(* read_and_split; get and set also parse the frontmatter. *)
Read(p) ==
    /\ pc[p] = "Read"
    /\ LET level  == Head(todo[p])
           failed == IF command[p].op = "Context" THEN Unsplit(file[level])
                     ELSE Malformed(file[level])
       IN  \/ failed /\ Leave(p, Plain("Malformed"))
           \/ IoFaults /\ Leave(p, Plain("Io"))
           \/ /\ ~failed
              /\ got' = [got EXCEPT ![p][level] = file[level]]
              /\ todo' = [todo EXCEPT ![p] = Tail(@)]
              /\ Goto(p, IF Len(todo[p]) = 1 THEN "Decide" ELSE "Check")
              /\ UNCHANGED <<file, command, draft, page, reply, edits,
                             window, overlapped>>
    /\ UNCHANGED tmp

(* The command's own computation, on what it has read. *)
Return(p) ==
    /\ pc[p] = "Decide"
    /\ command[p].op # "Set"
    /\ Leave(p, Answer(command[p], got[p]))
    /\ UNCHANGED tmp

(* Mutant of Modify: nothing refuses a section, or a value in the way. *)
ModifyUnchecked(p) ==
    /\ pc[p] = "Decide"
    /\ command[p].op = "Set"
    /\ draft' = [draft EXCEPT ![p] = Insert(TreeOf(got[p][Level(p)]),
                                           command[p].key, command[p].value)]
    /\ Goto(p, "CheckAgain")
    /\ UNCHANGED <<file, tmp, command, todo, got, page, reply, edits, window,
                   overlapped>>

Modify(p) ==
    /\ pc[p] = "Decide"
    /\ command[p].op = "Set"
    /\ LET tree == TreeOf(got[p][Level(p)])
           key  == command[p].key
       IN  \/ Conflict(tree, key) /\ Leave(p, Plain("PathConflict"))
           \/ /\ ~Conflict(tree, key)
              /\ draft' = [draft EXCEPT ![p] = Insert(tree, key, command[p].value)]
              /\ Goto(p, "CheckAgain")
              /\ UNCHANGED <<file, command, todo, got, page, reply, edits,
                             window, overlapped>>
    /\ UNCHANGED tmp

(* FileConfigStore::write. *)
CheckAgain(p) ==
    /\ pc[p] = "CheckAgain"
    /\ \/ Escapes(file[Level(p)]) /\ Leave(p, Plain("UnsafePath"))
       \/ IoFaults /\ Leave(p, Plain("Io"))
       \/ /\ ~Escapes(file[Level(p)])
          /\ Goto(p, "ReadAgain")
          /\ UNCHANGED <<file, command, memory, reply, edits, window, overlapped>>
    /\ UNCHANGED tmp

(* Mutants of ReadAgain: the body is the first read's; or whatever the      *)
(* document has become is rendered over.                                    *)
ReadAgainNever(p) ==
    /\ pc[p] = "ReadAgain"
    /\ page' = [page EXCEPT ![p] = Rendered(draft[p], got[p][Level(p)])]
    /\ Goto(p, "CreateTemp")
    /\ UNCHANGED <<file, tmp, command, todo, got, draft, reply, edits, window,
                   overlapped>>

ReadAgainUnchecked(p) ==
    /\ pc[p] = "ReadAgain"
    /\ page' = [page EXCEPT ![p] = Rendered(draft[p], file[Level(p)])]
    /\ Goto(p, "CreateTemp")
    /\ UNCHANGED <<file, tmp, command, todo, got, draft, reply, edits, window,
                   overlapped>>

ReadAgain(p) ==
    /\ pc[p] = "ReadAgain"
    /\ \/ Malformed(file[Level(p)]) /\ Leave(p, Plain("Malformed"))
       \/ IoFaults /\ Leave(p, Plain("Io"))
       \/ /\ ~Malformed(file[Level(p)])
          /\ page' = [page EXCEPT ![p] = Rendered(draft[p], file[Level(p)])]
          /\ Goto(p, "CreateTemp")
          /\ UNCHANGED <<file, command, todo, got, draft, reply, edits, window,
                         overlapped>>
    /\ UNCHANGED tmp

(* atomic_write: the temporary file has some of the text, then all of it,   *)
(* and is removed when a call fails.                                        *)
CreateTemp(p) ==
    /\ pc[p] = "CreateTemp"
    /\ \/ IoFaults /\ Leave(p, Plain("Io")) /\ UNCHANGED tmp
       \/ /\ tmp' = [tmp EXCEPT ![p] = Torn(page[p])]
          /\ Goto(p, "WriteTemp")
          /\ UNCHANGED <<file, command, memory, reply, edits, window, overlapped>>

(* Mutant of WriteTemp: the temporary file has the same name in every       *)
(* process.                                                                 *)
WriteSharedTemp(p) ==
    /\ pc[p] = "WriteTemp"
    /\ tmp' = [q \in Procs |-> page[p]]
    /\ Goto(p, "Rename")
    /\ UNCHANGED <<file, command, memory, reply, edits, window, overlapped>>

WriteTemp(p) ==
    /\ pc[p] = "WriteTemp"
    /\ \/ /\ IoFaults
          /\ tmp' = [tmp EXCEPT ![p] = NoFile]
          /\ Leave(p, Plain("Io"))
       \/ /\ tmp' = [tmp EXCEPT ![p] = page[p]]
          /\ Goto(p, "Rename")
          /\ UNCHANGED <<file, command, memory, reply, edits, window, overlapped>>

Rename(p) ==
    /\ pc[p] = "Rename"
    /\ tmp' = [tmp EXCEPT ![p] = NoFile]
    /\ \/ IoFaults /\ Leave(p, Plain("Io"))
       \/ /\ End(p, Plain("Ok"))
          /\ Put(Level(p), tmp[p])
          /\ UNCHANGED <<command, edits, overlapped>>

Crash(p) ==
    /\ Crashes
    /\ Phase(pc[p]) = "Running"
    /\ Leave(p, Plain("Crashed"))
    /\ UNCHANGED tmp

(* Somebody saves another document, or removes it, by an editor or git. *)
Edit(level) ==
    /\ edits < MaxEdits
    /\ edits' = edits + 1
    /\ UNCHANGED <<tmp, pc, command, memory, reply>>
    /\ \E content \in (Drafts \cup {NoFile}) \ {file[level]} : Put(level, content)
    /\ overlapped' = IF \E p \in Procs : Writing(p) /\ Level(p) = level
                     THEN overlapped \cup {level} ELSE overlapped

Step(p) ==
    \/ CheckPath(p) \/ Read(p) \/ Return(p) \/ Modify(p) \/ CheckAgain(p)
    \/ ReadAgain(p) \/ CreateTemp(p) \/ WriteTemp(p) \/ Rename(p)

Next ==
    \/ \E p \in Procs : Begin(p) \/ Step(p) \/ Crash(p)
    \/ \E level \in Levels : Edit(level)

Spec == Init /\ [][Next]_vars

-----------------------------------------------------------------------------
Contract == INSTANCE ConfigContract WITH
    phase <- [p \in Procs |-> Phase(pc[p])]

(* Whatever overlaps, the commands keep the contract: no torn or mixed      *)
(* document, one key changed at a time, errors justified and without        *)
(* effect, and nothing computed from a link out of .luminosity/ that was    *)
(* there since the command began.                                           *)
KeepsContract == Contract!Spec

TypeOK ==
    /\ file \in [Levels -> Files]
    /\ tmp \in [Procs -> Files]
    /\ pc \in [Procs -> Labels]
    /\ command \in [Procs -> Commands]
    /\ todo \in [Procs -> Seq(Levels)]
    /\ got \in [Procs -> [Levels -> Files]]
    /\ draft \in [Procs -> Trees]
    /\ page \in [Procs -> Files]
    /\ reply \in [Procs -> Replies]
    /\ edits \in 0..MaxEdits
    /\ window \in [Procs -> [Levels -> SUBSET Files]]
    /\ overlapped \subseteq Levels

(* What holds of a running command between its steps: everything it has     *)
(* read was in place since it began, in a path that was no link out of the  *)
(* root when it was checked, and was readable; its draft is the set of its  *)
(* key in what it read first, and its page that draft over the body of what *)
(* it read second, which without edits is still the document's.             *)
Contained(p, level) == \E c \in window[p][level] : ~Escapes(c)

HasRead(p, level) ==
    /\ got[p][level] \in window[p][level]
    /\ Contained(p, level)
    /\ IF command[p].op = "Context" THEN ~Unsplit(got[p][level])
       ELSE ~Malformed(got[p][level])

ReadsAreCurrent(p) ==
    Phase(pc[p]) = "Running" =>
        LET levels == command[p].levels
            done   == Len(levels) - Len(todo[p])
        IN  /\ \A level \in Levels : file[level] \in window[p][level]
            /\ done \in Nat
            /\ \A i \in 1..done : HasRead(p, levels[i])
            /\ \A i \in DOMAIN todo[p] : todo[p][i] = levels[done + i]
            /\ (todo[p] # <<>>) <=> (pc[p] \in {"Check", "Read"})
            /\ pc[p] = "Read" => Contained(p, Head(todo[p]))

DraftIsASet(p) ==
    pc[p] \in {"CheckAgain", "ReadAgain"} \/ Writing(p) =>
        LET tree == TreeOf(got[p][Level(p)])
        IN  /\ command[p].op = "Set"
            /\ ~Conflict(tree, command[p].key)
            /\ draft[p] = Insert(tree, command[p].key, command[p].value)

PageIsWhole(p) ==
    /\ Writing(p) => \E second \in window[p][Level(p)] :
          ~Malformed(second) /\ page[p] = Rendered(draft[p], second)
    /\ pc[p] = "Rename" => tmp[p] = page[p]

BodyIsCurrent(p) ==
    Writing(p) /\ Level(p) \notin overlapped =>
        /\ ~Malformed(file[Level(p)])
        /\ page[p].body = BodyOf(file[Level(p)])

StoreInv ==
    \A p \in Procs : /\ ReadsAreCurrent(p) /\ DraftIsASet(p)
                     /\ PageIsWhole(p) /\ BodyIsCurrent(p)

(* A set replaces a document that was never edited while a set was writing  *)
(* it; other sets may have replaced it since this one read it.              *)
Replaces(p, level) ==
    /\ pc[p] = "Rename" /\ pc'[p] = "Ended"
    /\ file'[level] # file[level]
    /\ level \notin overlapped

(* "preserving the existing file's body": sets that overlap leave the prose *)
(* of a document as prompts see it, although each writes back the body it   *)
(* read before the others replaced the document.  Frontmatter that is prose *)
(* itself is left to ProseSurvivesSets.                                     *)
BodySurvivesSets ==
    [][\A p \in Procs, level \in Levels :
          Replaces(p, level) /\ (file[level] = NoFile \/ file[level].kind # "Prose")
          => Visible(file'[level]) = Visible(file[level])]_vars

(* "so it is never overwritten": a set does not replace a malformed         *)
(* document, whichever of its two reads and of other sets came in between.  *)
MalformedSurvives ==
    [][\A p \in Procs, level \in Levels :
          Replaces(p, level) => ~Malformed(file[level])]_vars

(* "prose opening with a thematic break is never silently truncated": a set *)
(* leaves what prompts see of any document as it was.                       *)
ProseSurvivesSets ==
    [][\A p \in Procs, level \in Levels :
          Replaces(p, level) => Visible(file'[level]) = Visible(file[level])]_vars
=============================================================================
