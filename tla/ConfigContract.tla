---------------------------- MODULE ConfigContract ----------------------------
(***************************************************************************)
(* What concurrent configuration commands promise although nothing is      *)
(* locked: every answer is computed from documents that were each in place *)
(* at some moment of the command, a set replaces a document in one step by *)
(* one that changes a single key and keeps a body that was in place, and a *)
(* command that fails has changed nothing and had a reason to.  That a set *)
(* may undo another one that overlaps it is part of the contract: the      *)
(* project's plan accepts it.                                              *)
(*                                                                         *)
(* A link out of .luminosity/ is refused if it was there all along.  The   *)
(* code promises more, that such a link is never followed, but it checks a *)
(* path and opens it afterwards: a link that replaces a document in        *)
(* between is followed, so the contract has to allow that.                 *)
(***************************************************************************)
EXTENDS ConfigDocument

CONSTANTS Procs, Commands, InitialFiles, Drafts, IoFaults, Crashes

VARIABLES
    file,       \* per level, the document in place
    phase,      \* whether the process's command has begun, or ended
    command,    \* what it runs
    window,     \* per level, the documents in place at some moment of it
    reply       \* how it ended

vars == <<file, phase, command, window, reply>>

Init ==
    /\ file \in InitialFiles
    /\ phase = [p \in Procs |-> "New"]
    /\ command \in [Procs -> Commands]
    /\ window = [p \in Procs |-> [l \in Levels |-> {}]]
    /\ reply = [p \in Procs |-> Plain("None")]

Begin(p) ==
    /\ phase[p] = "New"
    /\ phase' = [phase EXCEPT ![p] = "Running"]
    /\ window' = [window EXCEPT ![p] = [l \in Levels |-> {file[l]}]]
    /\ UNCHANGED <<file, command, reply>>

(* The document of a level changes, and every running command may see it. *)
Put(level, content) ==
    /\ file' = [file EXCEPT ![level] = content]
    /\ window' = [p \in Procs |->
            IF phase'[p] = "Running" THEN [window[p] EXCEPT ![level] = @ \cup {content}]
            ELSE [l \in Levels |-> {}]]

Finish(p, answer) ==
    /\ phase[p] = "Running"
    /\ phase' = [phase EXCEPT ![p] = "Ended"]
    /\ reply' = [reply EXCEPT ![p] = answer]
    /\ UNCHANGED command

(* The level has not been a link out of the root throughout the command. *)
Contained(p, level) == \E c \in window[p][level] : ~Escapes(c)

Return(p) ==
    /\ command[p].op # "Set"
    /\ \A i \in DOMAIN command[p].levels : Contained(p, command[p].levels[i])
    /\ \E team \in window[p]["Team"], personal \in window[p]["Personal"] :
          LET seen == [l \in Levels |-> IF l = "Team" THEN team ELSE personal]
          IN  /\ \A i \in DOMAIN command[p].levels :
                    IF command[p].op = "Get"
                    THEN ~Malformed(seen[command[p].levels[i]])
                    ELSE ~Unsplit(seen[command[p].levels[i]])
              /\ Finish(p, Answer(command[p], seen))
    /\ window' = [window EXCEPT ![p] = [l \in Levels |-> {}]]
    /\ UNCHANGED file

Install(p) ==
    LET level == command[p].levels[1] IN
    /\ command[p].op = "Set"
    /\ Contained(p, level)
    /\ Finish(p, Plain("Ok"))
    /\ \E a, b \in window[p][level] :
          /\ ~Malformed(a) /\ ~Malformed(b)
          /\ ~Conflict(TreeOf(a), command[p].key)
          /\ Put(level, Rendered(Insert(TreeOf(a), command[p].key,
                                        command[p].value), b))

(* A document that justifies the error was in place. *)
Justified(p, error) ==
    \/ error = "Io" /\ IoFaults
    \/ error = "Crashed" /\ Crashes
    \/ \E i \in DOMAIN command[p].levels :
       \E c \in window[p][command[p].levels[i]] :
          \/ error = "UnsafePath" /\ Escapes(c)
          \/ error = "Malformed" /\ Malformed(c)
          \/ /\ error = "PathConflict"
             /\ command[p].op = "Set"
             /\ Conflict(TreeOf(c), command[p].key)

Fail(p) ==
    /\ \E error \in ConfigErrors \cup {"Crashed"} :
          Justified(p, error) /\ Finish(p, Plain(error))
    /\ window' = [window EXCEPT ![p] = [l \in Levels |-> {}]]
    /\ UNCHANGED file

(* Somebody edits, replaces or removes a document. *)
Edit(level) ==
    /\ \E content \in Drafts \cup {NoFile} : Put(level, content)
    /\ UNCHANGED <<phase, command, reply>>

Next ==
    \/ \E p \in Procs : Begin(p) \/ Return(p) \/ Install(p) \/ Fail(p)
    \/ \E level \in Levels : Edit(level)

Spec == Init /\ [][Next]_vars
=============================================================================
