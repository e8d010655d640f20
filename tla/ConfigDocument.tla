---------------------------- MODULE ConfigDocument ----------------------------
(***************************************************************************)
(* Configuration documents (cli/config/src/{service,node}.rs and           *)
(* cli/config-adapters/src/{document,frontmatter}.rs): a Markdown file     *)
(* whose frontmatter is a tree of values and whose body is prose.          *)
(*                                                                         *)
(* A tree is a function from dotted keys to what stands there.  Bodies and *)
(* scalar values are opaque.  The order of keys is not modelled here.      *)
(***************************************************************************)
EXTENDS Naturals, Sequences, FiniteSets

CONSTANTS
    Keys,       \* dotted keys, with every key a path to them goes through
    Above,      \* <<k, j>>: the segments of k are a proper prefix of those of j
    Scalars,    \* values a leaf can have
    Strings,    \* the ones a set can write
    Typed,      \* what parsing makes of a scalar, e.g. of an integer above i64
    Bodies, NoBody,
    NoFile

ASSUME DocumentAssumption ==
    /\ Above \subseteq Keys \X Keys
    /\ \A k \in Keys : <<k, k>> \notin Above
    /\ \A i, j, k \in Keys :
          <<i, j>> \in Above /\ <<j, k>> \in Above => <<i, k>> \in Above
    /\ Strings \subseteq Scalars
    /\ Typed \in [Scalars -> Scalars]
    /\ Scalars \cap {"Absent", "Section", "List"} = {}
    /\ NoBody \in Bodies

(* Level: personal wins over team. *)
Levels == {"Team", "Personal"}

Shapes == Scalars \cup {"Absent", "Section", "List"}

Trees == {t \in [Keys -> Shapes] :
             \A k, j \in Keys : <<k, j>> \in Above /\ t[j] # "Absent"
                                => t[k] = "Section"}

EmptyTree == [k \in Keys |-> "Absent"]

(* How split and parse_frontmatter find a file: frontmatter that is a       *)
(* mapping (or empty, or no fence at all), that parses as something else,   *)
(* that does not parse, or that is never closed.                            *)
Kinds == {"Mapping", "Prose", "Malformed", "Unterminated"}

Contents ==
    {c \in [kind : Kinds, tree : Trees, body : Bodies, escapes : BOOLEAN] :
        c.kind # "Mapping" => c.tree = EmptyTree}

ASSUME NoFileAssumption == NoFile \notin Contents

Files == Contents \cup {NoFile}

(* The path is a symbolic link to somewhere outside .luminosity/. *)
Escapes(c) == c # NoFile /\ c.escapes

(* FileConfigStore::read of such a file fails ... *)
Malformed(c) == c # NoFile /\ c.kind \in {"Malformed", "Unterminated"}

(* ... and read_body fails only where there is no split. *)
Unsplit(c) == c # NoFile /\ c.kind = "Unterminated"

(* The typed tree a file is read as; a file that is missing or whose        *)
(* frontmatter is no mapping is, for get and set, an empty one.             *)
TreeOf(c) ==
    IF c = NoFile THEN EmptyTree
    ELSE [k \in Keys |-> IF c.tree[k] \in Scalars THEN Typed[c.tree[k]]
                         ELSE c.tree[k]]

(* resolve: only a scalar is found. *)
Resolve(tree, key) == IF tree[key] \in Scalars THEN tree[key] ELSE "Absent"

(* insert fails on a section at the key, or on a value on the way to it. *)
Conflict(tree, key) ==
    \/ tree[key] \in {"Section", "List"}
    \/ \E k \in Keys : <<k, key>> \in Above /\ tree[k] \in Scalars \cup {"List"}

(* Mutant of Insert: the sections on the way to the key are not made. *)
InsertLeafOnly(tree, key, value) == [tree EXCEPT ![key] = value]

Insert(tree, key, value) ==
    [k \in Keys |-> IF k = key THEN value
                    ELSE IF <<k, key>> \in Above THEN "Section"
                    ELSE tree[k]]

(* preserved_body and render: new frontmatter over the body of what is in   *)
(* the file.  A link is replaced by a file.                                 *)
BodyOf(c) == IF c = NoFile THEN NoBody ELSE c.body

Rendered(tree, c) ==
    [kind |-> "Mapping", tree |-> tree, body |-> BodyOf(c), escapes |-> FALSE]

(* The file while only some of it is written. *)
Torn(c) == [kind |-> "Unterminated", tree |-> EmptyTree, body |-> c.body,
            escapes |-> FALSE]

(* read_fragment_body: what a prompt gets to see of a file, which is the    *)
(* whole of it when its frontmatter is no mapping.                          *)
Visible(c) ==
    [above |-> IF c = NoFile \/ c.kind = "Mapping" THEN "Nothing" ELSE c.kind,
     body  |-> BodyOf(c)]

-----------------------------------------------------------------------------
(* Commands: config get and set, and the reading of both bodies.  levels is *)
(* the order in which the code reads.                                       *)
Ops == {"Get", "Set", "Context"}

AllCommands ==
    [op : Ops, key : Keys, value : Strings \cup {"Absent"},
     levels : {<<"Personal", "Team">>, <<"Team", "Personal">>,
               <<"Team">>, <<"Personal">>}]

ConfigErrors == {"NotFound", "PathConflict", "Malformed", "UnsafePath", "Io"}

Replies ==
    [status : ConfigErrors \cup {"None", "Ok", "Crashed"},
     value  : Scalars \cup {"Absent"},
     shown  : Seq([above : Kinds \cup {"Nothing"}, body : Bodies])]

Plain(status) == [status |-> status, value |-> "Absent", shown |-> <<>>]

(* ConfigService::get: the first level in which the key is found decides. *)
FirstFound(values) ==
    LET found == {i \in DOMAIN values : values[i] # "Absent"}
    IN  IF found = {} THEN Plain("NotFound")
        ELSE [status |-> "Ok", shown |-> <<>>,
              value |-> values[CHOOSE i \in found : \A j \in found : i <= j]]

Lookup(command, seen) ==
    FirstFound([i \in DOMAIN command.levels |->
                    Resolve(TreeOf(seen[command.levels[i]]), command.key)])

(* FragmentAssembler::assemble: the bodies, in the order they were read. *)
Assembly(command, seen) ==
    [status |-> "Ok", value |-> "Absent",
     shown |-> [i \in DOMAIN command.levels |-> Visible(seen[command.levels[i]])]]

Answer(command, seen) ==
    IF command.op = "Get" THEN Lookup(command, seen) ELSE Assembly(command, seen)
=============================================================================
