------------------------------ MODULE Discovery -------------------------------
(***************************************************************************)
(* Where the documents of a command are: the nearest ancestor of the       *)
(* current directory that holds a .luminosity directory or a .git entry,   *)
(* found by one walk upward (config-adapters/src/store.rs, discover_root)  *)
(* that is made anew for every document that is read (launcher/src/        *)
(* main.rs, discover_store), while people create and remove both.          *)
(***************************************************************************)
EXTENDS Naturals

CONSTANT Depth      \* number of ancestors, the current directory included

ASSUME DiscoveryAssumption == Depth \in Nat \ {0}

(* An ancestor and what it holds.  1 is the current directory. *)
Marks == (1..Depth) \X {".luminosity", ".git"}

VARIABLES
    marks,      \* what the ancestors hold now
    walk,       \* the ancestor to be examined next, or 0
    base,       \* where the walk ended, or 0
    steady,     \* marks that have been there since the walk began
    ever        \* marks that have been there at some time since then

placeVars == <<marks, walk, base, steady, ever>>

DiscoveryInit ==
    /\ walk = 0
    /\ base = 0
    /\ steady = {}
    /\ ever = {}

Unlocated == walk = 0 /\ base = 0

(* FileConfigStore::discover. *)
Discover ==
    /\ Unlocated
    /\ walk' = 1
    /\ steady' = marks
    /\ ever' = marks
    /\ UNCHANGED <<marks, base>>

(* Mutant of Ascend: the walk passes repositories without .luminosity.      *)
AscendToProject ==
    /\ walk # 0
    /\ IF <<walk, ".luminosity">> \in marks THEN walk' = 0 /\ base' = walk
       ELSE IF walk < Depth THEN walk' = walk + 1 /\ UNCHANGED base
       ELSE walk' = 0 /\ base' = 1
    /\ UNCHANGED <<marks, steady, ever>>

(* One turn of discover_root's loop, or its end. *)
Ascend ==
    /\ walk # 0
    /\ IF \E mark \in marks : mark[1] = walk THEN walk' = 0 /\ base' = walk
       ELSE IF walk < Depth THEN walk' = walk + 1 /\ UNCHANGED base
       ELSE walk' = 0 /\ base' = 1
    /\ UNCHANGED <<marks, steady, ever>>

(* The store is dropped. *)
Leave ==
    /\ walk' = 0 /\ base' = 0 /\ steady' = {} /\ ever' = {}
    /\ UNCHANGED marks

(* A .luminosity directory or a .git entry is created or removed. *)
Move ==
    /\ \E mark \in Marks : marks' = IF mark \in marks THEN marks \ {mark}
                                    ELSE marks \cup {mark}
    /\ IF Unlocated THEN UNCHANGED <<steady, ever>>
       ELSE steady' = steady \cap marks' /\ ever' = ever \cup marks'
    /\ UNCHANGED <<walk, base>>

-----------------------------------------------------------------------------
DiscoveryTypeOK ==
    /\ marks \subseteq Marks /\ steady \subseteq Marks /\ ever \subseteq Marks
    /\ walk \in 0..Depth /\ base \in 0..Depth

(* "An enclosing .git bounds it - discovery never crosses a repo boundary   *)
(* to root above a nested repo": whatever is created or removed meanwhile,  *)
(* what is read comes from no directory above one that was marked all       *)
(* along, and from the current directory itself if none was marked.         *)
NeverAboveRepo ==
    base # 0 =>
        /\ \A mark \in steady : base <= mark[1]
        /\ \/ \E mark \in ever : mark[1] = base
           \/ base = 1 /\ steady = {}
=============================================================================
