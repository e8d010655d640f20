---------------------------- MODULE MCConfigStore -----------------------------
(***************************************************************************)
(* Small configurations: a section a with a leaf a.b, a leaf c whose value *)
(* is an integer above i64, and documents of every kind.                   *)
(***************************************************************************)
EXTENDS ConfigStore, TLC

CONSTANTS p1, p2

MCKeys    == {"a", "a.b", "c"}
MCAbove   == {<<"a", "a.b">>}
MCScalars == {"x", "y", "true", "2^63", "'2^63'"}
MCStrings == {"x", "y", "'2^63'"}
MCTyped   == [v \in MCScalars |-> IF v = "2^63" THEN "'2^63'" ELSE v]
MCBodies  == {"none", "prose", "more prose"}

Doc(kind, tree, body, escapes) ==
    [kind |-> kind, tree |-> tree, body |-> body, escapes |-> escapes]
Tree(a, ab, c) ==
    [k \in MCKeys |-> CASE k = "a" -> a [] k = "a.b" -> ab [] k = "c" -> c]
MCEmpty == Tree("Absent", "Absent", "Absent")

Plain1  == Doc("Mapping", Tree("Section", "true", "2^63"), "prose", FALSE)
Leaf    == Doc("Mapping", Tree("x", "Absent", "Absent"), "more prose", FALSE)
Broken  == Doc("Malformed", MCEmpty, "prose", FALSE)
Open    == Doc("Unterminated", MCEmpty, "prose", FALSE)
Break   == Doc("Prose", MCEmpty, "prose", FALSE)
Link    == Doc("Mapping", Tree("Absent", "Absent", "y"), "prose", TRUE)

Start(team, personal) ==
    [l \in Levels |-> IF l = "Team" THEN team ELSE personal]

HalfBroken == {Start(Plain1, Broken)}
Prosaic == {Start(Break, NoFile)}

SetAB(l)  == [op |-> "Set", key |-> "a.b", value |-> "x", levels |-> <<l>>]
SetC(l)   == [op |-> "Set", key |-> "c", value |-> "y", levels |-> <<l>>]
GetAB     == [op |-> "Get", key |-> "a.b", value |-> "Absent",
              levels |-> <<"Personal", "Team">>]
Read2     == [op |-> "Context", key |-> "a", value |-> "Absent",
              levels |-> <<"Team", "Personal">>]

Sets     == {SetAB("Team"), SetC("Team")}
Mixed    == {SetAB("Team"), SetC("Team"), SetAB("Personal"), GetAB, Read2}

SomeDrafts == {Leaf, Open, Link}

Symmetry == Permutations(Procs)
=============================================================================
