------------------------------ MODULE MCLauncher ------------------------------
(***************************************************************************)
(* Every kind of command line, in environments with and without an         *)
(* override, an XDG directory and a home, started by the bootstrap or      *)
(* directly; documents that are missing, blank, or have blank lines        *)
(* around and inside their text.                                           *)
(***************************************************************************)
EXTENDS Launcher

Request(c, s, e, f) == [command |-> c, skill |-> s, explain |-> e, fail_safe |-> f]

PromptLines(c) == {Request(c, s, e, f) :
    s \in {<<>>, <<{"alphanumeric", "hyphen"}>>, <<{}>>, <<{"alphanumeric", "separator"}>>,
           <<{"alphanumeric", "NotUtf8"}>>},
    e \in BOOLEAN, f \in BOOLEAN}
Other(c) == Request(c, <<>>, FALSE, FALSE)

Env(names) == [v \in Variables |-> v \in names \cup {"https"}]
MCEnvironments == {Env({"plugin", "home"}), Env({"plugin", "home", "xdg"}),
    Env({"plugin", "override", "home"}), Env({"plugin"}), Env({"home"}),
    Env({"plugin", "home", "fixture"}), [Env({"plugin", "home"}) EXCEPT !["https"] = FALSE]}

MCUsables == {{"override", "primary", "xdg", "home"}, {"xdg", "home"}, {"slash"}}

(* No mark; a project outside; a repository inside a project.               *)
MCMarks == {{}, {<<3, ".luminosity">>}, {<<2, ".git">>, <<3, ".luminosity">>}}

Setup(r, e, u, m) == [request |-> r, env |-> e, usable |-> u, marks |-> m]

MCSetups ==
    {Setup(Other(c), e, u, {<<2, ".git">>}) :
        c \in {"version", "config", "external", "help", "usage"},
        e \in MCEnvironments, u \in MCUsables}
    \cup {Setup(r, Env({"home"}), {}, m) :
        r \in PromptLines("context") \cup PromptLines("instructions") \cup {Other("config")},
        m \in MCMarks}

MCBodies == {<<"">>, <<"", "text", "", "more", "">>, <<"other">>}
=============================================================================
