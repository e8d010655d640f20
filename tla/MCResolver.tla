----------------------------- MODULE MCResolver -----------------------------
(***************************************************************************)
(* Small releases for the resolver.  Version "1" and "2" of sub-command    *)
(* foo, version "1" of foo-bar; a release of version "1" that was          *)
(* published a second time with another build of foo; and bodies a server  *)
(* may hand out that were never published.                                 *)
(***************************************************************************)
EXTENDS Resolver, TLC

CONSTANTS p1, p2

MCPlatforms == {"linux-x64", "darwin-arm64"}
MCBlobs     == {"foo1", "foo2", "junk"}
MCDigests   == {"d-foo1", "d-foo2", "d-junk"}
MCSha256    == [b \in MCBlobs |-> CASE b = "foo1" -> "d-foo1"
                                    [] b = "foo2" -> "d-foo2"
                                    [] b = "junk" -> "d-junk"]

(* The second trusted key is the one being rotated out. *)
MCKeys        == {"current", "outgoing", "stranger"}
MCTrustedKeys == {"current", "outgoing"}
MCSigs == {"s-foo1", "s-foo2", "s-m1", "s-m2", "s-m1bis", "s-next", "s-stranger"}

Row(n, p, d, s) == [name |-> n, platform |-> p, sha256 |-> d, signature |-> s]
Doc(json, schema, version, rows) ==
    [json |-> json, schema_version |-> schema, version |-> version,
     binaries |-> rows]

MCManifests == {"m1", "m1bis", "m2", "next", "forged"}
MCParsed == [m \in MCManifests |->
    CASE m = "m1" -> Doc(TRUE, 1, "1",
            {Row("foo", "linux-x64", "d-foo1", "s-foo1"),
             Row("foo", "darwin-arm64", "d-junk", "s-foo1"),
             Row("foo-bar", "linux-x64", "d-foo1", "s-foo1")})
      [] m = "m1bis" -> Doc(TRUE, 1, "1",
            {Row("foo", "linux-x64", "d-foo2", "s-foo2")})
      [] m = "m2" -> Doc(TRUE, 1, "2",
            {Row("foo", "linux-x64", "d-foo2", "s-foo2")})
      [] m = "next" -> Doc(TRUE, 2, "2", {})
      [] m = "forged" -> Doc(TRUE, 1, "1",
            {Row("foo", "linux-x64", "d-junk", "s-stranger")})]

MCMinisigned ==
    {<<"current", "foo1", "s-foo1">>, <<"outgoing", "foo2", "s-foo2">>,
     <<"current", "m1", "s-m1">>, <<"current", "m1bis", "s-m1bis">>,
     <<"outgoing", "m2", "s-m2">>, <<"current", "next", "s-next">>,
     <<"stranger", "junk", "s-stranger">>, <<"stranger", "forged", "s-stranger">>}

Foo(v)   == [name |-> "foo", version |-> v]
FooBar   == [name |-> "foo-bar", version |-> "1"]
MCTargets == [name : Names, version : Versions]

OneFoo   == {Foo("1")}
FooAndBar == {Foo("1"), FooBar}

(* ... and a name that is not UTF-8. *)
Unnamable == [name |-> "bad", version |-> "1"]
AllCommands == {Foo("1"), Foo("2"), FooBar, Unnamable}

DashExtends == {<<"foo", "foo-bar">>}
NoExtends   == {}

(* An honest release of each version. *)
HonestManifest == [v \in Versions |-> IF v = "1" THEN {"m1"} ELSE {"m2"}]
HonestSig      == [v \in Versions |-> IF v = "1" THEN {"s-m1"} ELSE {"s-m2"}]
HonestAsset    == [t \in MCTargets |-> IF t.version = "1" THEN {"foo1"} ELSE {"foo2"}]

(* The same, where the network may fail. *)
FlakyManifest == [v \in Versions |-> HonestManifest[v] \cup {"Unreachable"}]

(* Version 1 was published twice, under two digests, and the network may    *)
(* fail.                                                                    *)
TwiceManifest == [v \in Versions |->
    IF v = "1" THEN {"m1", "m1bis", "Unreachable"} ELSE {"m2"}]
TwiceSig      == [v \in Versions |-> IF v = "1" THEN {"s-m1", "s-m1bis"} ELSE {"s-m2"}]
TwiceAsset    == [t \in MCTargets |-> {"foo1", "foo2"}]

(* A server that answers anything. *)
AnyManifest == [v \in Versions |-> MCManifests \cup FetchErrors]
AnySig      == [v \in Versions |-> MCSigs \cup FetchErrors]
AnyAsset    == [t \in MCTargets |-> MCBlobs \cup FetchErrors]

Symmetry == Permutations(Procs)
=============================================================================
