----------------------------- MODULE MCBootstrap -----------------------------
(***************************************************************************)
(* A launcher that was built and signed twice under the same version, of   *)
(* which the release serves one; and a file that nobody signed.            *)
(***************************************************************************)
EXTENDS Bootstrap

CONSTANTS p1, p2

MCBinaries   == {"built", "rebuilt", "junk"}
MCSignatures == {"s-built", "s-rebuilt"}
MCAccepts    == {<<"s-built", "built">>, <<"s-rebuilt", "rebuilt">>}
MCReleased   == <<"s-built", "built">>
=============================================================================
