---------------------------- MODULE Verification ----------------------------
(***************************************************************************)
(* The launcher's trust decisions: any-of minisign verification (keys.rs), *)
(* the sha256 + signature check of a binary (verifier.rs) and the release  *)
(* manifest (manifest.rs).                                                 *)
(*                                                                         *)
(* Bytes, digests and signatures are opaque values.  What a real digest or *)
(* signature scheme decides is a constant: Sha256 gives each byte string   *)
(* its digest, Minisigned is the set of triples <<key, data, signature>>   *)
(* that minisign accepts.  Whether two blobs may share a digest is a       *)
(* separate assumption, CollisionFree.                                     *)
(***************************************************************************)
EXTENDS Naturals, FiniteSets

CONSTANTS
    Names,          \* sub-command names, the keys of Manifest.binaries
    Versions,       \* release versions
    Platforms,      \* host platform aliases, e.g. linux-x64
    HostPlatform,   \* the one this launcher was built for
    Blobs,          \* contents a binary file or an asset body can have
    Sigs,           \* contents a signature file or body can have
    Manifests,      \* contents a manifest.json body can have
    Digests,        \* sha256 digests
    Keys,           \* minisign keys
    TrustedKeys,    \* the ones embedded in the launcher
    Sha256,         \* the digest of each blob
    Minisigned,     \* <<key, data, signature>> accepted by minisign
    Parsed          \* what serde reads out of each manifest body

ASSUME VerificationAssumption ==
    /\ HostPlatform \in Platforms
    /\ TrustedKeys \subseteq Keys
    /\ Sha256 \in [Blobs -> Digests]
    /\ Parsed \in [Manifests ->
            [json : BOOLEAN, schema_version : Nat, version : Versions,
             binaries : SUBSET [name : Names, platform : Platforms,
                                sha256 : Digests, signature : Sigs]]]

(* Two contents that get the same digest are the same content. *)
ASSUME CollisionFree ==
    \A b, c \in Blobs : Sha256[b] = Sha256[c] => b = c

SUPPORTED_SCHEMA_VERSION == 1

(* TrustedKeys::verifies: one trusted key accepting is enough. *)
Verifies(data, signature) ==
    \E key \in TrustedKeys : <<key, data, signature>> \in Minisigned

(* verify_binary: the digest is compared first, so corruption is reported   *)
(* as a checksum mismatch whatever the signature says.                      *)
VerifyBinary(bytes, sha, signature) ==
    IF Sha256[bytes] # sha THEN "ChecksumMismatch"
    ELSE IF ~Verifies(bytes, signature) THEN "SignatureMismatch"
    ELSE "Ok"

ParseAnyVersion(bytes, expected) ==  \* mutant: no anti-rollback check
    IF ~Parsed[bytes].json THEN "Cache"
    ELSE IF Parsed[bytes].schema_version > SUPPORTED_SCHEMA_VERSION
         THEN "UnsupportedSchema"
    ELSE "Ok"

(* Manifest::parse_and_validate, in the order of its early returns. *)
ParseAndValidate(bytes, expected) ==
    LET manifest == Parsed[bytes] IN
    IF ~manifest.json THEN "Cache"
    ELSE IF manifest.schema_version > SUPPORTED_SCHEMA_VERSION
         THEN "UnsupportedSchema"
    ELSE IF manifest.version # expected THEN "ManifestVersionMismatch"
    ELSE "Ok"

(* The tail of load_manifest: the signature is checked over the raw bytes   *)
(* before anything is parsed out of them.                                   *)
ValidateManifest(bytes, signature, expected) ==
    IF ~Verifies(bytes, signature) THEN "ManifestSignature"
    ELSE ParseAndValidate(bytes, expected)

(* Manifest::platform_entry: the host's entry for a binary, none or one. *)
PlatformEntry(bytes, name) ==
    {b \in Parsed[bytes].binaries : b.name = name /\ b.platform = HostPlatform}

-----------------------------------------------------------------------------
(* What the checks are for.  A release publishes digest sha as name at      *)
(* version when a manifest a trusted key signed says so; a byte string is   *)
(* the genuine content of a cache entry when it has that published digest   *)
(* and a trusted key signed it.                                             *)

Endorsed(name, version, sha) ==
    \E m \in Manifests, s \in Sigs :
        /\ Verifies(m, s)
        /\ Parsed[m].version = version
        /\ \E b \in PlatformEntry(m, name) : b.sha256 = sha

Authentic(bytes, sha) ==
    Sha256[bytes] = sha /\ \E s \in Sigs : Verifies(bytes, s)
=============================================================================
