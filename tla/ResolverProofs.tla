--------------------------- MODULE ResolverProofs ---------------------------
(***************************************************************************)
(* Proofs about Resolver, for any processes, releases and servers.         *)
(***************************************************************************)
EXTENDS Resolver, FiniteSetTheorems, TLAPS

-----------------------------------------------------------------------------
(* Facts about the constants, in the form the proofs use them. *)

LEMMA TimesFacts == 0 \in Times /\ 1 \in Times
  BY ResolverAssumption DEF Times

LEMMA CommandFacts ==
  ASSUME NEW t \in Commands
  PROVE  t \in Targets /\ t.name \in Names /\ t.version \in Versions
  BY ResolverAssumption DEF Targets

LEMMA ServedFacts ==
  ASSUME NEW t \in Commands
  PROVE  /\ \A r \in ServedManifest[t.version] : r \in Manifests \/ r \in FetchErrors
         /\ \A r \in ServedManifestSig[t.version] : r \in Sigs \/ r \in FetchErrors
         /\ \A r \in ServedAsset[t] : r \in Blobs \/ r \in FetchErrors
<1>1. t \in Targets /\ t.version \in Versions
  BY CommandFacts
<1>2. /\ ServedManifest[t.version] \in SUBSET (Manifests \cup FetchErrors)
      /\ ServedManifestSig[t.version] \in SUBSET (Sigs \cup FetchErrors)
      /\ ServedAsset[t] \in SUBSET (Blobs \cup FetchErrors)
  BY <1>1, ResolverAssumption
<1> QED
  BY <1>2

LEMMA EntryFacts ==
  ASSUME NEW m \in Manifests, NEW t \in Commands,
         NEW b \in PlatformEntry(m, t.name)
  PROVE  /\ b.sha256 \in Digests /\ b.signature \in Sigs
         /\ [name |-> t.name, version |-> t.version, sha |-> b.sha256] \in Entries
<1>1. b \in [name : Names, platform : Platforms, sha256 : Digests, signature : Sigs]
  BY VerificationAssumption DEF PlatformEntry
<1> QED
  BY <1>1, CommandFacts DEF Entries

LEMMA VerdictOutcomes ==
  /\ \A error \in FetchErrors, m \in BOOLEAN : FetchError(error, m) \in Outcomes
  /\ \A b, d, s : VerifyBinary(b, d, s) \in Outcomes \cup {"Ok"}
  /\ \A m, s, v : ValidateManifest(m, s, v) \in Outcomes \cup {"Ok"}
<1>1. \A error \in FetchErrors, m \in BOOLEAN : FetchError(error, m) \in Outcomes
  BY DEF FetchError, FetchErrors, Outcomes
<1>2. \A b, d, s : VerifyBinary(b, d, s) \in Outcomes \cup {"Ok"}
  BY DEF VerifyBinary, Outcomes
<1>3. \A m, s, v : ValidateManifest(m, s, v) \in Outcomes \cup {"Ok"}
  BY DEF ValidateManifest, ParseAndValidate, Outcomes
<1> QED
  BY <1>1, <1>2, <1>3

(* A process that ends leaves well-typed memory, and has nothing in hand.   *)
LEMMA ExitType ==
  ASSUME TypeInv, NEW p \in Procs, NEW how \in Outcomes, Exit(p, how),
         \A q \in Procs \ {p} : /\ tmpBin'[q] = tmpBin[q]
                                /\ tmpSig'[q] = tmpSig[q]
                                /\ ran'[q] = ran[q]
  PROVE  /\ MemoryOK'
         /\ pc' \in [Procs -> Labels]
         /\ outcome' \in [Procs -> Outcomes]
         /\ \A q \in Procs : InHand(q)'
<1>1. /\ MemoryOK'
      /\ pc' \in [Procs -> Labels]
      /\ outcome' \in [Procs -> Outcomes]
  BY DEF TypeInv, TypeOK, MemoryOK, ControlOK, Exit, Goto, Labels
<1>2. \A q \in Procs : InHand(q)'
  BY
     DEF TypeInv, TypeOK, MemoryOK, ControlOK, InHand, Exit, Goto, HoldsPath,
         Staged
<1> QED
  BY <1>1, <1>2

(* The three GETs: each ends the process, or hands one verified thing on.   *)
Got(p, label) == pc[p] = label /\ UNCHANGED <<disk, clock, temps, target, ran, history>>

LEMMA GetManifestCases ==
  ASSUME TypeInv, NEW p \in Procs, GetManifest(p)
  PROVE  /\ Got(p, "GetManifest")
         /\ \/ \E how \in Outcomes : Exit(p, how)
            \/ \E body \in Manifests :
                  /\ manifest' = [manifest EXCEPT ![p] = body]
                  /\ Goto(p, "GetManifestSig")
                  /\ UNCHANGED <<outcome, listing, path, buf, sigbuf, stats, victim>>
<1>1. Got(p, "GetManifest")
  BY DEF GetManifest, Got
<1>2. PICK body \in ServedManifest[target[p].version] :
         IF body \in FetchErrors THEN Exit(p, FetchError(body, TRUE))
         ELSE /\ manifest' = [manifest EXCEPT ![p] = body]
              /\ Goto(p, "GetManifestSig")
              /\ UNCHANGED <<outcome, listing, path, buf, sigbuf, stats, victim>>
  BY DEF GetManifest
<1>3. body \in Manifests \/ body \in FetchErrors
  BY ServedFacts DEF TypeInv, TypeOK, ControlOK
<1> QED
  BY <1>1, <1>2, <1>3, VerdictOutcomes

LEMMA GetManifestSigCases ==
  ASSUME TypeInv, NEW p \in Procs, GetManifestSig(p)
  PROVE  /\ Got(p, "GetManifestSig")
         /\ \/ \E how \in Outcomes : Exit(p, how)
            \/ \E e \in Entries, signature \in Sigs :
                  /\ IsFor(e, target[p]) /\ EndorsedEntry(e)
                  /\ path' = [path EXCEPT ![p] = e]
                  /\ sigbuf' = [sigbuf EXCEPT ![p] = signature]
                  /\ manifest' = [manifest EXCEPT ![p] = NoFile]
                  /\ Goto(p, "GetAsset")
                  /\ UNCHANGED <<outcome, listing, buf, stats, victim>>
<1> DEFINE verdict(s) == ValidateManifest(manifest[p], s, target[p].version)
           e(b) == [name |-> target[p].name, version |-> target[p].version,
                    sha |-> b.sha256]
           proceed(b) == /\ path' = [path EXCEPT ![p] = e(b)]
                         /\ sigbuf' = [sigbuf EXCEPT ![p] = b.signature]
                         /\ manifest' = [manifest EXCEPT ![p] = NoFile]
                         /\ Goto(p, "GetAsset")
                         /\ UNCHANGED <<outcome, listing, buf, stats, victim>>
<1>1. Got(p, "GetManifestSig")
  BY DEF GetManifestSig, Got
<1>2. PICK body \in ServedManifestSig[target[p].version] :
        \/ body \in FetchErrors /\ Exit(p, FetchError(body, TRUE))
        \/ verdict(body) # "Ok" /\ Exit(p, verdict(body))
        \/ Exit(p, "AssetNotFound")
        \/ /\ body \notin FetchErrors /\ verdict(body) = "Ok"
           /\ \E b \in PlatformEntry(manifest[p], target[p].name) : proceed(b)
  BY DEF GetManifestSig
<1>3. target[p] \in Commands /\ manifest[p] \in Manifests
  BY <1>1 DEF Got, TypeInv, TypeOK, ControlOK, InHand
<1>4. body \in Sigs \/ body \in FetchErrors
  BY <1>3, ServedFacts
<1>5. ASSUME body \in Sigs, verdict(body) = "Ok",
             NEW b \in PlatformEntry(manifest[p], target[p].name), proceed(b)
      PROVE  /\ e(b) \in Entries /\ b.sha256 \in Digests /\ b.signature \in Sigs
             /\ IsFor(e(b), target[p]) /\ EndorsedEntry(e(b))
  <2>1. e(b) \in Entries /\ b.sha256 \in Digests /\ b.signature \in Sigs
    BY <1>3, EntryFacts
  <2>2. Verifies(manifest[p], body) /\ Parsed[manifest[p]].version = target[p].version
    BY <1>5 DEF ValidateManifest, ParseAndValidate
  <2>3. Endorsed(target[p].name, target[p].version, b.sha256)
    BY <1>3, <1>5, <2>2 DEF Endorsed
  <2> QED
    BY <2>1, <2>3 DEF IsFor, EndorsedEntry
<1> HIDE DEF verdict
<1>6. verdict(body) \in Outcomes \cup {"Ok"}
  BY VerdictOutcomes DEF verdict
<1>7. CASE body \in FetchErrors /\ Exit(p, FetchError(body, TRUE))
  BY <1>1, <1>7, VerdictOutcomes
<1>8. CASE verdict(body) # "Ok" /\ Exit(p, verdict(body))
  BY <1>1, <1>6, <1>8
<1>9. CASE Exit(p, "AssetNotFound")
  BY <1>1, <1>9 DEF Outcomes
<1>10. CASE /\ body \notin FetchErrors /\ verdict(body) = "Ok"
            /\ \E b \in PlatformEntry(manifest[p], target[p].name) : proceed(b)
  <2>1. PICK b \in PlatformEntry(manifest[p], target[p].name) : proceed(b)
    BY <1>10
  <2>2. /\ e(b) \in Entries /\ b.sha256 \in Digests /\ b.signature \in Sigs
        /\ IsFor(e(b), target[p]) /\ EndorsedEntry(e(b))
    BY <1>4, <1>5, <1>10, <2>1
  <2> QED
    BY <1>1, <2>1, <2>2
<1> QED
  BY <1>2, <1>7, <1>8, <1>9, <1>10

LEMMA GetAssetCases ==
  ASSUME TypeInv, NEW p \in Procs, GetAsset(p)
  PROVE  /\ Got(p, "GetAsset")
         /\ \/ \E how \in Outcomes : Exit(p, how)
            \/ \E body \in Blobs :
                  /\ VerifyBinary(body, path[p].sha, sigbuf[p]) = "Ok"
                  /\ buf' = [buf EXCEPT ![p] = body]
                  /\ Goto(p, "WriteBinary")
                  /\ UNCHANGED <<outcome, listing, path, sigbuf, manifest, stats, victim>>
<1> DEFINE verdict(b) == VerifyBinary(b, path[p].sha, sigbuf[p])
<1>1. Got(p, "GetAsset")
  BY DEF GetAsset, Got
<1>2. PICK body \in ServedAsset[target[p]] :
        \/ body \in FetchErrors /\ Exit(p, FetchError(body, FALSE))
        \/ verdict(body) # "Ok" /\ Exit(p, verdict(body))
        \/ /\ body \notin FetchErrors /\ verdict(body) = "Ok"
           /\ buf' = [buf EXCEPT ![p] = body]
           /\ Goto(p, "WriteBinary")
           /\ UNCHANGED <<outcome, listing, path, sigbuf, manifest, stats, victim>>
  BY DEF GetAsset
<1>3. body \in Blobs \/ body \in FetchErrors
  BY ServedFacts DEF TypeInv, TypeOK, ControlOK
<1>4. verdict(body) \in Outcomes \cup {"Ok"}
  BY VerdictOutcomes
<1> HIDE DEF verdict
<1>5. CASE body \in FetchErrors /\ Exit(p, FetchError(body, FALSE))
  BY <1>1, <1>5, VerdictOutcomes
<1>6. CASE verdict(body) # "Ok" /\ Exit(p, verdict(body))
  BY <1>1, <1>4, <1>6
<1> QED
  BY <1>1, <1>2, <1>3, <1>5, <1>6 DEF verdict

LEMMA VerifiedFacts ==
  ASSUME NEW b \in Blobs, NEW d, NEW s \in Sigs, VerifyBinary(b, d, s) = "Ok"
  PROVE  Sha256[b] = d /\ Verifies(b, s) /\ Authentic(b, d)
  BY DEF VerifyBinary, Authentic

-----------------------------------------------------------------------------
LEMMA InitType == Init => TypeInv
<1> SUFFICES ASSUME Init PROVE TypeInv
  OBVIOUS
<1>1. TypeOK
  BY TimesFacts, ResolverAssumption
     DEF Init, TypeOK, DiskOK, TempsOK, ControlOK, MemoryOK, HistoryOK,
         Labels, Outcomes
<1>2. \A p \in Procs : InHand(p)
  BY DEF Init, InHand, HoldsPath, Staged
<1> QED
  BY <1>1, <1>2 DEF TypeInv

(* One step per action; in each, one per group of variables it assigns. *)
LEMMA NextType == TypeInv /\ [Next]_vars => TypeInv'
<1> SUFFICES ASSUME TypeInv, [Next]_vars PROVE TypeInv'
  OBVIOUS
<1> USE DEF TypeInv, TypeOK, Goto
<1>1. ASSUME NEW p \in Procs, NEW t \in Commands, Launch(p, t) PROVE TypeInv'
  <2>1. DiskOK' /\ MemoryOK'
    BY <1>1 DEF Launch, DiskOK, MemoryOK, disk, memory
  <2>2. TempsOK'
    BY <1>1, TimesFacts DEF Launch, TempsOK
  <2>3. ControlOK'
    BY <1>1 DEF Launch, ControlOK, Labels, result, Outcomes
  <2>4. HistoryOK'
    BY <1>1 DEF Launch, HistoryOK
  <2>5. \A q \in Procs : InHand(q)'
    BY <1>1 DEF Launch, InHand, ControlOK, MemoryOK,
         HoldsPath, Staged, temps, memory, result
  <2> QED
    BY <2>1, <2>2, <2>3, <2>4, <2>5
<1>2. ASSUME NEW p \in Procs, RejectName(p) PROVE TypeInv'
  <2>1. DiskOK' /\ TempsOK' /\ HistoryOK'
    BY <1>2 DEF RejectName, DiskOK, TempsOK, HistoryOK, disk, temps, history
  <2>2. ControlOK'
    BY <1>2 DEF RejectName, ControlOK, Labels, result, Exit, Outcomes
  <2>3. MemoryOK'
    BY <1>2 DEF RejectName, MemoryOK, Exit
  <2>4. \A q \in Procs : InHand(q)'
    BY <1>2 DEF RejectName, Exit, InHand, ControlOK, MemoryOK,
         HoldsPath, Staged, temps, memory, result
  <2> QED
    BY <2>1, <2>2, <2>3, <2>4
<1>3. ASSUME NEW p \in Procs, FindList(p) PROVE TypeInv'
  <2>1. DiskOK' /\ TempsOK' /\ HistoryOK'
    BY <1>3 DEF FindList, DiskOK, TempsOK, HistoryOK, disk, temps, history
  <2>2. ControlOK'
    BY <1>3 DEF FindList, ControlOK, Labels, result
  <2>3. MemoryOK'
    BY <1>3 DEF FindList, Scans, MemoryOK
  <2>4. \A q \in Procs : InHand(q)'
    BY <1>3 DEF FindList, InHand, ControlOK, MemoryOK,
         HoldsPath, Staged, temps, memory, result
  <2> QED
    BY <2>1, <2>2, <2>3, <2>4
<1>4. ASSUME NEW p \in Procs, FindProbe(p) PROVE TypeInv'
  <2>1. DiskOK' /\ TempsOK' /\ HistoryOK'
    BY <1>4 DEF FindProbe, DiskOK, TempsOK, HistoryOK, disk, temps, history
  <2>2. ControlOK'
    BY <1>4 DEF FindProbe, ControlOK, Labels, result
  <2>3. MemoryOK'
    BY <1>4 DEF FindProbe, MemoryOK
  <2>4. \A q \in Procs : InHand(q)'
    BY <1>4 DEF FindProbe, InHand, ControlOK, MemoryOK,
         HoldsPath, Staged, temps, memory, result
  <2> QED
    BY <2>1, <2>2, <2>3, <2>4
<1>5. ASSUME NEW p \in Procs, FindMiss(p) PROVE TypeInv'
  <2>1. DiskOK' /\ TempsOK' /\ HistoryOK'
    BY <1>5 DEF FindMiss, DiskOK, TempsOK, HistoryOK, disk, temps, history
  <2>2. ControlOK'
    BY <1>5 DEF FindMiss, ControlOK, Labels, result
  <2>3. MemoryOK'
    BY <1>5 DEF FindMiss, MemoryOK
  <2>4. \A q \in Procs : InHand(q)'
    BY <1>5 DEF FindMiss, InHand, ControlOK, MemoryOK,
         HoldsPath, Staged, temps, memory, result
  <2> QED
    BY <2>1, <2>2, <2>3, <2>4
<1>6. ASSUME NEW p \in Procs, ReadBinary(p) PROVE TypeInv'
  <2>1. DiskOK' /\ TempsOK' /\ HistoryOK'
    BY <1>6 DEF ReadBinary, DiskOK, TempsOK, HistoryOK, disk, temps, history
  <2>2. ControlOK'
    BY <1>6 DEF ReadBinary, ControlOK, Labels, result
  <2>3. MemoryOK'
    BY <1>6 DEF ReadBinary, MemoryOK, DiskOK, Present, InHand, HoldsPath
  <2>4. \A q \in Procs : InHand(q)'
    BY <1>6 DEF ReadBinary, DiskOK, Present, InHand, ControlOK, MemoryOK,
         HoldsPath, Staged, temps, memory, result
  <2> QED
    BY <2>1, <2>2, <2>3, <2>4
<1>7. ASSUME NEW p \in Procs, ReadSignature(p) PROVE TypeInv'
  <2>1. DiskOK' /\ TempsOK' /\ HistoryOK'
    BY <1>7 DEF ReadSignature, DiskOK, TempsOK, HistoryOK, disk, temps, history
  <2>2. ControlOK'
    BY <1>7 DEF ReadSignature, ControlOK, Labels, result
  <2>3. MemoryOK'
    BY <1>7 DEF ReadSignature, MemoryOK
  <2>4. \A q \in Procs : InHand(q)'
    BY <1>7 DEF ReadSignature, InHand, ControlOK, MemoryOK,
         HoldsPath, Staged, temps, memory, result
  <2> QED
    BY <2>1, <2>2, <2>3, <2>4
<1>8. ASSUME NEW p \in Procs, EvictBinary(p) PROVE TypeInv'
  <2>1. TempsOK' /\ MemoryOK'
    BY <1>8 DEF EvictBinary, TempsOK, MemoryOK, temps, memory
  <2>2. DiskOK'
    BY <1>8, TimesFacts DEF EvictBinary, DiskOK, RemoveBinaryOf
  <2>3. ControlOK'
    BY <1>8 DEF EvictBinary, ControlOK, Labels, result
  <2>4. HistoryOK'
    BY <1>8 DEF EvictBinary, HistoryOK, RemoveBinaryOf, Disturb
  <2>5. \A q \in Procs : InHand(q)'
    BY <1>8 DEF EvictBinary, InHand, ControlOK, MemoryOK,
         HoldsPath, Staged, temps, memory, result
  <2> QED
    BY <2>1, <2>2, <2>3, <2>4, <2>5
<1>9. ASSUME NEW p \in Procs, EvictSignature(p) PROVE TypeInv'
  <2>1. TempsOK'
    BY <1>9 DEF EvictSignature, TempsOK, temps
  <2>2. DiskOK'
    BY <1>9 DEF EvictSignature, DiskOK, RemoveSignatureOf
  <2>3. ControlOK'
    BY <1>9 DEF EvictSignature, ControlOK, Labels, result
  <2>4. MemoryOK'
    BY <1>9 DEF EvictSignature, MemoryOK
  <2>5. HistoryOK'
    BY <1>9 DEF EvictSignature, HistoryOK, RemoveSignatureOf, Disturb
  <2>6. \A q \in Procs : InHand(q)'
    BY <1>9 DEF EvictSignature, InHand, ControlOK, MemoryOK,
         HoldsPath, Staged, temps, memory, result
  <2> QED
    BY <2>1, <2>2, <2>3, <2>4, <2>5, <2>6
<1>10. ASSUME NEW p \in Procs, GetManifest(p) PROVE TypeInv'
  <2>1. Got(p, "GetManifest")
    BY <1>10, GetManifestCases
  <2>2. DiskOK' /\ TempsOK' /\ HistoryOK'
    BY <2>1 DEF Got, DiskOK, TempsOK, HistoryOK, disk, temps, history
  <2>3. ASSUME NEW how \in Outcomes, Exit(p, how) PROVE TypeInv'
    BY <2>1, <2>2, <2>3, ExitType DEF Got, temps, ControlOK
  <2>4. ASSUME NEW body \in Manifests,
               manifest' = [manifest EXCEPT ![p] = body],
               Goto(p, "GetManifestSig"),
               UNCHANGED <<outcome, listing, path, buf, sigbuf, stats, victim>>
        PROVE  TypeInv'
    <3>1. MemoryOK'
      BY <2>4 DEF MemoryOK
    <3>2. ControlOK'
      BY <2>1, <2>4 DEF Got, ControlOK, Labels
    <3>3. \A q \in Procs : InHand(q)'
      BY <2>1, <2>4
         DEF Got, InHand, ControlOK, MemoryOK, HoldsPath, Staged, temps
    <3> QED
      BY <2>2, <3>1, <3>2, <3>3
  <2> QED
    BY <1>10, <2>3, <2>4, GetManifestCases
<1>11. ASSUME NEW p \in Procs, GetManifestSig(p) PROVE TypeInv'
  <2>1. Got(p, "GetManifestSig")
    BY <1>11, GetManifestSigCases
  <2>2. DiskOK' /\ TempsOK' /\ HistoryOK'
    BY <2>1 DEF Got, DiskOK, TempsOK, HistoryOK, disk, temps, history
  <2>3. ASSUME NEW how \in Outcomes, Exit(p, how) PROVE TypeInv'
    BY <2>1, <2>2, <2>3, ExitType DEF Got, temps, ControlOK
  <2>4. ASSUME NEW e \in Entries, NEW signature \in Sigs,
               path' = [path EXCEPT ![p] = e],
               sigbuf' = [sigbuf EXCEPT ![p] = signature],
               manifest' = [manifest EXCEPT ![p] = NoFile],
               Goto(p, "GetAsset"),
               UNCHANGED <<outcome, listing, buf, stats, victim>>
        PROVE  TypeInv'
    <3>1. MemoryOK'
      BY <2>4 DEF MemoryOK
    <3>2. ControlOK'
      BY <2>1, <2>4 DEF Got, ControlOK, Labels
    <3>3. \A q \in Procs : InHand(q)'
      BY <2>1, <2>4
         DEF Got, InHand, ControlOK, MemoryOK, HoldsPath, Staged, temps
    <3> QED
      BY <2>2, <3>1, <3>2, <3>3
  <2> QED
    BY <1>11, <2>3, <2>4, GetManifestSigCases
<1>12. ASSUME NEW p \in Procs, GetAsset(p) PROVE TypeInv'
  <2>1. Got(p, "GetAsset")
    BY <1>12, GetAssetCases
  <2>2. DiskOK' /\ TempsOK' /\ HistoryOK'
    BY <2>1 DEF Got, DiskOK, TempsOK, HistoryOK, disk, temps, history
  <2>3. ASSUME NEW how \in Outcomes, Exit(p, how) PROVE TypeInv'
    BY <2>1, <2>2, <2>3, ExitType DEF Got, temps, ControlOK
  <2>4. ASSUME NEW body \in Blobs,
               buf' = [buf EXCEPT ![p] = body],
               Goto(p, "WriteBinary"),
               UNCHANGED <<outcome, listing, path, sigbuf, manifest, stats, victim>>
        PROVE  TypeInv'
    <3>1. MemoryOK'
      BY <2>4 DEF MemoryOK
    <3>2. ControlOK'
      BY <2>1, <2>4 DEF Got, ControlOK, Labels
    <3>3. \A q \in Procs : InHand(q)'
      BY <2>1, <2>4
         DEF Got, InHand, ControlOK, MemoryOK, HoldsPath, Staged, temps
    <3> QED
      BY <2>2, <3>1, <3>2, <3>3
  <2> QED
    BY <1>12, <2>3, <2>4, GetAssetCases
<1>13. ASSUME NEW p \in Procs, WriteBinary(p) PROVE TypeInv'
  <2>1. DiskOK' /\ HistoryOK'
    BY <1>13 DEF WriteBinary, DiskOK, HistoryOK, disk, history
  <2>2. TempsOK'
    BY <1>13 DEF WriteBinary, TempsOK, DiskOK, MemoryOK, InHand
  <2>3. ControlOK'
    BY <1>13 DEF WriteBinary, ControlOK, Labels, result, Exit, Outcomes
  <2>4. MemoryOK'
    BY <1>13 DEF WriteBinary, MemoryOK, Exit, memory
  <2>5. \A q \in Procs : InHand(q)'
    BY <1>13 DEF WriteBinary, Exit, TempsOK, InHand, ControlOK, MemoryOK,
         HoldsPath, Staged, temps, memory, result
  <2> QED
    BY <2>1, <2>2, <2>3, <2>4, <2>5
<1>14. ASSUME NEW p \in Procs, RenameBinary(p) PROVE TypeInv'
  <2>1. DiskOK'
    BY <1>14 DEF RenameBinary, DiskOK, TempsOK, InHand, HoldsPath
  <2>2. TempsOK'
    BY <1>14, TimesFacts DEF RenameBinary, TempsOK
  <2>3. ControlOK'
    BY <1>14 DEF RenameBinary, ControlOK, Labels, result, Exit, Outcomes
  <2>4. MemoryOK'
    BY <1>14 DEF RenameBinary, MemoryOK, Exit
  <2>5. HistoryOK'
    BY <1>14 DEF RenameBinary, HistoryOK
  <2>6. \A q \in Procs : InHand(q)'
    BY <1>14 DEF RenameBinary, Exit, InHand, ControlOK, MemoryOK,
         HoldsPath, Staged, temps, memory, result
  <2> QED
    BY <2>1, <2>2, <2>3, <2>4, <2>5, <2>6
<1>15. ASSUME NEW p \in Procs, WriteSignature(p) PROVE TypeInv'
  <2>1. DiskOK'
    BY <1>15 DEF WriteSignature, DiskOK, disk
  <2>2. TempsOK'
    BY <1>15 DEF WriteSignature, TempsOK, InHand
  <2>3. ControlOK'
    BY <1>15 DEF WriteSignature, ControlOK, Labels, result, Exit, Outcomes
  <2>4. MemoryOK'
    BY <1>15 DEF WriteSignature, MemoryOK, Exit, memory
  <2>5. HistoryOK'
    BY <1>15, CommandFacts DEF WriteSignature, HistoryOK, ControlOK
  <2>6. \A q \in Procs : InHand(q)'
    BY <1>15 DEF WriteSignature, Exit, TempsOK, InHand, ControlOK, MemoryOK,
         HoldsPath, Staged, temps, memory, result
  <2> QED
    BY <2>1, <2>2, <2>3, <2>4, <2>5, <2>6
<1>16. ASSUME NEW p \in Procs, RenameSignature(p) PROVE TypeInv'
  <2>1. DiskOK'
    BY <1>16 DEF RenameSignature, DiskOK, InHand
  <2>2. TempsOK'
    BY <1>16 DEF RenameSignature, TempsOK
  <2>3. ControlOK'
    BY <1>16 DEF RenameSignature, ControlOK, Labels, result, Exit, Outcomes
  <2>4. MemoryOK'
    BY <1>16 DEF RenameSignature, MemoryOK, Exit
  <2>5. HistoryOK'
    BY <1>16, CommandFacts DEF RenameSignature, HistoryOK, ControlOK
  <2>6. \A q \in Procs : InHand(q)'
    BY <1>16 DEF RenameSignature, Exit, InHand, ControlOK, MemoryOK,
         HoldsPath, Staged, temps, memory, result
  <2> QED
    BY <2>1, <2>2, <2>3, <2>4, <2>5, <2>6
<1>17. ASSUME NEW p \in Procs, ListCache(p) PROVE TypeInv'
  <2>1. DiskOK' /\ TempsOK'
    BY <1>17 DEF ListCache, DiskOK, TempsOK, disk, temps
  <2>2. ControlOK'
    BY <1>17 DEF ListCache, ControlOK, Labels, result
  <2>3. MemoryOK'
    <3>1. \A n : UnderPrefix(n) \subseteq Entries
      BY DEF UnderPrefix
    <3>2. PICK seen \in Scans(UnderPrefix(target[p].name)) :
             listing' = [listing EXCEPT ![p] = seen]
      BY <1>17 DEF ListCache
    <3>3. seen \subseteq Entries
      BY <3>1, <3>2 DEF Scans
    <3> QED
      BY <1>17, <3>2, <3>3 DEF ListCache, MemoryOK
  <2>4. HistoryOK'
    BY <1>17, CommandFacts DEF ListCache, HistoryOK, ControlOK
  <2>5. \A q \in Procs : InHand(q)'
    BY <1>17 DEF ListCache, InHand, ControlOK, MemoryOK,
         HoldsPath, Staged, temps, memory, result
  <2> QED
    BY <2>1, <2>2, <2>3, <2>4, <2>5
<1>18. ASSUME NEW p \in Procs, StatCache(p) PROVE TypeInv'
  <2>1. DiskOK' /\ TempsOK' /\ ControlOK' /\ HistoryOK'
    BY <1>18
       DEF StatCache, DiskOK, TempsOK, ControlOK, HistoryOK, disk, temps,
           result, history
  <2>2. MemoryOK'
    BY <1>18 DEF StatCache, MemoryOK, DiskOK
  <2>3. \A q \in Procs : InHand(q)'
    BY <1>18 DEF StatCache, InHand, ControlOK, MemoryOK,
         HoldsPath, Staged, temps, memory, result
  <2> QED
    BY <2>1, <2>2, <2>3
<1>19. ASSUME NEW p \in Procs, CompareWithCap(p) PROVE TypeInv'
  <2>1. DiskOK' /\ TempsOK' /\ HistoryOK'
    BY <1>19
       DEF CompareWithCap, DiskOK, TempsOK, HistoryOK, disk, temps, history
  <2>2. ControlOK'
    BY <1>19 DEF CompareWithCap, ControlOK, Labels, result
  <2>3. MemoryOK'
    BY <1>19 DEF CompareWithCap, MemoryOK
  <2>4. \A q \in Procs : InHand(q)'
    BY <1>19 DEF CompareWithCap, InHand, ControlOK, MemoryOK,
         HoldsPath, Staged, temps, memory, result
  <2> QED
    BY <2>1, <2>2, <2>3, <2>4
<1>20. ASSUME NEW p \in Procs, RemoveBinary(p) PROVE TypeInv'
  <2>1. TempsOK'
    BY <1>20 DEF RemoveBinary, TempsOK, temps
  <2>2. PICK v \in stats[p] :
          /\ RemoveBinaryOf(v[2], p)
          /\ victim' = [victim EXCEPT ![p] = v[2]]
          /\ stats' = [stats EXCEPT ![p] = @ \ {v}]
          /\ overdue' = IF bin'[v[2]] = NoFile THEN overdue
                        ELSE overdue \cup {target[p].name}
    BY <1>20 DEF RemoveBinary
  <2>3. v[2] \in Entries /\ target[p].name \in Names
    BY <2>2, CommandFacts DEF MemoryOK, ControlOK
  <2>4. DiskOK'
    BY <1>20, <2>2, <2>3, TimesFacts DEF RemoveBinary, RemoveBinaryOf, DiskOK
  <2>5. ControlOK'
    BY <1>20 DEF RemoveBinary, ControlOK, Labels, result
  <2>6. MemoryOK'
    BY <1>20, <2>2, <2>3 DEF RemoveBinary, MemoryOK
  <2>7. kept' \in [Procs -> BOOLEAN] /\ damagedBin' \in SUBSET Entries
    BY <2>2, <2>3 DEF RemoveBinaryOf, Disturb, HistoryOK
  <2>8. HistoryOK'
    BY <1>20, <2>2, <2>3, <2>7 DEF RemoveBinary, HistoryOK
  <2>9. \A q \in Procs : InHand(q)'
    BY <1>20, <2>2, <2>3
       DEF RemoveBinary, InHand, ControlOK, MemoryOK, HoldsPath, Staged, temps,
           result
  <2> QED
    BY <2>1, <2>4, <2>5, <2>6, <2>8, <2>9
<1>21. ASSUME NEW p \in Procs, RemoveSignature(p) PROVE TypeInv'
  <2>1. TempsOK'
    BY <1>21 DEF RemoveSignature, TempsOK, temps
  <2>2. DiskOK'
    BY <1>21 DEF RemoveSignature, DiskOK, RemoveSignatureOf
  <2>3. ControlOK'
    BY <1>21 DEF RemoveSignature, ControlOK, Labels, result
  <2>4. MemoryOK'
    BY <1>21 DEF RemoveSignature, MemoryOK
  <2>5. HistoryOK'
    BY <1>21 DEF RemoveSignature, HistoryOK, RemoveSignatureOf, Disturb
  <2>6. \A q \in Procs : InHand(q)'
    BY <1>21 DEF RemoveSignature, InHand, ControlOK, MemoryOK,
         HoldsPath, Staged, temps, memory, result
  <2> QED
    BY <2>1, <2>2, <2>3, <2>4, <2>5, <2>6
<1>22. ASSUME NEW p \in Procs, Exec(p) PROVE TypeInv'
  <2>1. DiskOK' /\ TempsOK' /\ HistoryOK'
    BY <1>22 DEF Exec, DiskOK, TempsOK, HistoryOK, disk, temps, history
  <2>2. ControlOK'
    BY <1>22
       DEF Exec, ControlOK, Labels, result, Exit, Outcomes, DiskOK, Present,
           InHand, HoldsPath
  <2>3. MemoryOK'
    BY <1>22 DEF Exec, MemoryOK, Exit
  <2>4. \A q \in Procs : InHand(q)'
    BY <1>22 DEF Exec, Exit, InHand, ControlOK, MemoryOK,
         HoldsPath, Staged, temps, memory, result
  <2> QED
    BY <2>1, <2>2, <2>3, <2>4
<1>23. ASSUME NEW p \in Procs, Crash(p) PROVE TypeInv'
  <2>1. DiskOK' /\ TempsOK'
    BY <1>23 DEF Crash, DiskOK, TempsOK, disk, temps
  <2>2. ControlOK'
    BY <1>23 DEF Crash, ControlOK, Labels, result, Exit, Outcomes
  <2>3. MemoryOK'
    BY <1>23 DEF Crash, MemoryOK, Exit
  <2>4. HistoryOK'
    BY <1>23, CommandFacts DEF Crash, HistoryOK, ControlOK
  <2>5. \A q \in Procs : InHand(q)'
    BY <1>23 DEF Crash, Exit, InHand, ControlOK, MemoryOK,
         HoldsPath, Staged, temps, memory, result
  <2> QED
    BY <2>1, <2>2, <2>3, <2>4, <2>5
<1>24. CASE Tick
  <2>1. TempsOK' /\ ControlOK' /\ MemoryOK' /\ HistoryOK'
    BY <1>24
       DEF Tick, TempsOK, ControlOK, MemoryOK, HistoryOK, temps, result,
           memory, history
  <2>2. DiskOK'
    BY <1>24, ResolverAssumption DEF Tick, DiskOK, Times, disk
  <2>3. \A q \in Procs : InHand(q)'
    BY <1>24 DEF Tick, InHand, ControlOK, MemoryOK,
         HoldsPath, Staged, temps, memory, result
  <2> QED
    BY <2>1, <2>2, <2>3
<1>25. ASSUME NEW e \in Entries, DamageBinary(e) PROVE TypeInv'
  <2>1. TempsOK' /\ ControlOK' /\ MemoryOK'
    BY <1>25
       DEF DamageBinary, TempsOK, ControlOK, MemoryOK, temps, result, memory
  <2>2. DiskOK'
    BY <1>25, TimesFacts DEF DamageBinary, DiskOK
  <2>3. HistoryOK'
    BY <1>25, ResolverAssumption DEF DamageBinary, HistoryOK, Disturb
  <2>4. \A q \in Procs : InHand(q)'
    BY <1>25 DEF DamageBinary, InHand, ControlOK, MemoryOK,
         HoldsPath, Staged, temps, memory, result
  <2> QED
    BY <2>1, <2>2, <2>3, <2>4
<1>26. ASSUME NEW e \in Entries, DamageSignature(e) PROVE TypeInv'
  <2>1. TempsOK' /\ ControlOK' /\ MemoryOK'
    BY <1>26
       DEF DamageSignature, TempsOK, ControlOK, MemoryOK, temps, result,
           memory
  <2>2. DiskOK'
    BY <1>26 DEF DamageSignature, DiskOK
  <2>3. HistoryOK'
    BY <1>26, ResolverAssumption DEF DamageSignature, HistoryOK, Disturb
  <2>4. \A q \in Procs : InHand(q)'
    BY <1>26 DEF DamageSignature, InHand, ControlOK, MemoryOK,
         HoldsPath, Staged, temps, memory, result
  <2> QED
    BY <2>1, <2>2, <2>3, <2>4
<1>27. CASE UNCHANGED vars
  BY <1>27 DEF vars, disk, temps, memory, result, history,
     DiskOK, TempsOK, ControlOK, MemoryOK, HistoryOK, InHand
<1> QED
  BY <1>1, <1>2, <1>3, <1>4, <1>5, <1>6, <1>7, <1>8, <1>9, <1>10,
     <1>11, <1>12, <1>13, <1>14, <1>15, <1>16, <1>17, <1>18, <1>19, <1>20,
     <1>21, <1>22, <1>23, <1>24, <1>25, <1>26, <1>27
     DEF Next, Step

-----------------------------------------------------------------------------
(* Entries appear under a final path only once a signed manifest has named *)
(* them.                                                                    *)
LEMMA GroundedNext == TypeInv /\ Grounded /\ [Next]_vars => Grounded'
<1> SUFFICES ASSUME TypeInv, Grounded, [Next]_vars PROVE Grounded'
  OBVIOUS
<1> USE DEF TypeInv, TypeOK, Grounded, Goto, disk, temps, memory, result,
            history, DiskOK, TempsOK, ControlOK, MemoryOK, HistoryOK, InHand,
            Present, HoldsPath, Staged
<1>1. ASSUME NEW p \in Procs, NEW t \in Commands, Launch(p, t) PROVE Grounded'
  BY <1>1 DEF Launch
<1>2. ASSUME NEW p \in Procs, RejectName(p) PROVE Grounded'
  BY <1>2 DEF RejectName, Exit
<1>3. ASSUME NEW p \in Procs, FindList(p) PROVE Grounded'
  BY <1>3 DEF FindList, Scans
<1>4. ASSUME NEW p \in Procs, FindProbe(p) PROVE Grounded'
  BY <1>4 DEF FindProbe
<1>5. ASSUME NEW p \in Procs, FindMiss(p) PROVE Grounded'
  BY <1>5 DEF FindMiss
<1>6. ASSUME NEW p \in Procs, ReadBinary(p) PROVE Grounded'
  BY <1>6 DEF ReadBinary
<1>7. ASSUME NEW p \in Procs, ReadSignature(p) PROVE Grounded'
  BY <1>7 DEF ReadSignature
<1>8. ASSUME NEW p \in Procs, EvictBinary(p) PROVE Grounded'
  BY <1>8 DEF EvictBinary, RemoveBinaryOf
<1>9. ASSUME NEW p \in Procs, EvictSignature(p) PROVE Grounded'
  BY <1>9 DEF EvictSignature, RemoveSignatureOf
<1>10. ASSUME NEW p \in Procs, GetManifest(p) PROVE Grounded'
  <2>1. Got(p, "GetManifest")
    BY <1>10, GetManifestCases
  <2>2. ASSUME NEW how \in Outcomes, Exit(p, how) PROVE Grounded'
    BY <2>1, <2>2 DEF Got, Exit
  <2>3. CASE /\ pc' = [pc EXCEPT ![p] = "GetManifestSig"]
             /\ UNCHANGED <<listing, path>>
    BY <2>1, <2>3 DEF Got
  <2> QED
    BY <1>10, <2>2, <2>3, GetManifestCases
<1>11. ASSUME NEW p \in Procs, GetManifestSig(p) PROVE Grounded'
  <2>1. Got(p, "GetManifestSig")
    BY <1>11, GetManifestSigCases
  <2>2. ASSUME NEW how \in Outcomes, Exit(p, how) PROVE Grounded'
    BY <2>1, <2>2 DEF Got, Exit
  <2>3. ASSUME NEW e \in Entries, NEW signature \in Sigs,
               IsFor(e, target[p]), EndorsedEntry(e),
               path' = [path EXCEPT ![p] = e],
               sigbuf' = [sigbuf EXCEPT ![p] = signature],
               pc' = [pc EXCEPT ![p] = "GetAsset"],
               UNCHANGED <<listing, buf>>
        PROVE  Grounded'
    BY <2>1, <2>3 DEF Got
  <2> QED
    BY <1>11, <2>2, <2>3, GetManifestSigCases
<1>12. ASSUME NEW p \in Procs, GetAsset(p) PROVE Grounded'
  <2>1. Got(p, "GetAsset")
    BY <1>12, GetAssetCases
  <2>2. ASSUME NEW how \in Outcomes, Exit(p, how) PROVE Grounded'
    BY <2>1, <2>2 DEF Got, Exit
  <2>3. ASSUME pc' = [pc EXCEPT ![p] = "WriteBinary"], UNCHANGED <<listing, path>>
        PROVE  Grounded'
    BY <2>1, <2>3 DEF Got
  <2> QED
    BY <1>12, <2>2, <2>3, GetAssetCases
<1>13. ASSUME NEW p \in Procs, WriteBinary(p) PROVE Grounded'
  <2>1. pc[p] = "WriteBinary" /\ UNCHANGED <<bin, target>>
    BY <1>13 DEF WriteBinary
  <2>2. CASE Exit(p, "Cache")
    BY <2>1, <2>2 DEF Exit
  <2>3. CASE pc' = [pc EXCEPT ![p] = "RenameBinary"] /\ UNCHANGED memory
    BY <2>1, <2>3
  <2> QED
    BY <1>13, <2>2, <2>3 DEF WriteBinary
<1>14. ASSUME NEW p \in Procs, RenameBinary(p) PROVE Grounded'
  <2>1. path[p] \in Entries /\ IsFor(path[p], target[p]) /\ EndorsedEntry(path[p])
    BY <1>14 DEF RenameBinary
  <2>2. \A e \in Entries : bin'[e] = bin[e] \/ e = path[p]
    BY <1>14 DEF RenameBinary, Exit
  <2>3. \A e \in Entries : Present(e)' => EndorsedEntry(e)
    BY <2>1, <2>2
  <2>4. pc' \in {[pc EXCEPT ![p] = "WriteSignature"], [pc EXCEPT ![p] = "Done"]}
    BY <1>14 DEF RenameBinary, Exit
  <2>5. \A q \in Procs : pc'[q] = "FindProbe" =>
           \A e \in listing'[q] : IsFor(e, target'[q]) /\ EndorsedEntry(e)
    BY <1>14, <2>4 DEF RenameBinary, Exit
  <2>6. \A q \in Procs : pc'[q] \in HoldsPath =>
           IsFor(path'[q], target'[q]) /\ EndorsedEntry(path'[q])
    BY <1>14, <2>1, <2>4 DEF RenameBinary, Exit
  <2> QED
    BY <2>3, <2>5, <2>6
<1>15. ASSUME NEW p \in Procs, WriteSignature(p) PROVE Grounded'
  <2>1. CASE Exit(p, "Cache")
    BY <1>15, <2>1 DEF WriteSignature, Exit
  <2>2. CASE ~Exit(p, "Cache")
    BY <1>15, <2>2 DEF WriteSignature
  <2> QED
    BY <2>1, <2>2
<1>16. ASSUME NEW p \in Procs, RenameSignature(p) PROVE Grounded'
  <2>1. UNCHANGED <<bin, target>>
    BY <1>16 DEF RenameSignature
  <2>2. CASE Exit(p, "Cache")
    BY <2>1, <2>2 DEF Exit
  <2>3. CASE /\ pc[p] = "RenameSignature"
             /\ pc' = [pc EXCEPT ![p] = "ListCache"]
             /\ UNCHANGED <<listing, path>>
    BY <2>1, <2>3
  <2> QED
    BY <1>16, <2>2, <2>3 DEF RenameSignature
<1>17. ASSUME NEW p \in Procs, ListCache(p) PROVE Grounded'
  BY <1>17 DEF ListCache
<1>18. ASSUME NEW p \in Procs, StatCache(p) PROVE Grounded'
  BY <1>18 DEF StatCache
<1>19. ASSUME NEW p \in Procs, CompareWithCap(p) PROVE Grounded'
  BY <1>19 DEF CompareWithCap
<1>20. ASSUME NEW p \in Procs, RemoveBinary(p) PROVE Grounded'
  BY <1>20 DEF RemoveBinary, RemoveBinaryOf
<1>21. ASSUME NEW p \in Procs, RemoveSignature(p) PROVE Grounded'
  BY <1>21 DEF RemoveSignature, RemoveSignatureOf
<1>22. ASSUME NEW p \in Procs, Exec(p) PROVE Grounded'
  <2>1. UNCHANGED <<bin, target>>
    BY <1>22 DEF Exec
  <2>2. ASSUME NEW how \in Outcomes, Exit(p, how) PROVE Grounded'
    BY <2>1, <2>2 DEF Exit
  <2>3. Exit(p, "Ran") \/ Exit(p, "Exec")
    BY <1>22 DEF Exec
  <2> QED
    BY <2>2, <2>3 DEF Outcomes
<1>23. ASSUME NEW p \in Procs, Crash(p) PROVE Grounded'
  BY <1>23 DEF Crash, Exit
<1>24. ASSUME Tick PROVE Grounded'
  BY <1>24 DEF Tick
<1>25. ASSUME NEW e \in Entries, DamageBinary(e) PROVE Grounded'
  BY <1>25 DEF DamageBinary
<1>26. ASSUME NEW e \in Entries, DamageSignature(e) PROVE Grounded'
  BY <1>26 DEF DamageSignature
<1>27. CASE UNCHANGED vars
  BY <1>27 DEF vars
<1> QED
  BY <1>1, <1>2, <1>3, <1>4, <1>5, <1>6, <1>7, <1>8, <1>9, <1>10, <1>11, <1>12, <1>13, <1>14, <1>15, <1>16, <1>17, <1>18, <1>19, <1>20, <1>21, <1>22, <1>23, <1>24, <1>25, <1>26, <1>27
     DEF Next, Step

(* The check of what GetAsset received carries over to the temporary files. *)
LEMMA VerifiedNext == TypeInv /\ VerifiedBeforeStored /\ [Next]_vars => VerifiedBeforeStored'
<1> SUFFICES ASSUME TypeInv, VerifiedBeforeStored, [Next]_vars PROVE VerifiedBeforeStored'
  OBVIOUS
<1> USE DEF TypeInv, TypeOK, VerifiedBeforeStored, Goto, disk, temps, memory,
            result, history, DiskOK, TempsOK, ControlOK, MemoryOK, HistoryOK,
            InHand, Present, HoldsPath, Staged
<1>1. ASSUME NEW p \in Procs, NEW t \in Commands, Launch(p, t) PROVE VerifiedBeforeStored'
  BY <1>1 DEF Launch
<1>2. ASSUME NEW p \in Procs, RejectName(p) PROVE VerifiedBeforeStored'
  BY <1>2 DEF RejectName, Exit
<1>3. ASSUME NEW p \in Procs, FindList(p) PROVE VerifiedBeforeStored'
  BY <1>3 DEF FindList
<1>4. ASSUME NEW p \in Procs, FindProbe(p) PROVE VerifiedBeforeStored'
  BY <1>4 DEF FindProbe
<1>5. ASSUME NEW p \in Procs, FindMiss(p) PROVE VerifiedBeforeStored'
  BY <1>5 DEF FindMiss
<1>6. ASSUME NEW p \in Procs, ReadBinary(p) PROVE VerifiedBeforeStored'
  BY <1>6 DEF ReadBinary
<1>7. ASSUME NEW p \in Procs, ReadSignature(p) PROVE VerifiedBeforeStored'
  BY <1>7 DEF ReadSignature
<1>8. ASSUME NEW p \in Procs, EvictBinary(p) PROVE VerifiedBeforeStored'
  BY <1>8 DEF EvictBinary, RemoveBinaryOf
<1>9. ASSUME NEW p \in Procs, EvictSignature(p) PROVE VerifiedBeforeStored'
  BY <1>9 DEF EvictSignature, RemoveSignatureOf
<1>10. ASSUME NEW p \in Procs, GetManifest(p) PROVE VerifiedBeforeStored'
  BY <1>10, GetManifestCases DEF Got, Exit
<1>11. ASSUME NEW p \in Procs, GetManifestSig(p) PROVE VerifiedBeforeStored'
  <2>1. Got(p, "GetManifestSig")
    BY <1>11, GetManifestSigCases
  <2>2. ASSUME NEW how \in Outcomes, Exit(p, how) PROVE VerifiedBeforeStored'
    BY <2>1, <2>2 DEF Got, Exit
  <2>3. ASSUME NEW e \in Entries, NEW signature \in Sigs,
               IsFor(e, target[p]), EndorsedEntry(e),
               path' = [path EXCEPT ![p] = e],
               sigbuf' = [sigbuf EXCEPT ![p] = signature],
               pc' = [pc EXCEPT ![p] = "GetAsset"],
               UNCHANGED <<listing, buf>>
        PROVE  VerifiedBeforeStored'
    BY <2>1, <2>3 DEF Got
  <2> QED
    BY <1>11, <2>2, <2>3, GetManifestSigCases
<1>12. ASSUME NEW p \in Procs, GetAsset(p) PROVE VerifiedBeforeStored'
  BY <1>12, GetAssetCases DEF Got, Exit
<1>13. ASSUME NEW p \in Procs, WriteBinary(p) PROVE VerifiedBeforeStored'
  BY <1>13 DEF WriteBinary, Exit
<1>14. ASSUME NEW p \in Procs, RenameBinary(p) PROVE VerifiedBeforeStored'
  <2>1. SignatureFor(path[p], sigbuf[p])
    BY <1>14, VerifiedFacts DEF RenameBinary, SignatureFor
  <2>2. CASE Exit(p, "Cache")
    BY <1>14, <2>2 DEF RenameBinary, Exit
  <2>3. CASE ~Exit(p, "Cache")
    BY <1>14, <2>1, <2>3 DEF RenameBinary
  <2> QED
    BY <2>2, <2>3
<1>15. ASSUME NEW p \in Procs, WriteSignature(p) PROVE VerifiedBeforeStored'
  BY <1>15 DEF WriteSignature, Exit
<1>16. ASSUME NEW p \in Procs, RenameSignature(p) PROVE VerifiedBeforeStored'
  BY <1>16 DEF RenameSignature, Exit
<1>17. ASSUME NEW p \in Procs, ListCache(p) PROVE VerifiedBeforeStored'
  BY <1>17 DEF ListCache
<1>18. ASSUME NEW p \in Procs, StatCache(p) PROVE VerifiedBeforeStored'
  BY <1>18 DEF StatCache
<1>19. ASSUME NEW p \in Procs, CompareWithCap(p) PROVE VerifiedBeforeStored'
  BY <1>19 DEF CompareWithCap
<1>20. ASSUME NEW p \in Procs, RemoveBinary(p) PROVE VerifiedBeforeStored'
  BY <1>20 DEF RemoveBinary, RemoveBinaryOf
<1>21. ASSUME NEW p \in Procs, RemoveSignature(p) PROVE VerifiedBeforeStored'
  BY <1>21 DEF RemoveSignature, RemoveSignatureOf
<1>22. ASSUME NEW p \in Procs, Exec(p) PROVE VerifiedBeforeStored'
  BY <1>22 DEF Exec, Exit
<1>23. ASSUME NEW p \in Procs, Crash(p) PROVE VerifiedBeforeStored'
  BY <1>23 DEF Crash, Exit
<1>24. ASSUME Tick PROVE VerifiedBeforeStored'
  BY <1>24 DEF Tick
<1>25. ASSUME NEW e \in Entries, DamageBinary(e) PROVE VerifiedBeforeStored'
  BY <1>25 DEF DamageBinary
<1>26. ASSUME NEW e \in Entries, DamageSignature(e) PROVE VerifiedBeforeStored'
  BY <1>26 DEF DamageSignature
<1>27. CASE UNCHANGED vars
  BY <1>27 DEF vars
<1> QED
  BY <1>1, <1>2, <1>3, <1>4, <1>5, <1>6, <1>7, <1>8, <1>9, <1>10, <1>11, <1>12, <1>13, <1>14, <1>15, <1>16, <1>17, <1>18, <1>19, <1>20, <1>21, <1>22, <1>23, <1>24, <1>25, <1>26, <1>27
     DEF Next, Step

(* Only renames of verified temporary files change undamaged entries.       *)
LEMMA UndamagedNext == TypeInv /\ VerifiedBeforeStored /\ UndamagedVerified /\ [Next]_vars => UndamagedVerified'
<1> SUFFICES ASSUME TypeInv, VerifiedBeforeStored /\ UndamagedVerified, [Next]_vars PROVE UndamagedVerified'
  OBVIOUS
<1> USE DEF TypeInv, TypeOK, UndamagedVerified, Goto, disk, temps, memory,
            result, history, DiskOK, TempsOK, ControlOK, MemoryOK, HistoryOK,
            InHand, Present, HoldsPath, Staged
<1>1. ASSUME NEW p \in Procs, NEW t \in Commands, Launch(p, t) PROVE UndamagedVerified'
  BY <1>1 DEF Launch
<1>2. ASSUME NEW p \in Procs, RejectName(p) PROVE UndamagedVerified'
  BY <1>2 DEF RejectName, Exit
<1>3. ASSUME NEW p \in Procs, FindList(p) PROVE UndamagedVerified'
  BY <1>3 DEF FindList
<1>4. ASSUME NEW p \in Procs, FindProbe(p) PROVE UndamagedVerified'
  BY <1>4 DEF FindProbe
<1>5. ASSUME NEW p \in Procs, FindMiss(p) PROVE UndamagedVerified'
  BY <1>5 DEF FindMiss
<1>6. ASSUME NEW p \in Procs, ReadBinary(p) PROVE UndamagedVerified'
  BY <1>6 DEF ReadBinary
<1>7. ASSUME NEW p \in Procs, ReadSignature(p) PROVE UndamagedVerified'
  BY <1>7 DEF ReadSignature
<1>8. ASSUME NEW p \in Procs, EvictBinary(p) PROVE UndamagedVerified'
  BY <1>8 DEF EvictBinary, RemoveBinaryOf
<1>9. ASSUME NEW p \in Procs, EvictSignature(p) PROVE UndamagedVerified'
  BY <1>9 DEF EvictSignature, RemoveSignatureOf
<1>10. ASSUME NEW p \in Procs, GetManifest(p) PROVE UndamagedVerified'
  BY <1>10, GetManifestCases DEF Got, Exit
<1>11. ASSUME NEW p \in Procs, GetManifestSig(p) PROVE UndamagedVerified'
  BY <1>11, GetManifestSigCases DEF Got, Exit
<1>12. ASSUME NEW p \in Procs, GetAsset(p) PROVE UndamagedVerified'
  BY <1>12, GetAssetCases DEF Got, Exit
<1>13. ASSUME NEW p \in Procs, WriteBinary(p) PROVE UndamagedVerified'
  BY <1>13 DEF WriteBinary, Exit
<1>14. ASSUME NEW p \in Procs, RenameBinary(p) PROVE UndamagedVerified'
  <2>1. tmpBin[p] \in Blobs /\ Authentic(tmpBin[p], path[p].sha)
    BY <1>14, VerifiedFacts DEF RenameBinary, VerifiedBeforeStored
  <2>2. CASE bin' = bin
    BY <1>14, <2>1, <2>2 DEF RenameBinary
  <2>3. CASE bin' # bin
    BY <1>14, <2>1, <2>3 DEF RenameBinary
  <2> QED
    BY <2>2, <2>3
<1>15. ASSUME NEW p \in Procs, WriteSignature(p) PROVE UndamagedVerified'
  BY <1>15 DEF WriteSignature, Exit
<1>16. ASSUME NEW p \in Procs, RenameSignature(p) PROVE UndamagedVerified'
  <2>1. SignatureFor(path[p], tmpSig[p]) /\ path[p] \in Entries
    BY <1>16 DEF RenameSignature, VerifiedBeforeStored
  <2> QED
    BY <1>16, <2>1 DEF RenameSignature
<1>17. ASSUME NEW p \in Procs, ListCache(p) PROVE UndamagedVerified'
  BY <1>17 DEF ListCache
<1>18. ASSUME NEW p \in Procs, StatCache(p) PROVE UndamagedVerified'
  BY <1>18 DEF StatCache
<1>19. ASSUME NEW p \in Procs, CompareWithCap(p) PROVE UndamagedVerified'
  BY <1>19 DEF CompareWithCap
<1>20. ASSUME NEW p \in Procs, RemoveBinary(p) PROVE UndamagedVerified'
  BY <1>20 DEF RemoveBinary, RemoveBinaryOf
<1>21. ASSUME NEW p \in Procs, RemoveSignature(p) PROVE UndamagedVerified'
  BY <1>21 DEF RemoveSignature, RemoveSignatureOf
<1>22. ASSUME NEW p \in Procs, Exec(p) PROVE UndamagedVerified'
  BY <1>22 DEF Exec, Exit
<1>23. ASSUME NEW p \in Procs, Crash(p) PROVE UndamagedVerified'
  BY <1>23 DEF Crash, Exit
<1>24. ASSUME Tick PROVE UndamagedVerified'
  BY <1>24 DEF Tick
<1>25. ASSUME NEW e \in Entries, DamageBinary(e) PROVE UndamagedVerified'
  BY <1>25 DEF DamageBinary
<1>26. ASSUME NEW e \in Entries, DamageSignature(e) PROVE UndamagedVerified'
  BY <1>26 DEF DamageSignature
<1>27. CASE UNCHANGED vars
  BY <1>27 DEF vars
<1> QED
  BY <1>1, <1>2, <1>3, <1>4, <1>5, <1>6, <1>7, <1>8, <1>9, <1>10, <1>11, <1>12, <1>13, <1>14, <1>15, <1>16, <1>17, <1>18, <1>19, <1>20, <1>21, <1>22, <1>23, <1>24, <1>25, <1>26, <1>27
     DEF Next, Step

(* No launcher process can replace a binary another one relies on with      *)
(* anything but an authentic one.                                           *)
LEMMA ReliedOnNext == TypeInv /\ VerifiedBeforeStored /\ ReliedOn /\ [Next]_vars => ReliedOn'
<1> SUFFICES ASSUME TypeInv, VerifiedBeforeStored /\ ReliedOn, [Next]_vars PROVE ReliedOn'
  OBVIOUS
<1> USE DEF TypeInv, TypeOK, ReliedOn, Goto, disk, temps, memory, result,
            history, DiskOK, TempsOK, ControlOK, MemoryOK, HistoryOK, InHand,
            Present, HoldsPath, Staged, Relying
<1>1. ASSUME NEW p \in Procs, NEW t \in Commands, Launch(p, t) PROVE ReliedOn'
  BY <1>1 DEF Launch
<1>2. ASSUME NEW p \in Procs, RejectName(p) PROVE ReliedOn'
  BY <1>2 DEF RejectName, Exit
<1>3. ASSUME NEW p \in Procs, FindList(p) PROVE ReliedOn'
  BY <1>3 DEF FindList
<1>4. ASSUME NEW p \in Procs, FindProbe(p) PROVE ReliedOn'
  BY <1>4 DEF FindProbe
<1>5. ASSUME NEW p \in Procs, FindMiss(p) PROVE ReliedOn'
  BY <1>5 DEF FindMiss
<1>6. ASSUME NEW p \in Procs, ReadBinary(p) PROVE ReliedOn'
  BY <1>6 DEF ReadBinary
<1>7. ASSUME NEW p \in Procs, ReadSignature(p) PROVE ReliedOn'
  BY <1>7, VerifiedFacts DEF ReadSignature
<1>8. ASSUME NEW p \in Procs, EvictBinary(p) PROVE ReliedOn'
  BY <1>8 DEF EvictBinary, RemoveBinaryOf
<1>9. ASSUME NEW p \in Procs, EvictSignature(p) PROVE ReliedOn'
  BY <1>9 DEF EvictSignature, RemoveSignatureOf
<1>10. ASSUME NEW p \in Procs, GetManifest(p) PROVE ReliedOn'
  BY <1>10, GetManifestCases DEF Got, Exit
<1>11. ASSUME NEW p \in Procs, GetManifestSig(p) PROVE ReliedOn'
  <2>1. Got(p, "GetManifestSig")
    BY <1>11, GetManifestSigCases
  <2>2. ASSUME NEW how \in Outcomes, Exit(p, how) PROVE ReliedOn'
    BY <2>1, <2>2 DEF Got, Exit
  <2>3. ASSUME NEW e \in Entries, NEW signature \in Sigs,
               IsFor(e, target[p]), EndorsedEntry(e),
               path' = [path EXCEPT ![p] = e],
               sigbuf' = [sigbuf EXCEPT ![p] = signature],
               pc' = [pc EXCEPT ![p] = "GetAsset"],
               UNCHANGED <<listing, buf>>
        PROVE  ReliedOn'
    BY <2>1, <2>3 DEF Got
  <2> QED
    BY <1>11, <2>2, <2>3, GetManifestSigCases
<1>12. ASSUME NEW p \in Procs, GetAsset(p) PROVE ReliedOn'
  BY <1>12, GetAssetCases DEF Got, Exit
<1>13. ASSUME NEW p \in Procs, WriteBinary(p) PROVE ReliedOn'
  BY <1>13 DEF WriteBinary, Exit
<1>14. ASSUME NEW p \in Procs, RenameBinary(p) PROVE ReliedOn'
  <2>1. tmpBin[p] \in Blobs /\ Authentic(tmpBin[p], path[p].sha)
    BY <1>14, VerifiedFacts DEF RenameBinary, VerifiedBeforeStored
  <2>2. \A e \in Entries : bin'[e] = bin[e] \/ Authentic(bin'[e], e.sha)
    BY <1>14, <2>1 DEF RenameBinary
  <2>3. CASE Exit(p, "Cache") /\ bin' = bin
    BY <1>14, <2>3 DEF RenameBinary, Exit
  <2>4. CASE ~(Exit(p, "Cache") /\ bin' = bin)
    BY <1>14, <2>1, <2>2, <2>4 DEF RenameBinary
  <2> QED
    BY <2>3, <2>4
<1>15. ASSUME NEW p \in Procs, WriteSignature(p) PROVE ReliedOn'
  BY <1>15 DEF WriteSignature, Exit
<1>16. ASSUME NEW p \in Procs, RenameSignature(p) PROVE ReliedOn'
  <2>1. pc[p] = "RenameSignature" /\ UNCHANGED <<bin, late>>
    BY <1>16 DEF RenameSignature
  <2>2. CASE Exit(p, "Cache")
    BY <2>1, <2>2 DEF Exit
  <2>3. CASE /\ pc' = [pc EXCEPT ![p] = "ListCache"]
             /\ UNCHANGED <<path, buf>>
    BY <2>1, <2>3
  <2> QED
    BY <1>16, <2>2, <2>3 DEF RenameSignature
<1>17. ASSUME NEW p \in Procs, ListCache(p) PROVE ReliedOn'
  BY <1>17 DEF ListCache
<1>18. ASSUME NEW p \in Procs, StatCache(p) PROVE ReliedOn'
  BY <1>18 DEF StatCache
<1>19. ASSUME NEW p \in Procs, CompareWithCap(p) PROVE ReliedOn'
  BY <1>19 DEF CompareWithCap
<1>20. ASSUME NEW p \in Procs, RemoveBinary(p) PROVE ReliedOn'
  BY <1>20 DEF RemoveBinary, RemoveBinaryOf
<1>21. ASSUME NEW p \in Procs, RemoveSignature(p) PROVE ReliedOn'
  BY <1>21 DEF RemoveSignature, RemoveSignatureOf
<1>22. ASSUME NEW p \in Procs, Exec(p) PROVE ReliedOn'
  BY <1>22 DEF Exec, Exit
<1>23. ASSUME NEW p \in Procs, Crash(p) PROVE ReliedOn'
  BY <1>23 DEF Crash, Exit
<1>24. ASSUME Tick PROVE ReliedOn'
  BY <1>24 DEF Tick
<1>25. ASSUME NEW e \in Entries, DamageBinary(e) PROVE ReliedOn'
  BY <1>25 DEF DamageBinary
<1>26. ASSUME NEW e \in Entries, DamageSignature(e) PROVE ReliedOn'
  BY <1>26 DEF DamageSignature
<1>27. CASE UNCHANGED vars
  BY <1>27 DEF vars
<1> QED
  BY <1>1, <1>2, <1>3, <1>4, <1>5, <1>6, <1>7, <1>8, <1>9, <1>10, <1>11, <1>12, <1>13, <1>14, <1>15, <1>16, <1>17, <1>18, <1>19, <1>20, <1>21, <1>22, <1>23, <1>24, <1>25, <1>26, <1>27
     DEF Next, Step

LEMMA ExecAuthenticNext == TypeInv /\ Grounded /\ ReliedOn /\ ExecAuthentic /\ [Next]_vars => ExecAuthentic'
<1> SUFFICES ASSUME TypeInv, Grounded /\ ReliedOn /\ ExecAuthentic, [Next]_vars PROVE ExecAuthentic'
  OBVIOUS
<1> USE DEF TypeInv, TypeOK, ExecAuthentic, Goto, disk, temps, memory, result,
            history, DiskOK, TempsOK, ControlOK, MemoryOK, HistoryOK, InHand,
            Present, HoldsPath, Staged, Relying
<1>1. ASSUME NEW p \in Procs, NEW t \in Commands, Launch(p, t) PROVE ExecAuthentic'
  BY <1>1 DEF Launch
<1>2. ASSUME NEW p \in Procs, RejectName(p) PROVE ExecAuthentic'
  BY <1>2 DEF RejectName, Exit
<1>3. ASSUME NEW p \in Procs, FindList(p) PROVE ExecAuthentic'
  BY <1>3 DEF FindList
<1>4. ASSUME NEW p \in Procs, FindProbe(p) PROVE ExecAuthentic'
  BY <1>4 DEF FindProbe
<1>5. ASSUME NEW p \in Procs, FindMiss(p) PROVE ExecAuthentic'
  BY <1>5 DEF FindMiss
<1>6. ASSUME NEW p \in Procs, ReadBinary(p) PROVE ExecAuthentic'
  BY <1>6 DEF ReadBinary
<1>7. ASSUME NEW p \in Procs, ReadSignature(p) PROVE ExecAuthentic'
  BY <1>7 DEF ReadSignature
<1>8. ASSUME NEW p \in Procs, EvictBinary(p) PROVE ExecAuthentic'
  BY <1>8 DEF EvictBinary, RemoveBinaryOf
<1>9. ASSUME NEW p \in Procs, EvictSignature(p) PROVE ExecAuthentic'
  BY <1>9 DEF EvictSignature, RemoveSignatureOf
<1>10. ASSUME NEW p \in Procs, GetManifest(p) PROVE ExecAuthentic'
  BY <1>10, GetManifestCases DEF Got, Exit
<1>11. ASSUME NEW p \in Procs, GetManifestSig(p) PROVE ExecAuthentic'
  BY <1>11, GetManifestSigCases DEF Got, Exit
<1>12. ASSUME NEW p \in Procs, GetAsset(p) PROVE ExecAuthentic'
  BY <1>12, GetAssetCases DEF Got, Exit
<1>13. ASSUME NEW p \in Procs, WriteBinary(p) PROVE ExecAuthentic'
  BY <1>13 DEF WriteBinary, Exit
<1>14. ASSUME NEW p \in Procs, RenameBinary(p) PROVE ExecAuthentic'
  <2>1. target' = target /\ ran' = ran
    BY <1>14 DEF RenameBinary
  <2>2. ran[p] = NoFile
    BY <1>14 DEF RenameBinary
  <2>3. \A q \in Procs \ {p} : late'[q] = late[q]
    BY <1>14 DEF RenameBinary
  <2> QED
    BY <2>1, <2>2, <2>3
<1>15. ASSUME NEW p \in Procs, WriteSignature(p) PROVE ExecAuthentic'
  BY <1>15 DEF WriteSignature, Exit
<1>16. ASSUME NEW p \in Procs, RenameSignature(p) PROVE ExecAuthentic'
  BY <1>16 DEF RenameSignature, Exit
<1>17. ASSUME NEW p \in Procs, ListCache(p) PROVE ExecAuthentic'
  BY <1>17 DEF ListCache
<1>18. ASSUME NEW p \in Procs, StatCache(p) PROVE ExecAuthentic'
  BY <1>18 DEF StatCache
<1>19. ASSUME NEW p \in Procs, CompareWithCap(p) PROVE ExecAuthentic'
  BY <1>19 DEF CompareWithCap
<1>20. ASSUME NEW p \in Procs, RemoveBinary(p) PROVE ExecAuthentic'
  BY <1>20 DEF RemoveBinary, RemoveBinaryOf
<1>21. ASSUME NEW p \in Procs, RemoveSignature(p) PROVE ExecAuthentic'
  BY <1>21 DEF RemoveSignature, RemoveSignatureOf
<1>22. ASSUME NEW p \in Procs, Exec(p) PROVE ExecAuthentic'
  <2>1. path[p] \in Entries /\ IsFor(path[p], target[p]) /\ EndorsedEntry(path[p])
    BY <1>22 DEF Exec, Grounded
  <2>2. ~late[p] /\ Present(path[p]) => Authentic(bin[path[p]], path[p].sha)
    BY <1>22, <2>1 DEF Exec, ReliedOn
  <2>3. target' = target /\ late' = late
    BY <1>22 DEF Exec
  <2>4. CASE /\ Present(path[p])
              /\ ran' = [ran EXCEPT ![p] = bin[path[p]]]
    BY <2>1, <2>2, <2>3, <2>4 DEF EndorsedEntry
  <2>5. CASE ran' = ran
    BY <2>3, <2>5
  <2> QED
    BY <1>22, <2>4, <2>5 DEF Exec
<1>23. ASSUME NEW p \in Procs, Crash(p) PROVE ExecAuthentic'
  BY <1>23 DEF Crash, Exit
<1>24. ASSUME Tick PROVE ExecAuthentic'
  BY <1>24 DEF Tick
<1>25. ASSUME NEW e \in Entries, DamageBinary(e) PROVE ExecAuthentic'
  BY <1>25 DEF DamageBinary
<1>26. ASSUME NEW e \in Entries, DamageSignature(e) PROVE ExecAuthentic'
  BY <1>26 DEF DamageSignature
<1>27. CASE UNCHANGED vars
  BY <1>27 DEF vars
<1> QED
  BY <1>1, <1>2, <1>3, <1>4, <1>5, <1>6, <1>7, <1>8, <1>9, <1>10, <1>11, <1>12, <1>13, <1>14, <1>15, <1>16, <1>17, <1>18, <1>19, <1>20, <1>21, <1>22, <1>23, <1>24, <1>25, <1>26, <1>27
     DEF Next, Step

-----------------------------------------------------------------------------
LEMMA LaunchInvInit == Init => LaunchInv /\ ExecAuthentic
<1> SUFFICES ASSUME Init PROVE LaunchInv /\ ExecAuthentic
  OBVIOUS
<1>1. TypeInv
  BY InitType
<1>2. Grounded /\ VerifiedBeforeStored /\ UndamagedVerified /\ ReliedOn
  BY DEF Init, Grounded, VerifiedBeforeStored, UndamagedVerified, ReliedOn,
         Present, HoldsPath, Staged
<1>3. ExecAuthentic
  BY DEF Init, ExecAuthentic
<1> QED
  BY <1>1, <1>2, <1>3 DEF LaunchInv

LEMMA LaunchInvNext ==
  LaunchInv /\ ExecAuthentic /\ [Next]_vars => LaunchInv' /\ ExecAuthentic'
  BY NextType, GroundedNext, VerifiedNext, UndamagedNext, ReliedOnNext,
     ExecAuthenticNext DEF LaunchInv

LEMMA LaunchInvariant == Spec => [](LaunchInv /\ ExecAuthentic)
<1>1. Init => LaunchInv /\ ExecAuthentic
  BY LaunchInvInit
<1>2. LaunchInv /\ ExecAuthentic /\ [Next]_vars => (LaunchInv /\ ExecAuthentic)'
  BY LaunchInvNext
<1> QED
  BY <1>1, <1>2, PTL DEF Spec

(* Every variable keeps its type; a process has in hand what its next call  *)
(* needs, whatever the other processes and the environment do.              *)
THEOREM TypeCorrect == Spec => []TypeOK
<1>1. LaunchInv => TypeOK
  BY DEF LaunchInv, TypeInv
<1> QED
  BY <1>1, LaunchInvariant, PTL

(* The inductive invariant holds: what store and reverify rely on from one  *)
(* call to the next is true in every interleaving, crash and damage.        *)
THEOREM StoreDiscipline == Spec => []LaunchInv
  BY LaunchInvariant, PTL

(* Whatever run_external executes is authentic: a trusted key signed it and *)
(* a signed manifest of the launcher's version publishes it under the name  *)
(* asked for, unless the file was overwritten after it was verified.        *)
THEOREM Authenticity == Spec => []ExecAuthentic
  BY LaunchInvariant, PTL

(* Only verified bytes appear under a final path of the cache, and a        *)
(* visible pair of files verifies, for any number of concurrent stores.     *)
THEOREM CacheVerified == Spec => []FinalPathsVerified
<1>1. ASSUME LaunchInv PROVE FinalPathsVerified
  <2> SUFFICES ASSUME NEW e \in Entries, Present(e)
               PROVE  /\ Endorsed(e.name, e.version, e.sha)
                      /\ e \notin damagedBin =>
                           /\ Authentic(bin[e], e.sha)
                           /\ sig[e] # NoFile /\ e \notin damagedSig
                                => Verifies(bin[e], sig[e])
    BY DEF FinalPathsVerified
  <2>1. Endorsed(e.name, e.version, e.sha)
    BY <1>1 DEF LaunchInv, Grounded, EndorsedEntry
  <2>2. ASSUME e \notin damagedBin PROVE Authentic(bin[e], e.sha)
    BY <1>1, <2>2 DEF LaunchInv, UndamagedVerified
  <2>3. ASSUME e \notin damagedBin, sig[e] # NoFile, e \notin damagedSig
        PROVE  Verifies(bin[e], sig[e])
    <3>1. PICK b \in Blobs : Sha256[b] = e.sha /\ Verifies(b, sig[e])
      BY <1>1, <2>3 DEF LaunchInv, UndamagedVerified, SignatureFor
    <3>2. bin[e] \in Blobs
      BY <1>1 DEF LaunchInv, TypeInv, TypeOK, DiskOK, Present
    <3>3. bin[e] = b
      BY <2>2, <2>3, <3>1, <3>2, CollisionFree DEF Authentic
    <3> QED
      BY <3>1, <3>3
  <2> QED
    BY <2>1, <2>2, <2>3
<1> QED
  BY <1>1, LaunchInvariant, PTL
-----------------------------------------------------------------------------
(* A present pair of undamaged files passes the check of a cache hit.       *)
LEMMA PairVerifies ==
  ASSUME TypeInv, UndamagedVerified, NEW e \in Entries, NEW b \in Blobs,
         Authentic(b, e.sha), sig[e] # NoFile, e \notin damagedSig
  PROVE  VerifyBinary(b, e.sha, sig[e]) = "Ok"
<1>1. PICK c \in Blobs : Sha256[c] = e.sha /\ Verifies(c, sig[e])
  BY DEF UndamagedVerified, SignatureFor
<1>2. b = c
  BY <1>1, CollisionFree DEF Authentic
<1> QED
  BY <1>1, <1>2 DEF VerifyBinary

(* What another process removes, or the host damages, of a command's        *)
(* entries ends what kept says; a removal of anything else leaves it.       *)
LEMMA RemovedBinary ==
  ASSUME TypeInv, ~IoFaults, NEW p \in Procs, NEW e \in Entries, RemoveBinaryOf(e, p)
  PROVE  /\ bin' = [bin EXCEPT ![e] = NoFile]
         /\ damagedBin' \subseteq damagedBin
         /\ kept' \in [Procs -> BOOLEAN]
         /\ \A q \in Procs : kept'[q] => kept[q] /\ (q = p \/ ~IsFor(e, target[q]))
  BY DEF RemoveBinaryOf, Disturb

LEMMA RemovedSignature ==
  ASSUME TypeInv, ~IoFaults, NEW p \in Procs, NEW e \in Entries, RemoveSignatureOf(e, p)
  PROVE  /\ sig' = [sig EXCEPT ![e] = NoFile]
         /\ damagedSig' \subseteq damagedSig
         /\ kept' \in [Procs -> BOOLEAN]
         /\ \A q \in Procs : kept'[q] => kept[q] /\ (q = p \/ ~IsFor(e, target[q]))
  BY DEF RemoveSignatureOf, Disturb

LEMMA OfflineNext == LaunchInv /\ OfflineInv /\ [Next]_vars => OfflineInv'
<1> SUFFICES ASSUME LaunchInv, OfflineInv, [Next]_vars, ~IoFaults, ~NonUtf8Neighbour,
                    NEW q \in Procs, kept'[q]
             PROVE  Undisturbed(q)'
  BY DEF OfflineInv
<1>a. TypeInv /\ Grounded /\ UndamagedVerified
  BY DEF LaunchInv
<1>b. kept[q] => Undisturbed(q)
  BY DEF OfflineInv
<1> USE <1>a DEF TypeInv, TypeOK, Goto, disk, temps, memory, result,
            history, DiskOK, TempsOK, ControlOK, MemoryOK, HistoryOK, InHand,
            Present, Complete, HoldsPath
<1>1. ASSUME NEW p \in Procs, NEW t \in Commands, Launch(p, t) PROVE Undisturbed(q)'
  <2>1. CASE q = p
    BY <1>1, <2>1 DEF Launch, Undisturbed, Cached
  <2>2. CASE q # p
    BY <1>1, <1>b, <2>2 DEF Launch, Undisturbed
  <2> QED
    BY <2>1, <2>2
<1>2. ASSUME NEW p \in Procs, RejectName(p) PROVE Undisturbed(q)'
  BY <1>2, <1>b DEF RejectName, Exit, Undisturbed
<1>3. ASSUME NEW p \in Procs, FindList(p) PROVE Undisturbed(q)'
  <2>1. PICK seen : /\ seen \in Scans({e \in Entries : IsFor(e, target[p])})
                    /\ listing' = [listing EXCEPT ![p] = seen]
    BY <1>3 DEF FindList
  <2>2. seen = {e \in Entries : IsFor(e, target[p]) /\ Present(e)}
    BY <2>1 DEF Scans
  <2> QED
    BY <1>3, <1>b, <2>1, <2>2 DEF FindList, Undisturbed
<1>4. ASSUME NEW p \in Procs, FindProbe(p) PROVE Undisturbed(q)'
  <2>1. PICK e \in listing[p] :
           \/ /\ sig[e] # NoFile
              /\ path' = [path EXCEPT ![p] = e]
              /\ pc' = [pc EXCEPT ![p] = "ReadBinary"]
           \/ /\ sig[e] = NoFile
              /\ listing' = [listing EXCEPT ![p] = @ \ {e}]
              /\ UNCHANGED <<pc, path>>
    BY <1>4 DEF FindProbe
  <2>2. pc[p] = "FindProbe" /\ e \in Entries /\ IsFor(e, target[p]) /\ UNCHANGED <<bin, sig, damagedBin, damagedSig, target, kept>>
    BY <1>4 DEF FindProbe, Grounded
  <2>3. CASE q # p
    BY <1>4, <1>b, <2>2, <2>3 DEF FindProbe, Undisturbed
  <2>4. CASE q = p /\ pc' = pc
    <3>1. \E f \in listing'[p] : sig[f] # NoFile
      BY <1>b, <2>1, <2>2, <2>4 DEF Undisturbed
    <3>2. \A f \in listing'[p] : Present(f)
      BY <1>b, <2>1, <2>2, <2>4 DEF Undisturbed
    <3> QED
      BY <1>b, <2>1, <2>2, <2>4, <3>1, <3>2 DEF Undisturbed
  <2>5. CASE q = p /\ pc' # pc
    <3>1. Present(e) /\ kept[p]
      BY <1>b, <1>4, <2>1, <2>2, <2>5 DEF Undisturbed
    <3>2. path'[p] = e /\ sig[e] # NoFile /\ pc'[p] = "ReadBinary"
      BY <2>1, <2>2, <2>5
    <3> QED
      BY <1>b, <2>2, <2>5, <3>1, <3>2 DEF Undisturbed
  <2> QED
    BY <2>3, <2>4, <2>5
<1>5. ASSUME NEW p \in Procs, FindMiss(p) PROVE Undisturbed(q)'
  BY <1>5, <1>b DEF FindMiss, Undisturbed
<1>6. ASSUME NEW p \in Procs, ReadBinary(p) PROVE Undisturbed(q)'
  <2>1. IsFor(path[p], target[p]) /\ path[p] \in Entries
    BY <1>6 DEF ReadBinary, Grounded
  <2>2. path[p] \notin damagedBin /\ Present(path[p]) => Authentic(bin[path[p]], path[p].sha)
    BY <2>1 DEF UndamagedVerified
  <2> QED
    BY <1>6, <1>b, <2>1, <2>2 DEF ReadBinary, Undisturbed
<1>7. ASSUME NEW p \in Procs, ReadSignature(p) PROVE Undisturbed(q)'
  <2>1. IsFor(path[p], target[p]) /\ path[p] \in Entries /\ buf[p] \in Blobs
    BY <1>7 DEF ReadSignature, Grounded
  <2>2. kept[p] => VerifyBinary(buf[p], path[p].sha, sig[path[p]]) = "Ok"
    BY <1>7, <1>b, <2>1, PairVerifies DEF ReadSignature, Undisturbed, OfflineInv
  <2> QED
    BY <1>7, <1>b, <2>1, <2>2 DEF ReadSignature, Undisturbed
<1>8. ASSUME NEW p \in Procs, EvictBinary(p) PROVE Undisturbed(q)'
  <2>1. pc[p] = "EvictBinary" /\ path[p] \in Entries /\ RemoveBinaryOf(path[p], p)
    BY <1>8 DEF EvictBinary
  <2>2. q # p
    BY <2>1, <1>b, RemovedBinary DEF Undisturbed
  <2> QED
    BY <1>8, <1>b, <2>1, <2>2, RemovedBinary DEF EvictBinary, Undisturbed, Grounded
<1>9. ASSUME NEW p \in Procs, EvictSignature(p) PROVE Undisturbed(q)'
  <2>1. pc[p] = "EvictSignature" /\ path[p] \in Entries /\ RemoveSignatureOf(path[p], p)
    BY <1>9 DEF EvictSignature
  <2>2. q # p
    BY <2>1, <1>b, RemovedSignature DEF Undisturbed
  <2> QED
    BY <1>9, <1>b, <2>1, <2>2, RemovedSignature DEF EvictSignature, Undisturbed, Grounded
<1>10. ASSUME NEW p \in Procs, GetManifest(p) PROVE Undisturbed(q)'
  BY <1>10, <1>b, GetManifestCases DEF Got, Exit, Undisturbed
<1>11. ASSUME NEW p \in Procs, GetManifestSig(p) PROVE Undisturbed(q)'
  BY <1>11, <1>b, GetManifestSigCases DEF Got, Exit, Undisturbed
<1>12. ASSUME NEW p \in Procs, GetAsset(p) PROVE Undisturbed(q)'
  BY <1>12, <1>b, GetAssetCases DEF Got, Exit, Undisturbed
<1>13. ASSUME NEW p \in Procs, WriteBinary(p) PROVE Undisturbed(q)'
  BY <1>13, <1>b DEF WriteBinary, Exit, Undisturbed
<1>14. ASSUME NEW p \in Procs, RenameBinary(p) PROVE Undisturbed(q)'
  <2>1. /\ pc[p] = "RenameBinary" /\ path[p] \in Entries /\ tmpBin[p] \in Blobs
        /\ NoFile \notin Blobs
    BY <1>14, ResolverAssumption DEF RenameBinary
  <2>2. q # p
    BY <1>14, <2>1, <1>b DEF RenameBinary, Undisturbed
  <2> QED
    BY <1>14, <1>b, <2>1, <2>2 DEF RenameBinary, Undisturbed
<1>15. ASSUME NEW p \in Procs, WriteSignature(p) PROVE Undisturbed(q)'
  BY <1>15, <1>b DEF WriteSignature, Exit, Undisturbed
<1>16. ASSUME NEW p \in Procs, RenameSignature(p) PROVE Undisturbed(q)'
  <2>1. /\ pc[p] = "RenameSignature" /\ path[p] \in Entries /\ tmpSig[p] \in Sigs
        /\ NoFile \notin Sigs
    BY <1>16, ResolverAssumption DEF RenameSignature, Staged
  <2>2. q # p
    BY <1>16, <2>1, <1>b DEF RenameSignature, Undisturbed
  <2> QED
    BY <1>16, <1>b, <2>1, <2>2 DEF RenameSignature, Undisturbed
<1>17. ASSUME NEW p \in Procs, ListCache(p) PROVE Undisturbed(q)'
  BY <1>17, <1>b DEF ListCache, Undisturbed
<1>18. ASSUME NEW p \in Procs, StatCache(p) PROVE Undisturbed(q)'
  BY <1>18, <1>b DEF StatCache, Undisturbed
<1>19. ASSUME NEW p \in Procs, CompareWithCap(p) PROVE Undisturbed(q)'
  BY <1>19, <1>b DEF CompareWithCap, Undisturbed
<1>20. ASSUME NEW p \in Procs, RemoveBinary(p) PROVE Undisturbed(q)'
  <2>1. PICK v \in stats[p] : RemoveBinaryOf(v[2], p)
    BY <1>20 DEF RemoveBinary
  <2>2. v[2] \in Entries /\ pc[p] = "RemoveBinary"
    BY <1>20 DEF RemoveBinary
  <2>3. q # p
    BY <1>b, <2>1, <2>2, RemovedBinary DEF Undisturbed
  <2> QED
    BY <1>20, <1>b, <2>1, <2>2, <2>3, RemovedBinary DEF RemoveBinary, Undisturbed, Grounded
<1>21. ASSUME NEW p \in Procs, RemoveSignature(p) PROVE Undisturbed(q)'
  <2>1. pc[p] = "RemoveSignature" /\ victim[p] \in Entries /\ RemoveSignatureOf(victim[p], p)
    BY <1>21 DEF RemoveSignature
  <2>2. q # p
    BY <2>1, <1>b, RemovedSignature DEF Undisturbed
  <2> QED
    BY <1>21, <1>b, <2>1, <2>2, RemovedSignature DEF RemoveSignature, Undisturbed, Grounded
<1>22. ASSUME NEW p \in Procs, Exec(p) PROVE Undisturbed(q)'
  BY <1>22, <1>b DEF Exec, Exit, Undisturbed
<1>23. ASSUME NEW p \in Procs, Crash(p) PROVE Undisturbed(q)'
  BY <1>23, <1>b DEF Crash, Exit, Undisturbed
<1>24. ASSUME Tick PROVE Undisturbed(q)'
  BY <1>24, <1>b DEF Tick, Undisturbed
<1>25. ASSUME NEW e \in Entries, DamageBinary(e) PROVE Undisturbed(q)'
  <2>1. kept[q] /\ ~IsFor(e, target[q])
    BY <1>25 DEF DamageBinary, Disturb
  <2>2. /\ UNCHANGED <<sig, damagedSig, pc, target, listing, path, buf, outcome>>
        /\ damagedBin' \subseteq damagedBin \cup {e}
        /\ \A f \in Entries \ {e} : bin'[f] = bin[f]
    BY <1>25 DEF DamageBinary
  <2>3. pc[q] = "FindProbe" => \A f \in listing[q] : f \in Entries \ {e}
    BY <2>1 DEF Grounded
  <2>4. pc[q] \in HoldsPath => path[q] \in Entries \ {e}
    BY <2>1 DEF Grounded
  <2> QED
    BY <1>b, <2>1, <2>2, <2>3, <2>4 DEF Undisturbed
<1>26. ASSUME NEW e \in Entries, DamageSignature(e) PROVE Undisturbed(q)'
  <2>1. kept[q] /\ ~IsFor(e, target[q])
    BY <1>26 DEF DamageSignature, Disturb
  <2>2. /\ UNCHANGED <<bin, damagedBin, pc, target, listing, path, buf, outcome>>
        /\ damagedSig' \subseteq damagedSig \cup {e}
        /\ \A f \in Entries \ {e} : sig'[f] = sig[f]
    BY <1>26 DEF DamageSignature
  <2>3. pc[q] = "FindProbe" => \A f \in listing[q] : f \in Entries \ {e}
    BY <2>1 DEF Grounded
  <2>4. pc[q] \in HoldsPath => path[q] \in Entries \ {e}
    BY <2>1 DEF Grounded
  <2> QED
    BY <1>b, <2>1, <2>2, <2>3, <2>4 DEF Undisturbed
<1>27. CASE UNCHANGED vars
  BY <1>27, <1>b DEF vars, Undisturbed
<1> QED
  BY <1>1, <1>2, <1>3, <1>4, <1>5, <1>6, <1>7, <1>8, <1>9, <1>10, <1>11, <1>12, <1>13, <1>14, <1>15, <1>16, <1>17, <1>18, <1>19, <1>20, <1>21, <1>22, <1>23, <1>24, <1>25, <1>26, <1>27
     DEF Next, Step

(* A command found complete in the cache ends in exec whatever the server   *)
(* answers, when files can be read, no file of the directory has a name     *)
(* that is not UTF-8 and nobody else removes or damages its entries.        *)
THEOREM ResolvesOffline ==
  ASSUME ~NonUtf8Neighbour
  PROVE  Spec => []CachedResolvesOffline
<1>1. Init => OfflineInv
  BY DEF Init, OfflineInv
<1>2. LaunchInv /\ OfflineInv /\ [Next]_vars => OfflineInv'
  BY OfflineNext
<1>3. OfflineInv => CachedResolvesOffline
  BY DEF OfflineInv, Undisturbed, CachedResolvesOffline
<1> QED
  BY <1>1, <1>2, <1>3, StoreDiscipline, PTL DEF Spec

-----------------------------------------------------------------------------
(* Facts about the sets that retention counts. *)

LEMMA FewSubset ==
  ASSUME NEW T, Few(T), NEW S \in SUBSET T
  PROVE  Few(S)
<1>1. IsFiniteSet(S) /\ Cardinality(S) <= Cardinality(T)
  BY FS_Subset DEF Few
<1>2. Cardinality(S) \in Nat /\ Cardinality(T) \in Nat /\ Cap \in Nat
  BY <1>1, FS_CardinalityType, ResolverAssumption DEF Few
<1> QED
  BY <1>1, <1>2 DEF Few

(* As many rows as the cap allows are rows of as many entries at most.      *)
LEMMA FewRows ==
  ASSUME NEW rows, Few(rows), NEW S \in SUBSET {v[2] : v \in rows}
  PROVE  Few(S)
<1> DEFINE T == {v[2] : v \in rows}
           f == [v \in rows |-> v[2]]
<1>1. f \in Surjection(rows, T)
  BY DEF Surjection
<1>2. IsFiniteSet(T) /\ Cardinality(T) <= Cardinality(rows)
  BY <1>1, FS_Surjection DEF Few
<1>3. Cardinality(T) \in Nat /\ Cardinality(rows) \in Nat /\ Cap \in Nat
  BY <1>2, FS_CardinalityType, ResolverAssumption DEF Few
<1>4. Few(T)
  BY <1>2, <1>3 DEF Few
<1> QED
  BY <1>4, FewSubset

(* Where no entry appears, only what the moving processes do to their own   *)
(* retention matters.                                                       *)
LEMMA RetentionFrame ==
  ASSUME RetentionInv, NEW M \in SUBSET Procs,
         \A q \in Procs \ M : /\ pc'[q] = pc[q] /\ target'[q] = target[q]
                              /\ listing'[q] = listing[q] /\ stats'[q] = stats[q],
         \A p \in M : IsFiniteSet(stats'[p]),
         \A e \in Entries : bin'[e] # NoFile => bin[e] # NoFile,
         \A n \in Names : n \in overdue /\ n \notin overdue' => \E p \in M : Trims(p, n)',
         \A p \in M : \A n \in Names \ overdue' :
            Trims(p, n) => Trims(p, n)' \/ Few(PresentOf(n))'
  PROVE  RetentionInv'
<1>1. \A p \in Procs : IsFiniteSet(stats'[p])
  BY DEF RetentionInv
<1>2. ASSUME NEW n \in Names \ overdue'
      PROVE  Few(PresentOf(n))' \/ \E p \in Procs : Trims(p, n)'
  <2>1. PresentOf(n)' \subseteq PresentOf(n)
    BY DEF PresentOf, Present
  <2>2. CASE n \in overdue
    BY <2>2
  <2>3. CASE n \notin overdue /\ Few(PresentOf(n))
    <3>1. Few(PresentOf(n)')
      BY <2>1, <2>3, FewSubset
    <3> QED
      BY <3>1 DEF Few
  <2>4. CASE \E p \in M : Trims(p, n)
    BY <2>4
  <2>5. CASE \E p \in Procs \ M : Trims(p, n)
    <3>1. PICK p \in Procs \ M : Trims(p, n)
      BY <2>5
    <3>2. CASE pc[p] \in {"WriteSignature", "RenameSignature", "ListCache"}
      BY <3>1, <3>2 DEF Trims
    <3>3. CASE pc[p] = "StatCache"
      BY <2>1, <3>1, <3>3 DEF Trims, Examined
    <3>4. CASE pc[p] \in {"RemoveBinary", "RemoveSignature"}
      BY <2>1, <3>1, <3>4 DEF Trims, Examined
    <3> QED
      BY <3>1, <3>2, <3>3, <3>4 DEF Trims
  <2> QED
    BY <2>2, <2>3, <2>4, <2>5 DEF RetentionInv
<1> QED
  BY <1>1, <1>2 DEF RetentionInv

LEMMA RetentionStep ==
  ASSUME RetentionInv, NEW p \in Procs,
         \A q \in Procs \ {p} : /\ pc'[q] = pc[q] /\ target'[q] = target[q]
                                /\ listing'[q] = listing[q] /\ stats'[q] = stats[q],
         IsFiniteSet(stats'[p]),
         \A e \in Entries : bin'[e] # NoFile => bin[e] # NoFile,
         \A n \in Names : n \in overdue /\ n \notin overdue' => Trims(p, n)',
         \A n \in Names \ overdue' : Trims(p, n) => Trims(p, n)' \/ Few(PresentOf(n))'
  PROVE  RetentionInv'
<1> DEFINE M == {p}
<1>1. /\ M \in SUBSET Procs
      /\ \A q \in Procs \ M : /\ pc'[q] = pc[q] /\ target'[q] = target[q]
                              /\ listing'[q] = listing[q] /\ stats'[q] = stats[q]
      /\ \A q \in M : IsFiniteSet(stats'[q])
  OBVIOUS
<1>2. \A n \in Names : n \in overdue /\ n \notin overdue' => \E q \in M : Trims(q, n)'
  OBVIOUS
<1>3. \A q \in M : \A n \in Names \ overdue' :
         Trims(q, n) => Trims(q, n)' \/ Few(PresentOf(n))'
  OBVIOUS
<1> HIDE DEF M
<1> QED
  BY <1>1, <1>2, <1>3, RetentionFrame

LEMMA RetentionQuiet ==
  ASSUME RetentionInv, UNCHANGED <<pc, target, listing, stats, overdue>>,
         \A e \in Entries : bin'[e] # NoFile => bin[e] # NoFile
  PROVE  RetentionInv'
<1> DEFINE M == {}
<1>1. /\ M \in SUBSET Procs
      /\ \A q \in Procs \ M : /\ pc'[q] = pc[q] /\ target'[q] = target[q]
                              /\ listing'[q] = listing[q] /\ stats'[q] = stats[q]
      /\ \A q \in M : IsFiniteSet(stats'[q])
  OBVIOUS
<1>2. \A n \in Names : n \in overdue /\ n \notin overdue' => \E q \in M : Trims(q, n)'
  OBVIOUS
<1>3. \A q \in M : \A n \in Names \ overdue' :
         Trims(q, n) => Trims(q, n)' \/ Few(PresentOf(n))'
  OBVIOUS
<1> HIDE DEF M
<1> QED
  BY <1>1, <1>2, <1>3, RetentionFrame

LEMMA RetentionNext == LaunchInv /\ RetentionInv /\ [Next]_vars => RetentionInv'
<1> SUFFICES ASSUME LaunchInv, RetentionInv, [Next]_vars PROVE RetentionInv'
  OBVIOUS
<1>a. TypeInv /\ Grounded
  BY DEF LaunchInv
<1> USE <1>a DEF TypeInv, TypeOK, Goto, disk, temps, memory, result,
            history, DiskOK, TempsOK, ControlOK, MemoryOK, HistoryOK
<1> DEFINE Trimming == {"WriteSignature", "RenameSignature", "ListCache", "StatCache",
                        "RemoveBinary", "RemoveSignature"}
(* A process that is not trimming, and does not start to. *)
<1>b. ASSUME NEW p \in Procs, pc[p] \notin Trimming,
             \A q \in Procs \ {p} : /\ pc'[q] = pc[q] /\ target'[q] = target[q]
                                    /\ listing'[q] = listing[q] /\ stats'[q] = stats[q],
             stats'[p] \in {stats[p], {}},
             \A e \in Entries : bin'[e] # NoFile => bin[e] # NoFile,
             overdue' = overdue
      PROVE  RetentionInv'
  <2>1. IsFiniteSet(stats'[p])
    BY <1>b, FS_EmptySet DEF RetentionInv
  <2>2. \A n \in Names : ~Trims(p, n)
    BY <1>b DEF Trims
  <2> QED
    BY <1>b, <2>1, <2>2, RetentionStep
<1>1. ASSUME NEW p \in Procs, NEW t \in Commands, Launch(p, t) PROVE RetentionInv'
  BY <1>1, <1>b DEF Launch
<1>2. ASSUME NEW p \in Procs, RejectName(p) PROVE RetentionInv'
  BY <1>2, <1>b DEF RejectName, Exit
<1>3. ASSUME NEW p \in Procs, FindList(p) PROVE RetentionInv'
  BY <1>3, <1>b DEF FindList
<1>4. ASSUME NEW p \in Procs, FindProbe(p) PROVE RetentionInv'
  BY <1>4, <1>b DEF FindProbe
<1>5. ASSUME NEW p \in Procs, FindMiss(p) PROVE RetentionInv'
  BY <1>5, <1>b DEF FindMiss
<1>6. ASSUME NEW p \in Procs, ReadBinary(p) PROVE RetentionInv'
  BY <1>6, <1>b DEF ReadBinary
<1>7. ASSUME NEW p \in Procs, ReadSignature(p) PROVE RetentionInv'
  BY <1>7, <1>b DEF ReadSignature
<1>8. ASSUME NEW p \in Procs, EvictBinary(p) PROVE RetentionInv'
  BY <1>8, <1>b DEF EvictBinary, RemoveBinaryOf
<1>9. ASSUME NEW p \in Procs, EvictSignature(p) PROVE RetentionInv'
  BY <1>9, <1>b DEF EvictSignature
<1>10. ASSUME NEW p \in Procs, GetManifest(p) PROVE RetentionInv'
  BY <1>10, <1>b, GetManifestCases DEF Got, Exit
<1>11. ASSUME NEW p \in Procs, GetManifestSig(p) PROVE RetentionInv'
  BY <1>11, <1>b, GetManifestSigCases DEF Got, Exit
<1>12. ASSUME NEW p \in Procs, GetAsset(p) PROVE RetentionInv'
  BY <1>12, <1>b, GetAssetCases DEF Got, Exit
<1>13. ASSUME NEW p \in Procs, WriteBinary(p) PROVE RetentionInv'
  BY <1>13, <1>b DEF WriteBinary, Exit
<1>14. ASSUME NEW p \in Procs, RenameBinary(p) PROVE RetentionInv'
  <2>1. pc[p] = "RenameBinary" /\ UNCHANGED <<target, overdue>>
    BY <1>14 DEF RenameBinary
  <2>2. CASE Exit(p, "Cache") /\ bin' = bin
    BY <1>b, <2>1, <2>2 DEF Exit
  <2>3. CASE /\ bin' = [bin EXCEPT ![path[p]] = tmpBin[p]]
             /\ pc' = [pc EXCEPT ![p] = "WriteSignature"]
             /\ UNCHANGED <<listing, stats>>
    <3> DEFINE name == target[p].name
    <3>1. path[p] \in Entries /\ path[p].name = name
      BY <2>1 DEF InHand, Grounded, HoldsPath, IsFor
    <3>2. ASSUME NEW n \in Names, n # name PROVE PresentOf(n)' = PresentOf(n)
      BY <2>3, <3>1, <3>2 DEF PresentOf, Present
    <3>3. ASSUME NEW n \in Names \ overdue', n # name
          PROVE  Few(PresentOf(n))' \/ \E q \in Procs : Trims(q, n)'
      <4>1. CASE Few(PresentOf(n))
        BY <3>2, <3>3, <4>1 DEF Few
      <4>2. CASE \E q \in Procs : Trims(q, n)
        <5>1. PICK q \in Procs : Trims(q, n)
          BY <4>2
        <5>2. q # p /\ Examined(q)' = Examined(q)
          BY <2>1, <2>3, <5>1 DEF Trims, Examined
        <5> QED
          BY <2>1, <2>3, <3>2, <3>3, <5>1, <5>2 DEF Trims, Few
      <4> QED
        BY <2>1, <3>3, <4>1, <4>2 DEF RetentionInv
    <3>4. \A n \in Names \ overdue' : Few(PresentOf(n))' \/ \E q \in Procs : Trims(q, n)'
      <4> SUFFICES ASSUME NEW n \in Names \ overdue'
                   PROVE  Few(PresentOf(n))' \/ \E q \in Procs : Trims(q, n)'
        OBVIOUS
      <4>1. CASE n = name
        <5>1. Trims(p, n)'
          BY <2>1, <2>3, <4>1 DEF Trims
        <5> QED
          BY <5>1
      <4>2. CASE n # name
        BY <3>3, <4>2
      <4> QED
        BY <4>1, <4>2
    <3>5. \A q \in Procs : IsFiniteSet(stats'[q])
      BY <2>3 DEF RetentionInv
    <3> QED
      BY <3>4, <3>5 DEF RetentionInv
  <2> QED
    BY <1>14, <2>2, <2>3 DEF RenameBinary
<1>15. ASSUME NEW p \in Procs, WriteSignature(p) PROVE RetentionInv'
  <2>1. pc[p] = "WriteSignature" /\ UNCHANGED <<bin, target>>
    BY <1>15 DEF WriteSignature
  <2>2. \A q \in Procs \ {p} : /\ pc'[q] = pc[q] /\ listing'[q] = listing[q]
                               /\ stats'[q] = stats[q]
    BY <1>15 DEF WriteSignature, Exit
  <2>3. IsFiniteSet(stats'[p])
    BY <1>15, FS_EmptySet DEF WriteSignature, Exit, RetentionInv
  <2>4. overdue \subseteq overdue'
    BY <1>15 DEF WriteSignature
  <2>5. ASSUME NEW n \in Names \ overdue', Trims(p, n) PROVE Trims(p, n)'
    BY <1>15, <2>1, <2>5 DEF WriteSignature, Trims
  <2> QED
    BY <2>1, <2>2, <2>3, <2>4, <2>5, RetentionStep
<1>16. ASSUME NEW p \in Procs, RenameSignature(p) PROVE RetentionInv'
  <2>1. pc[p] = "RenameSignature" /\ UNCHANGED <<bin, target>>
    BY <1>16 DEF RenameSignature
  <2>2. \A q \in Procs \ {p} : /\ pc'[q] = pc[q] /\ listing'[q] = listing[q]
                               /\ stats'[q] = stats[q]
    BY <1>16 DEF RenameSignature, Exit
  <2>3. IsFiniteSet(stats'[p])
    BY <1>16, FS_EmptySet DEF RenameSignature, Exit, RetentionInv
  <2>4. overdue \subseteq overdue'
    BY <1>16 DEF RenameSignature
  <2>5. ASSUME NEW n \in Names \ overdue', Trims(p, n) PROVE Trims(p, n)'
    BY <1>16, <2>1, <2>5 DEF RenameSignature, Trims
  <2> QED
    BY <2>1, <2>2, <2>3, <2>4, <2>5, RetentionStep
<1>17. ASSUME NEW p \in Procs, ListCache(p) PROVE RetentionInv'
  <2> DEFINE name == target[p].name
  <2>1. PICK seen \in Scans(UnderPrefix(name)) :
           /\ listing' = [listing EXCEPT ![p] = seen]
           /\ overdue' = IF \A e \in UnderPrefix(name) \ seen : ~Present(e)
                         THEN overdue \ {name} ELSE overdue \cup {name}
    BY <1>17 DEF ListCache
  <2>2. /\ pc[p] = "ListCache" /\ pc' = [pc EXCEPT ![p] = "StatCache"]
        /\ UNCHANGED <<bin, target, stats>>
    BY <1>17 DEF ListCache
  <2>3. name \notin overdue' => Trims(p, name)'
    <3>1. PresentOf(name)' \subseteq {e \in UnderPrefix(name) : Present(e)}
      BY <2>2 DEF PresentOf, Present, UnderPrefix
    <3>2. name \notin overdue' => PresentOf(name)' \subseteq listing'[p]
      BY <2>1, <3>1
    <3> QED
      BY <2>2, <3>2 DEF Trims
  <2>4. \A n \in Names : Trims(p, n) => n = name
    BY DEF Trims
  <2>5. \A n \in Names : n # name => (n \in overdue' <=> n \in overdue)
    BY <2>1
  <2>6. IsFiniteSet(stats'[p])
    BY <2>2 DEF RetentionInv
  <2> QED
    BY <2>1, <2>2, <2>3, <2>4, <2>5, <2>6, RetentionStep
<1>18. ASSUME NEW p \in Procs, StatCache(p) PROVE RetentionInv'
  <2>1. PICK e \in listing[p], modified \in Times :
           /\ stats' = [stats EXCEPT ![p] = @ \cup {<<modified, e>>}]
           /\ listing' = [listing EXCEPT ![p] = @ \ {e}]
    BY <1>18 DEF StatCache
  <2>2. pc[p] = "StatCache" /\ UNCHANGED <<bin, target, pc, overdue>>
    BY <1>18 DEF StatCache
  <2>3. IsFiniteSet(stats'[p])
    <3>1. stats'[p] = stats[p] \cup {<<modified, e>>} /\ IsFiniteSet(stats[p])
      BY <2>1 DEF RetentionInv
    <3> DEFINE x == <<modified, e>>
    <3> HIDE DEF x
    <3>2. IsFiniteSet(stats[p] \cup {x})
      BY <3>1, FS_AddElement
    <3> QED
      BY <3>1, <3>2 DEF x
  <2>4. listing[p] \cup Examined(p) \subseteq listing'[p] \cup Examined(p)'
    <3>1. stats'[p] = stats[p] \cup {<<modified, e>>} /\ listing'[p] = listing[p] \ {e}
      BY <2>1
    <3>2. <<modified, e>>[2] = e
      OBVIOUS
    <3>3. e \in Examined(p)'
      BY <3>1, <3>2 DEF Examined
    <3>4. Examined(p) \subseteq Examined(p)'
      BY <3>1 DEF Examined
    <3> QED
      BY <3>1, <3>3, <3>4
  <2>5. ASSUME NEW n \in Names, Trims(p, n) PROVE Trims(p, n)'
    <3>1. PresentOf(n)' = PresentOf(n)
      BY <2>2 DEF PresentOf, Present
    <3> QED
      BY <2>2, <2>4, <2>5, <3>1 DEF Trims
  <2> QED
    BY <2>1, <2>2, <2>3, <2>5, RetentionStep
<1>19. ASSUME NEW p \in Procs, CompareWithCap(p) PROVE RetentionInv'
  <2>1. /\ pc[p] = "StatCache" /\ listing[p] = {}
        /\ UNCHANGED <<bin, target, listing, overdue>>
    BY <1>19 DEF CompareWithCap
  <2>2. IsFiniteSet(stats[p])
    BY DEF RetentionInv
  <2>3. ASSUME NEW n \in Names, Trims(p, n)
        PROVE  PresentOf(n) \subseteq Examined(p) /\ PresentOf(n)' = PresentOf(n)
    BY <2>1, <2>3 DEF Trims, PresentOf, Present
  <2>4. CASE /\ Cardinality(stats[p]) <= Cap
             /\ stats' = [stats EXCEPT ![p] = {}]
             /\ pc' = [pc EXCEPT ![p] = "Exec"]
    <3>1. Few(stats[p])
      BY <2>2, <2>4 DEF Few
    <3>2. ASSUME NEW n \in Names, Trims(p, n) PROVE Few(PresentOf(n))'
      <4>1. Few(PresentOf(n))
        BY <2>3, <3>1, <3>2, FewRows DEF Examined
      <4> QED
        BY <2>3, <3>2, <4>1 DEF Few
    <3> QED
      BY <2>1, <2>4, <3>2, RetentionStep, FS_EmptySet
  <2>5. CASE UNCHANGED stats /\ pc' = [pc EXCEPT ![p] = "RemoveBinary"]
    <3>1. ASSUME NEW n \in Names, Trims(p, n) PROVE Trims(p, n)'
      BY <2>1, <2>3, <2>5, <3>1 DEF Trims, Examined
    <3> QED
      BY <2>1, <2>2, <2>5, <3>1, RetentionStep
  <2> QED
    BY <1>19, <2>4, <2>5 DEF CompareWithCap
<1>20. ASSUME NEW p \in Procs, RemoveBinary(p) PROVE RetentionInv'
  <2>1. PICK v \in stats[p] :
           /\ RemoveBinaryOf(v[2], p)
           /\ stats' = [stats EXCEPT ![p] = @ \ {v}]
           /\ overdue' = IF bin'[v[2]] = NoFile THEN overdue
                         ELSE overdue \cup {target[p].name}
    BY <1>20 DEF RemoveBinary
  <2>2. /\ pc[p] = "RemoveBinary" /\ pc' = [pc EXCEPT ![p] = "RemoveSignature"]
        /\ UNCHANGED <<target, listing>>
    BY <1>20 DEF RemoveBinary
  <2>3. \A e \in Entries : bin'[e] # NoFile => bin[e] # NoFile
    BY <2>1 DEF RemoveBinaryOf
  <2>4. IsFiniteSet(stats'[p])
    BY <2>1, FS_RemoveElement DEF RetentionInv
  <2>5. ASSUME NEW n \in Names \ overdue', Trims(p, n) PROVE Trims(p, n)'
    <3>1. n = target[p].name /\ PresentOf(n) \subseteq Examined(p)
      BY <2>2, <2>5 DEF Trims
    <3>2. bin'[v[2]] = NoFile
      BY <2>1, <2>5, <3>1
    <3>3. PresentOf(n)' \subseteq PresentOf(n) \ {v[2]}
      BY <2>3, <3>2 DEF PresentOf, Present
    <3>4. Examined(p) \subseteq Examined(p)' \cup {v[2]}
      BY <2>1 DEF Examined
    <3> QED
      BY <2>2, <3>1, <3>3, <3>4 DEF Trims
  <2> QED
    BY <2>1, <2>2, <2>3, <2>4, <2>5, RetentionStep
<1>21. ASSUME NEW p \in Procs, RemoveSignature(p) PROVE RetentionInv'
  <2>1. pc[p] = "RemoveSignature" /\ UNCHANGED <<bin, target, listing, overdue>>
    BY <1>21 DEF RemoveSignature
  <2>2. IsFiniteSet(stats[p])
    BY DEF RetentionInv
  <2>3. ASSUME NEW n \in Names, Trims(p, n)
        PROVE  PresentOf(n) \subseteq Examined(p) /\ PresentOf(n)' = PresentOf(n)
    BY <2>1, <2>3 DEF Trims, PresentOf, Present
  <2>4. CASE /\ Cardinality(stats[p]) <= Cap
             /\ stats' = [stats EXCEPT ![p] = {}]
             /\ pc' = [pc EXCEPT ![p] = "Exec"]
    <3>1. Few(stats[p])
      BY <2>2, <2>4 DEF Few
    <3>2. ASSUME NEW n \in Names, Trims(p, n) PROVE Few(PresentOf(n))'
      <4>1. Few(PresentOf(n))
        BY <2>3, <3>1, <3>2, FewRows DEF Examined
      <4> QED
        BY <2>3, <3>2, <4>1 DEF Few
    <3> QED
      BY <2>1, <2>4, <3>2, RetentionStep, FS_EmptySet
  <2>5. CASE UNCHANGED stats /\ pc' = [pc EXCEPT ![p] = "RemoveBinary"]
    <3>1. ASSUME NEW n \in Names, Trims(p, n) PROVE Trims(p, n)'
      BY <2>1, <2>3, <2>5, <3>1 DEF Trims, Examined
    <3> QED
      BY <2>1, <2>2, <2>5, <3>1, RetentionStep
  <2> QED
    BY <1>21, <2>4, <2>5 DEF RemoveSignature
<1>22. ASSUME NEW p \in Procs, Exec(p) PROVE RetentionInv'
  BY <1>22, <1>b DEF Exec, Exit
<1>23. ASSUME NEW p \in Procs, Crash(p) PROVE RetentionInv'
  <2>1. CASE pc[p] \notin Staged
    BY <1>23, <1>b, <2>1 DEF Crash, Exit, Staged
  <2>2. CASE pc[p] \in Staged
    <3>1. \A n \in Names \ overdue' : ~Trims(p, n)
      BY <1>23, <2>2 DEF Crash, Trims
    <3> QED
      BY <1>23, <2>2, <3>1, RetentionStep, FS_EmptySet
         DEF Crash, Exit
  <2> QED
    BY <2>1, <2>2
<1>24. ASSUME Tick PROVE RetentionInv'
  BY <1>24, RetentionQuiet DEF Tick
<1>25. ASSUME NEW e \in Entries, DamageBinary(e) PROVE RetentionInv'
  BY <1>25, RetentionQuiet DEF DamageBinary, Present
<1>26. ASSUME NEW e \in Entries, DamageSignature(e) PROVE RetentionInv'
  BY <1>26, RetentionQuiet DEF DamageSignature
<1>27. CASE UNCHANGED vars
  BY <1>27, RetentionQuiet DEF vars
<1> QED
  BY <1>1, <1>2, <1>3, <1>4, <1>5, <1>6, <1>7, <1>8, <1>9, <1>10, <1>11, <1>12, <1>13, <1>14, <1>15, <1>16, <1>17, <1>18, <1>19, <1>20, <1>21, <1>22, <1>23, <1>24, <1>25, <1>26, <1>27
     DEF Next, Step

(* The cache stays bounded although nothing is locked: once nobody runs, a  *)
(* name has at most Cap entries, unless the last process to store one was   *)
(* stopped before it ended its retention, or could not remove a file.       *)
THEOREM RetentionBounded == Spec => []RetentionHolds
<1>1. Init => RetentionInv
  <2> SUFFICES ASSUME Init PROVE RetentionInv
    OBVIOUS
  <2>1. \A p \in Procs : IsFiniteSet(stats[p])
    BY FS_EmptySet DEF Init
  <2>2. \A n \in Names : PresentOf(n) = {}
    BY DEF Init, PresentOf, Present
  <2>3. Few({})
    BY FS_EmptySet, ResolverAssumption DEF Few
  <2>4. \A n \in Names : Few(PresentOf(n))
    BY <2>2, <2>3
  <2> QED
    BY <2>1, <2>4 DEF RetentionInv
<1>2. LaunchInv /\ RetentionInv /\ [Next]_vars => RetentionInv'
  BY RetentionNext
<1>3. RetentionInv => RetentionHolds
  BY DEF RetentionInv, RetentionHolds, Trims, Few, PresentOf
<1> QED
  BY <1>1, <1>2, <1>3, StoreDiscipline, PTL DEF Spec

-----------------------------------------------------------------------------
(* The rows of a retention. *)

LEMMA RowsFrame ==
  ASSUME RowsInv, NEW p \in Procs,
         \A q \in Procs \ {p} : /\ pc'[q] = pc[q] /\ listing'[q] = listing[q]
                                /\ stats'[q] = stats[q],
         RowsOf(p)'
  PROVE  RowsInv'
BY DEF RowsInv, RowsOf, Examined

LEMMA RowsCleared ==
  ASSUME RowsInv, NEW p \in Procs,
         \A q \in Procs \ {p} : /\ pc'[q] = pc[q] /\ listing'[q] = listing[q]
                                /\ stats'[q] = stats[q],
         pc'[p] # "RemoveBinary",
         stats'[p] = {}
  PROVE  RowsInv'
<1>1. RowsOf(p)'
  BY FS_EmptySet DEF RowsOf, Examined
<1> QED
  BY <1>1, RowsFrame

LEMMA RowsNext == TypeInv /\ RowsInv /\ [Next]_vars => RowsInv'
<1> SUFFICES ASSUME TypeInv, RowsInv, [Next]_vars PROVE RowsInv'
  OBVIOUS
<1> USE DEF TypeInv, TypeOK, Goto, disk, temps, memory, result, history, DiskOK,
            TempsOK, ControlOK, MemoryOK, HistoryOK
<1>b. ASSUME NEW p \in Procs, pc[p] \notin Retaining, pc'[p] # "RemoveBinary",
             \A q \in Procs \ {p} : /\ pc'[q] = pc[q] /\ listing'[q] = listing[q]
                                    /\ stats'[q] = stats[q],
             stats'[p] \in {stats[p], {}}
      PROVE  RowsInv'
  <2>1. stats'[p] = {}
    BY <1>b DEF RowsInv, RowsOf
  <2> QED
    BY <1>b, <2>1, RowsCleared
<1>c. ASSUME UNCHANGED <<pc, listing, stats>> PROVE RowsInv'
  BY <1>c DEF RowsInv, RowsOf, Examined
<1>1. ASSUME NEW p \in Procs, NEW t \in Commands, Launch(p, t) PROVE RowsInv'
  BY <1>1, <1>b DEF Launch, Retaining
<1>2. ASSUME NEW p \in Procs, RejectName(p) PROVE RowsInv'
  BY <1>2, <1>b DEF RejectName, Exit, Retaining
<1>3. ASSUME NEW p \in Procs, FindList(p) PROVE RowsInv'
  BY <1>3, <1>b DEF FindList, Retaining
<1>4. ASSUME NEW p \in Procs, FindProbe(p) PROVE RowsInv'
  BY <1>4, <1>b DEF FindProbe, Retaining
<1>5. ASSUME NEW p \in Procs, FindMiss(p) PROVE RowsInv'
  BY <1>5, <1>b DEF FindMiss, Retaining
<1>6. ASSUME NEW p \in Procs, ReadBinary(p) PROVE RowsInv'
  BY <1>6, <1>b DEF ReadBinary, Retaining
<1>7. ASSUME NEW p \in Procs, ReadSignature(p) PROVE RowsInv'
  BY <1>7, <1>b DEF ReadSignature, Retaining
<1>8. ASSUME NEW p \in Procs, EvictBinary(p) PROVE RowsInv'
  BY <1>8, <1>b DEF EvictBinary, Retaining
<1>9. ASSUME NEW p \in Procs, EvictSignature(p) PROVE RowsInv'
  BY <1>9, <1>b DEF EvictSignature, Retaining
<1>10. ASSUME NEW p \in Procs, GetManifest(p) PROVE RowsInv'
  BY <1>10, <1>b, GetManifestCases DEF Got, Exit, Retaining
<1>11. ASSUME NEW p \in Procs, GetManifestSig(p) PROVE RowsInv'
  BY <1>11, <1>b, GetManifestSigCases DEF Got, Exit, Retaining
<1>12. ASSUME NEW p \in Procs, GetAsset(p) PROVE RowsInv'
  BY <1>12, <1>b, GetAssetCases DEF Got, Exit, Retaining
<1>13. ASSUME NEW p \in Procs, WriteBinary(p) PROVE RowsInv'
  BY <1>13, <1>b DEF WriteBinary, Exit, Retaining
<1>14. ASSUME NEW p \in Procs, RenameBinary(p) PROVE RowsInv'
  BY <1>14, <1>b DEF RenameBinary, Exit, Retaining
<1>15. ASSUME NEW p \in Procs, WriteSignature(p) PROVE RowsInv'
  BY <1>15, <1>b DEF WriteSignature, Exit, Retaining
<1>16. ASSUME NEW p \in Procs, RenameSignature(p) PROVE RowsInv'
  BY <1>16, <1>b DEF RenameSignature, Exit, Retaining
<1>17. ASSUME NEW p \in Procs, ListCache(p) PROVE RowsInv'
  BY <1>17, <1>b DEF ListCache, Retaining
<1>18. ASSUME NEW p \in Procs, StatCache(p) PROVE RowsInv'
  <2>1. PICK e \in listing[p], modified \in Times :
           /\ stats' = [stats EXCEPT ![p] = @ \cup {<<modified, e>>}]
           /\ listing' = [listing EXCEPT ![p] = @ \ {e}]
    BY <1>18 DEF StatCache
  <2>2. pc[p] = "StatCache" /\ pc' = pc
    BY <1>18 DEF StatCache
  <2> DEFINE row == <<modified, e>>
  <2>3. stats'[p] = stats[p] \cup {row} /\ listing'[p] = listing[p] \ {e} /\ row[2] = e
    BY <2>1
  <2>4. /\ IsFiniteSet(stats[p]) /\ listing[p] \cap Examined(p) = {}
        /\ \A v, u \in stats[p] : v[2] = u[2] => v = u
    BY <2>2 DEF RowsInv, RowsOf
  <2> HIDE DEF row
  <2>5. IsFiniteSet(stats'[p])
    <3>1. IsFiniteSet(stats[p] \cup {row})
      BY <2>4, FS_AddElement
    <3> QED
      BY <2>3, <3>1
  <2>6. \A v \in stats[p] : v[2] # e
    BY <2>1, <2>4 DEF Examined
  <2>7. \A v, u \in stats'[p] : v[2] = u[2] => v = u
    BY <2>3, <2>4, <2>6
  <2>8. listing'[p] \cap Examined(p)' = {}
    BY <2>3, <2>4 DEF Examined
  <2>9. RowsOf(p)'
    BY <2>2, <2>5, <2>7, <2>8 DEF RowsOf, Retaining
  <2> QED
    BY <2>1, <2>2, <2>9, RowsFrame
<1>19. ASSUME NEW p \in Procs, CompareWithCap(p) PROVE RowsInv'
  <2>1. /\ pc[p] = "StatCache" /\ listing' = listing
        /\ \A q \in Procs \ {p} : pc'[q] = pc[q] /\ stats'[q] = stats[q]
    BY <1>19 DEF CompareWithCap
  <2>2. CASE stats'[p] = {} /\ pc'[p] = "Exec"
    <3>1. /\ pc'[p] # "RemoveBinary" /\ stats'[p] = {}
          /\ \A q \in Procs \ {p} : /\ pc'[q] = pc[q] /\ listing'[q] = listing[q]
                                   /\ stats'[q] = stats[q]
      BY <2>1, <2>2
    <3> QED
      BY <3>1, RowsCleared
  <2>3. CASE ~(Cardinality(stats[p]) <= Cap) /\ stats' = stats /\ pc'[p] = "RemoveBinary"
    <3>1. Cardinality(stats[p]) > Cap
      BY <2>3, FS_CardinalityType, ResolverAssumption DEF RowsInv, RowsOf
    <3>2. RowsOf(p)'
      BY <2>3, <3>1 DEF RowsInv, RowsOf, Retaining
    <3> QED
      BY <2>1, <2>3, <3>2, RowsFrame
  <2> QED
    BY <1>19, <2>2, <2>3 DEF CompareWithCap
<1>20. ASSUME NEW p \in Procs, RemoveBinary(p) PROVE RowsInv'
  <2>1. PICK v \in stats[p] : stats' = [stats EXCEPT ![p] = @ \ {v}]
    BY <1>20 DEF RemoveBinary
  <2>2. pc' = [pc EXCEPT ![p] = "RemoveSignature"] /\ listing' = listing
    BY <1>20 DEF RemoveBinary
  <2>3. stats'[p] = stats[p] \ {v} /\ pc'[p] = "RemoveSignature"
    BY <2>1, <2>2
  <2>4. IsFiniteSet(stats'[p])
    BY <2>3, FS_RemoveElement DEF RowsInv, RowsOf
  <2>5. RowsOf(p)'
    BY <2>3, <2>4 DEF RowsInv, RowsOf, Retaining
  <2> QED
    BY <2>1, <2>2, <2>5, RowsFrame
<1>21. ASSUME NEW p \in Procs, RemoveSignature(p) PROVE RowsInv'
  <2>1. /\ pc[p] = "RemoveSignature" /\ listing' = listing
        /\ \A q \in Procs \ {p} : pc'[q] = pc[q] /\ stats'[q] = stats[q]
    BY <1>21 DEF RemoveSignature
  <2>2. CASE stats'[p] = {} /\ pc'[p] = "Exec"
    <3>1. /\ pc'[p] # "RemoveBinary" /\ stats'[p] = {}
          /\ \A q \in Procs \ {p} : /\ pc'[q] = pc[q] /\ listing'[q] = listing[q]
                                   /\ stats'[q] = stats[q]
      BY <2>1, <2>2
    <3> QED
      BY <3>1, RowsCleared
  <2>3. CASE ~(Cardinality(stats[p]) <= Cap) /\ stats' = stats /\ pc'[p] = "RemoveBinary"
    <3>1. Cardinality(stats[p]) > Cap
      BY <2>3, FS_CardinalityType, ResolverAssumption DEF RowsInv, RowsOf
    <3>2. RowsOf(p)'
      BY <2>3, <3>1 DEF RowsInv, RowsOf, Retaining
    <3> QED
      BY <2>1, <2>3, <3>2, RowsFrame
  <2> QED
    BY <1>21, <2>2, <2>3 DEF RemoveSignature
<1>22. ASSUME NEW p \in Procs, Exec(p) PROVE RowsInv'
  BY <1>22, <1>b DEF Exec, Exit, Retaining
<1>23. ASSUME NEW p \in Procs, Crash(p) PROVE RowsInv'
  <2>1. /\ pc'[p] # "RemoveBinary" /\ stats'[p] = {}
        /\ \A q \in Procs \ {p} : /\ pc'[q] = pc[q] /\ listing'[q] = listing[q]
                                 /\ stats'[q] = stats[q]
    BY <1>23 DEF Crash, Exit
  <2> QED
    BY <2>1, RowsCleared
<1>24. ASSUME Tick PROVE RowsInv'
  BY <1>24, <1>c DEF Tick
<1>25. ASSUME NEW e \in Entries, DamageBinary(e) PROVE RowsInv'
  BY <1>25, <1>c DEF DamageBinary
<1>26. ASSUME NEW e \in Entries, DamageSignature(e) PROVE RowsInv'
  BY <1>26, <1>c DEF DamageSignature
<1>27. CASE UNCHANGED vars
  BY <1>27, <1>c DEF vars
<1> QED
  BY <1>1, <1>2, <1>3, <1>4, <1>5, <1>6, <1>7, <1>8, <1>9, <1>10, <1>11, <1>12, <1>13, <1>14, <1>15, <1>16, <1>17, <1>18, <1>19, <1>20, <1>21, <1>22, <1>23, <1>24, <1>25, <1>26, <1>27
     DEF Next, Step

(* Where more rows than the cap are left, at least Cap besides any one are. *)
LEMMA RowsBesides ==
  ASSUME NEW rows, IsFiniteSet(rows), Cardinality(rows) > Cap, NEW v \in rows,
         \A w, u \in rows : w[2] = u[2] => w = u,
         NEW T, IsFiniteSet(T), \A u \in rows \ {v} : u[2] \in T
  PROVE  Cardinality(T) >= Cap
<1> DEFINE others == rows \ {v}
           f == [u \in others |-> u[2]]
<1>1. IsFiniteSet(others) /\ Cardinality(others) = Cardinality(rows) - 1
  BY FS_RemoveElement
<1>2. f \in Injection(others, T)
  BY DEF Injection, IsInjective
<1>3. Cardinality(others) <= Cardinality(T)
  BY <1>2, FS_Injection
<1>4. /\ Cardinality(rows) \in Nat /\ Cardinality(others) \in Nat
      /\ Cardinality(T) \in Nat /\ Cap \in Nat
  BY <1>1, FS_CardinalityType, ResolverAssumption
<1> HIDE DEF others
<1> QED
  BY <1>1, <1>3, <1>4

LEMMA ExaminedFinite ==
  ASSUME NEW p \in Procs, IsFiniteSet(stats[p])
  PROVE  IsFiniteSet(Examined(p))
<1> DEFINE f == [v \in stats[p] |-> v[2]]
<1>1. f \in Surjection(stats[p], Examined(p))
  BY DEF Surjection, Examined
<1> QED
  BY <1>1, FS_Surjection

(* Only the process that moves is elsewhere afterwards. *)
LEMMA StepMovesOne ==
  ASSUME TypeInv, NEW p \in Procs, NEW q \in Procs \ {p}, Step(q)
  PROVE  pc'[p] = pc[p]
<1> USE DEF TypeInv, TypeOK, ControlOK, Goto
<1>1. CASE GetManifest(q)
  BY <1>1, GetManifestCases DEF Got, Exit
<1>2. CASE GetManifestSig(q)
  BY <1>2, GetManifestSigCases DEF Got, Exit
<1>3. CASE GetAsset(q)
  BY <1>3, GetAssetCases DEF Got, Exit
<1>4. CASE \/ RejectName(q) \/ FindList(q) \/ FindProbe(q) \/ FindMiss(q)
           \/ ReadBinary(q) \/ ReadSignature(q) \/ EvictBinary(q) \/ EvictSignature(q)
  BY <1>4 DEF RejectName, Exit, FindList, FindProbe, FindMiss, ReadBinary, ReadSignature,
              EvictBinary, EvictSignature
<1>5. CASE \/ WriteBinary(q) \/ RenameBinary(q) \/ WriteSignature(q)
           \/ RenameSignature(q) \/ Exec(q)
  BY <1>5 DEF WriteBinary, RenameBinary, WriteSignature, RenameSignature, Exec, Exit
<1>6. CASE \/ ListCache(q) \/ StatCache(q) \/ CompareWithCap(q) \/ RemoveBinary(q)
           \/ RemoveSignature(q)
  BY <1>6 DEF ListCache, StatCache, CompareWithCap, RemoveBinary, RemoveSignature
<1> QED
  BY <1>1, <1>2, <1>3, <1>4, <1>5, <1>6 DEF Step

LEMMA OnlyRemoveBinary ==
  ASSUME TypeInv, [Next]_vars, NEW p \in Procs,
         pc[p] = "RemoveBinary", pc'[p] = "RemoveSignature"
  PROVE  RemoveBinary(p)
<1> USE DEF TypeInv, TypeOK, ControlOK, Goto
<1>1. ASSUME NEW q \in Procs, Step(q) PROVE q = p
  <2>1. q # p => pc'[p] = pc[p]
    BY <1>1, StepMovesOne
  <2> QED
    BY <2>1
<1>2. ~\E q \in Procs : (\E t \in Commands : Launch(q, t)) \/ Crash(q)
  BY DEF Launch, Crash, Exit
<1>3. ~(Tick \/ UNCHANGED vars \/ \E e \in Entries : DamageBinary(e) \/ DamageSignature(e))
  BY DEF Tick, vars, DamageBinary, DamageSignature
<1>4. Step(p)
  BY <1>1, <1>2, <1>3 DEF Next
<1> QED
  BY <1>4 DEF Step, RejectName, FindList, FindProbe, FindMiss, ReadBinary, ReadSignature,
     EvictBinary, EvictSignature, GetManifest, GetManifestSig, GetAsset, WriteBinary,
     RenameBinary, WriteSignature, RenameSignature, ListCache, StatCache, CompareWithCap,
     RemoveSignature, Exec

(* Retention keeps the newest: whatever it removes for the cap has been     *)
(* stored again since its time was read, or Cap others that it listed are   *)
(* no older, or have changed since.                                         *)
THEOREM OldestGoFirst == Spec => VictimsAreOldest
<1> DEFINE Claim(p, e) ==
             /\ pc[p] = "RemoveBinary" /\ pc'[p] = "RemoveSignature"
             /\ Present(e) /\ bin'[e] = NoFile
             /\ Current(p, e)
             => Cardinality({o \in Examined(p) \ {e} :
                                mtime[o] >= mtime[e] \/ ~Current(p, o)}) >= Cap
<1>1. Init => RowsInv
  BY FS_EmptySet DEF Init, RowsInv, RowsOf, Retaining, Examined
<1>2. ASSUME LaunchInv, RowsInv, [Next]_vars, NEW p \in Procs, NEW e \in Entries
      PROVE  Claim(p, e)
  <2> SUFFICES ASSUME pc[p] = "RemoveBinary", pc'[p] = "RemoveSignature",
                      Present(e), bin'[e] = NoFile, Current(p, e)
               PROVE  Cardinality({o \in Examined(p) \ {e} :
                                      mtime[o] >= mtime[e] \/ ~Current(p, o)}) >= Cap
    OBVIOUS
  <2> DEFINE T == {o \in Examined(p) \ {e} : mtime[o] >= mtime[e] \/ ~Current(p, o)}
  <2>1. TypeOK
    BY <1>2 DEF LaunchInv, TypeInv
  <2>2. RemoveBinary(p)
    BY <1>2, OnlyRemoveBinary DEF LaunchInv
  <2>3. PICK v \in stats[p] : /\ \A u \in stats[p] : v[1] <= u[1]
                              /\ RemoveBinaryOf(v[2], p)
    BY <2>2 DEF RemoveBinary
  <2>4. v[2] = e
    BY <2>1, <2>3 DEF RemoveBinaryOf, Present, TypeOK, DiskOK
  <2>5. /\ IsFiniteSet(stats[p]) /\ Cardinality(stats[p]) > Cap
        /\ \A w, u \in stats[p] : w[2] = u[2] => w = u
    BY <1>2 DEF RowsInv, RowsOf
  <2>6. v = <<mtime[e], e>>
    BY <2>3, <2>4, <2>5 DEF Current
  <2>7. ASSUME NEW u \in stats[p] \ {v} PROVE u[2] \in T
    <3>1. u[2] \in Examined(p) /\ u[2] # e
      BY <2>3, <2>4, <2>5, <2>7 DEF Examined
    <3>2. CASE Current(p, u[2])
      <4>1. u = <<mtime[u[2]], u[2]>>
        BY <2>5, <2>7, <3>2 DEF Current
      <4>2. v[1] <= u[1]
        BY <2>3, <2>7
      <4>3. u \in Times \X Entries /\ v \in Times \X Entries
        BY <2>1, <2>3, <2>7 DEF TypeOK, MemoryOK
      <4>4. u[1] >= v[1] /\ u[1] = mtime[u[2]] /\ v[1] = mtime[e]
        BY <2>6, <4>1, <4>2, <4>3 DEF Times
      <4> QED
        BY <3>1, <4>4
    <3> QED
      BY <3>1, <3>2
  <2>8. IsFiniteSet(T)
    <3>1. T \subseteq Examined(p)
      OBVIOUS
    <3> HIDE DEF T
    <3> QED
      BY <2>5, <3>1, ExaminedFinite, FS_Subset
  <2> HIDE DEF T
  <2>9. Cardinality(T) >= Cap
    BY <2>3, <2>5, <2>7, <2>8, RowsBesides
  <2> QED
    BY <2>9 DEF T
<1>3. LaunchInv /\ RowsInv /\ [Next]_vars => RowsInv'
  BY RowsNext DEF LaunchInv
<1>4. LaunchInv /\ RowsInv /\ [Next]_vars => \A p \in Procs, e \in Entries : Claim(p, e)
  BY <1>2
<1> QED
  BY <1>1, <1>3, <1>4, StoreDiscipline, PTL DEF Spec, VictimsAreOldest

=============================================================================
