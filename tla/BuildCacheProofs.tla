--------------------------- MODULE BuildCacheProofs ---------------------------
(***************************************************************************)
(* A build can reuse a stale object (BinaryIsCurrent is violated), and for *)
(* two reasons only: the manifest knows nothing of the imported files, and *)
(* an object may be written that the manifest never hears of. Without the  *)
(* two, whatever is edited, stopped or cleaned, every binary is current.   *)
(***************************************************************************)
EXTENDS BuildCache, TLAPS

\* No file that is imported changes.
LibrariesKept == \A f \in Libraries : text'[f] = text[f]

Recorded == [build.manifest EXCEPT !.source_hash[build.program] = build.hash]

\* A build is over that had its object ready, and the manifest does not say so.
Forgotten == build # None /\ build.at # "compile" /\ build' = None /\ manifest' # Recorded

\* "None" is neither a text nor a build.
NoneApart ==
  /\ None \notin Texts
  /\ \A p, m, h, c, a : None # [program |-> p, manifest |-> m, hash |-> h, code |-> c, at |-> a]

-----------------------------------------------------------------------------
(* The invariant *)

\* What a program with this text is compiled to at this level.
Code(p, level, hash) ==
  [level |-> level, inputs |-> [f \in {p} \cup Libraries |-> IF f = p THEN hash ELSE text[f]]]

IsManifest(m) ==
  /\ DOMAIN m = {"opt_level", "source_hash"}
  /\ m.source_hash \in [Programs -> Texts \cup {None}]

\* The objects of these programs are what the manifest takes them for.
Describes(m, ps) ==
  \A p \in ps : m.source_hash[p] # None => object[p] = Code(p, m.opt_level, m.source_hash[p])

BuildInv ==
  /\ DOMAIN build = {"program", "manifest", "hash", "code", "at"}
  /\ build.program \in Programs /\ build.hash \in Texts
  /\ build.at \in {"compile", "link", "save"}
  /\ IsManifest(build.manifest)
  /\ build.code = Code(build.program, build.manifest.opt_level, build.hash)
  /\ Describes(build.manifest, Programs \ {build.program})
  /\ build.at # "compile" => object[build.program] = build.code
  /\ build.at = "save" => binary[build.program] = build.code

\* Programs whose object may be newer than the manifest.
Rebuilt == IF build # None /\ build.at # "compile" THEN {build.program} ELSE {}

CacheInv ==
  /\ text \in [Files -> Texts]
  /\ object \in [Programs -> {object[p] : p \in Programs}] /\ binary \in [Programs -> {binary[p] : p \in Programs}]
  /\ manifest # None => IsManifest(manifest) /\ Describes(manifest, Programs \ Rebuilt)
  /\ build # None => BuildInv

-----------------------------------------------------------------------------

\* What an object is compiled from depends on the imported files only, so an object
\* that stays is described as before.
LEMMA StillDescribes ==
  ASSUME LibrariesKept, NEW m, NEW ps, Describes(m, ps), \A p \in ps : object'[p] = object[p]
  PROVE  \A p \in ps : m.source_hash[p] # None =>
           object'[p] = [level |-> m.opt_level, inputs |-> [f \in {p} \cup Libraries |-> IF f = p THEN m.source_hash[p] ELSE text'[f]]]
<1> SUFFICES ASSUME NEW p \in ps, m.source_hash[p] # None
             PROVE  object'[p] = [level |-> m.opt_level, inputs |-> [f \in {p} \cup Libraries |-> IF f = p THEN m.source_hash[p] ELSE text'[f]]]
  OBVIOUS
<1>1. PICK hash : hash = m.source_hash[p]
  OBVIOUS
<1>2. [f \in {p} \cup Libraries |-> IF f = p THEN hash ELSE text'[f]] = [f \in {p} \cup Libraries |-> IF f = p THEN hash ELSE text[f]]
  BY DEF LibrariesKept
<1>3. object'[p] = [level |-> m.opt_level, inputs |-> [f \in {p} \cup Libraries |-> IF f = p THEN hash ELSE text[f]]]
  BY <1>1 DEF Describes, Code
<1> QED BY <1>1, <1>2, <1>3

\* The manifest on disk stays, and describes the same objects.
LEMMA ManifestStays ==
  ASSUME CacheInv, LibrariesKept, UNCHANGED manifest,
         \A p \in Programs \ Rebuilt' : p \notin Rebuilt /\ object'[p] = object[p]
  PROVE  (manifest # None)' => Describes(manifest, Programs \ Rebuilt)'
<1> SUFFICES ASSUME manifest # None PROVE Describes(manifest, Programs \ Rebuilt)'
  OBVIOUS
<1>1. PICK m, ps : m = manifest /\ ps = Programs \ Rebuilt'
  OBVIOUS
<1>2. Describes(m, ps)
  BY <1>1 DEF CacheInv, Describes
<1>3. \A p \in ps : m.source_hash[p] # None =>
        object'[p] = [level |-> m.opt_level, inputs |-> [f \in {p} \cup Libraries |-> IF f = p THEN m.source_hash[p] ELSE text'[f]]]
  BY <1>1, <1>2, StillDescribes
<1> QED BY <1>1, <1>3 DEF Describes, Code

\* So does the one that the build has loaded.
LEMMA LoadedStays ==
  ASSUME LibrariesKept, NEW m, m = build.manifest, build'.manifest = m, build'.program = build.program,
         Describes(build.manifest, Programs \ {build.program}),
         \A p \in Programs \ {build.program} : object'[p] = object[p]
  PROVE  Describes(build.manifest, Programs \ {build.program})'
<1>1. PICK ps : ps = Programs \ {build.program}
  OBVIOUS
<1>2. \A p \in ps : m.source_hash[p] # None =>
        object'[p] = [level |-> m.opt_level, inputs |-> [f \in {p} \cup Libraries |-> IF f = p THEN m.source_hash[p] ELSE text'[f]]]
  BY <1>1, StillDescribes
<1> QED BY <1>1, <1>2 DEF Describes, Code

LEMMA EditStep == ASSUME CacheInv, NEW e \in Files, Edit(e), LibrariesKept PROVE CacheInv'
<1>1. UNCHANGED <<manifest, object, binary, build>> /\ text' \in [Files -> Texts]
  BY DEF Edit, CacheInv
<1>2. manifest # None => Describes(manifest, Programs \ Rebuilt)'
  BY <1>1, ManifestStays DEF Rebuilt
<1>3. build # None => BuildInv'
  <2> SUFFICES ASSUME build # None PROVE BuildInv'
    OBVIOUS
  <2>1. BuildInv
    BY DEF CacheInv
  <2>2. Describes(build.manifest, Programs \ {build.program})'
    BY <1>1, <2>1, LoadedStays DEF BuildInv
  <2>3. PICK p, level, hash : p = build.program /\ level = build.manifest.opt_level /\ hash = build.hash
    OBVIOUS
  <2>4. [f \in {p} \cup Libraries |-> IF f = p THEN hash ELSE text'[f]] = [f \in {p} \cup Libraries |-> IF f = p THEN hash ELSE text[f]]
    BY DEF LibrariesKept
  <2>5. build.code = [level |-> level, inputs |-> [f \in {p} \cup Libraries |-> IF f = p THEN hash ELSE text[f]]]
    BY <2>1, <2>3 DEF BuildInv, Code
  <2>6. build.code' = Code(build.program, build.manifest.opt_level, build.hash)'
    BY <1>1, <2>3, <2>4, <2>5 DEF Code
  <2> QED BY <1>1, <2>1, <2>2, <2>6 DEF BuildInv, IsManifest
<1> QED BY <1>1, <1>2, <1>3 DEF CacheInv, IsManifest

LEMMA StartStep ==
  ASSUME CacheInv, NoneApart, NEW p \in Programs, NEW level, Start(p, level)
  PROVE  CacheInv'
<1> DEFINE m == IF is_compatible(manifest, level) THEN manifest ELSE BuildManifest(level)
           fresh == is_file_fresh(m, p, text[p]) /\ object[p] # None
<1>1. /\ build = None /\ UNCHANGED <<text, manifest, object, binary>>
      /\ build' = [program |-> p, manifest |-> m, hash |-> text[p],
                   code |-> [level |-> level, inputs |-> Inputs(p)],
                   at |-> IF fresh THEN "link" ELSE "compile"]
  BY DEF Start
<1>2. IsManifest(m) /\ m.opt_level = level /\ Describes(m, Programs)
  <2>1. CASE is_compatible(manifest, level)
    BY <1>1, <2>1 DEF is_compatible, CacheInv, Rebuilt
  <2>2. CASE ~is_compatible(manifest, level)
    BY <2>2 DEF BuildManifest, IsManifest, Describes
  <2> QED BY <2>1, <2>2
<1> HIDE DEF m
<1>3. text[p] \in Texts /\ text[p] # None
  BY DEF CacheInv, Files, NoneApart
<1>4. [level |-> level, inputs |-> Inputs(p)] = Code(p, level, text[p])
  BY DEF Inputs, Code
<1>5. fresh => object[p] = Code(p, level, text[p])
  BY <1>2, <1>3 DEF Describes, is_file_fresh
<1> HIDE DEF fresh
<1>6. PICK b : b = build'
  OBVIOUS
<1>7. /\ DOMAIN b = {"program", "manifest", "hash", "code", "at"} /\ b.program = p /\ b.manifest = m
      /\ b.hash = text[p] /\ b.code = Code(p, level, text[p]) /\ b.at \in {"link", "compile"}
      /\ b.at # "compile" => fresh
  BY <1>1, <1>4, <1>6
<1>8. Describes(build.manifest, Programs \ {build.program})'
  BY <1>1, <1>2, <1>6, <1>7 DEF Describes, Code
<1>9. BuildInv'
  BY <1>1, <1>2, <1>3, <1>5, <1>6, <1>7, <1>8 DEF BuildInv, Code, IsManifest
<1>10. (manifest # None)' => Describes(manifest, Programs \ Rebuilt)'
  BY <1>1, ManifestStays DEF Rebuilt, LibrariesKept
<1> QED BY <1>1, <1>9, <1>10 DEF CacheInv, IsManifest

LEMMA CompileStep == ASSUME CacheInv, NoneApart, Compile PROVE CacheInv'
<1>1. PICK b : b = build
  OBVIOUS
<1>2. /\ b # None /\ b.at = "compile" /\ BuildInv
      /\ object' = [object EXCEPT ![b.program] = b.code] /\ build' = [b EXCEPT !.at = "link"]
      /\ UNCHANGED <<text, manifest, binary>>
  BY <1>1 DEF Compile, CacheInv
<1>3. PICK c : c = build'
  OBVIOUS
<1>4. /\ DOMAIN c = DOMAIN b /\ c.program = b.program /\ c.manifest = b.manifest /\ c.hash = b.hash
      /\ c.code = b.code /\ c.at = "link"
  BY <1>1, <1>2, <1>3 DEF BuildInv
<1>5. b.program \in Programs /\ object' \in [Programs -> {object'[p] : p \in Programs}]
      /\ object'[b.program] = b.code /\ \A p \in Programs \ {b.program} : object'[p] = object[p]
  BY <1>1, <1>2 DEF CacheInv, BuildInv
<1>6. Describes(build.manifest, Programs \ {build.program})'
  BY <1>1, <1>2, <1>3, <1>4, <1>5, LoadedStays DEF BuildInv, LibrariesKept
<1>7. BuildInv'
  BY <1>1, <1>2, <1>3, <1>4, <1>5, <1>6 DEF BuildInv, Code, IsManifest
<1>8. build' # None
  <2>1. DOMAIN b = {"program", "manifest", "hash", "code", "at"}
    BY <1>1, <1>2 DEF BuildInv
  <2>2. build' = [program |-> b.program, manifest |-> b.manifest, hash |-> b.hash, code |-> b.code, at |-> "link"]
    BY <1>2, <2>1
  <2> QED BY <2>2 DEF NoneApart
<1>9. (manifest # None)' => Describes(manifest, Programs \ Rebuilt)'
  BY <1>1, <1>2, <1>3, <1>4, <1>5, <1>8, ManifestStays DEF Rebuilt, LibrariesKept
<1> QED BY <1>2, <1>5, <1>7, <1>9 DEF CacheInv, IsManifest

LEMMA LinkStep == ASSUME CacheInv, NoneApart, Link PROVE CacheInv'
<1>1. PICK b : b = build
  OBVIOUS
<1>2. /\ b # None /\ b.at = "link" /\ BuildInv
      /\ binary' = [binary EXCEPT ![b.program] = object[b.program]] /\ build' = [b EXCEPT !.at = "save"]
      /\ UNCHANGED <<text, manifest, object>>
  BY <1>1 DEF Link, CacheInv
<1>3. PICK c : c = build'
  OBVIOUS
<1>4. /\ DOMAIN c = DOMAIN b /\ c.program = b.program /\ c.manifest = b.manifest /\ c.hash = b.hash
      /\ c.code = b.code /\ c.at = "save"
  BY <1>1, <1>2, <1>3 DEF BuildInv
<1>5. /\ b.program \in Programs /\ object[b.program] = b.code
      /\ binary' \in [Programs -> {binary'[p] : p \in Programs}] /\ binary'[b.program] = b.code
  BY <1>1, <1>2 DEF CacheInv, BuildInv
<1>6. Describes(build.manifest, Programs \ {build.program})'
  BY <1>1, <1>2, <1>3, <1>4, LoadedStays DEF BuildInv, LibrariesKept
<1>7. BuildInv'
  BY <1>1, <1>2, <1>3, <1>4, <1>5, <1>6 DEF BuildInv, Code, IsManifest
<1>8. (manifest # None)' => Describes(manifest, Programs \ Rebuilt)'
  <2>1. Rebuilt' \in SUBSET {b.program} /\ Rebuilt = {b.program}
    BY <1>1, <1>2, <1>3, <1>4 DEF Rebuilt
  <2>2. Rebuilt' = {b.program}
    <3>1. build' = [program |-> b.program, manifest |-> b.manifest, hash |-> b.hash, code |-> b.code, at |-> "save"]
      BY <1>1, <1>2 DEF BuildInv
    <3> QED BY <1>3, <1>4, <3>1 DEF NoneApart, Rebuilt
  <2> QED BY <1>2, <2>1, <2>2, ManifestStays DEF LibrariesKept
<1> QED BY <1>2, <1>5, <1>7, <1>8 DEF CacheInv, IsManifest

\* A build ends, with its object entered or no object made.
LEMMA EndStep ==
  ASSUME CacheInv, NoneApart, Save \/ Stop, ~Forgotten
  PROVE  CacheInv'
<1>1. build # None /\ build' = None /\ UNCHANGED <<text, object, binary>> /\ BuildInv
  BY DEF Save, Stop, CacheInv
<1>2. Rebuilt' = {}
  BY <1>1 DEF Rebuilt
<1>3. CASE UNCHANGED manifest /\ build.at = "compile"
  <2>1. Rebuilt = {}
    BY <1>3 DEF Rebuilt
  <2>2. (manifest # None)' => Describes(manifest, Programs \ Rebuilt)'
    BY <1>1, <1>2, <1>3, <2>1, ManifestStays DEF LibrariesKept
  <2> QED BY <1>1, <1>3, <2>2 DEF CacheInv, IsManifest
<1>4. CASE manifest' = Recorded /\ build.at # "compile"
  <2>1. PICK b, m : b = build /\ m = build.manifest
    OBVIOUS
  <2>2. PICK r : r = [m EXCEPT !.source_hash[b.program] = b.hash]
    OBVIOUS
  <2>3. /\ b.program \in Programs /\ b.hash \in Texts /\ IsManifest(m)
        /\ object[b.program] = Code(b.program, m.opt_level, b.hash)
        /\ Describes(m, Programs \ {b.program})
    BY <1>1, <1>4, <2>1 DEF BuildInv
  <2>4. /\ IsManifest(r) /\ r.opt_level = m.opt_level /\ r.source_hash[b.program] = b.hash
        /\ \A p \in Programs \ {b.program} : r.source_hash[p] = m.source_hash[p]
    BY <2>2, <2>3 DEF IsManifest
  <2>5. Describes(r, Programs)
    BY <2>3, <2>4 DEF Describes
  <2>6. manifest' = r
    BY <1>4, <2>1, <2>2 DEF Recorded
  <2>7. Describes(manifest, Programs \ Rebuilt)' /\ IsManifest(manifest)'
    BY <1>1, <1>2, <2>4, <2>5, <2>6 DEF Describes, Code, IsManifest
  <2> QED BY <1>1, <2>7 DEF CacheInv
<1> QED BY <1>1, <1>3, <1>4 DEF Save, Stop, Forgotten, BuildInv

LEMMA CleanStep == ASSUME CacheInv, cmd_clean PROVE CacheInv'
<1>1. /\ build = None /\ manifest' = None /\ UNCHANGED <<text, build>>
      /\ object' = [p \in Programs |-> None] /\ binary' = [p \in Programs |-> None]
  BY DEF cmd_clean
<1> QED BY <1>1 DEF CacheInv

\* A build that links makes a binary of the sources it read, at the level it was asked
\* for, as long as no imported file is edited and no build that wrote an object ends
\* before the manifest says so: with the manifest's hash of the main file and its level
\* (src/src/main.rs:262-289) nothing else can be stale.
THEOREM CurrentUnlessForgotten ==
  ASSUME NoneApart
  PROVE  Spec /\ [][LibrariesKept /\ ~Forgotten]_vars => []BinaryIsCurrent
<1>1. Init => CacheInv
  BY DEF Init, CacheInv, Rebuilt
<1>2. CacheInv /\ [Next]_vars /\ [LibrariesKept /\ ~Forgotten]_vars => CacheInv'
  <2> SUFFICES ASSUME CacheInv, [Next]_vars, [LibrariesKept /\ ~Forgotten]_vars PROVE CacheInv'
    OBVIOUS
  <2>1. CASE UNCHANGED vars
    <3>1. UNCHANGED <<text, manifest, object, binary, build>> /\ LibrariesKept
      BY <2>1 DEF vars, LibrariesKept
    <3>2. (manifest # None)' => Describes(manifest, Programs \ Rebuilt)'
      BY <3>1, ManifestStays DEF Rebuilt
    <3>3. (build # None)' => Describes(build.manifest, Programs \ {build.program})'
      BY <3>1, LoadedStays DEF CacheInv, BuildInv
    <3>4. (build # None)' => BuildInv'
      BY <3>1, <3>3 DEF CacheInv, BuildInv, Code, IsManifest
    <3> QED BY <3>1, <3>2, <3>4 DEF CacheInv, IsManifest
  <2>2. CASE Next /\ LibrariesKept /\ ~Forgotten
    <3>1. ASSUME NEW f \in Files, Edit(f) PROVE CacheInv'
      BY <2>2, <3>1, EditStep
    <3>2. ASSUME NEW p \in Programs, NEW level \in Levels, Start(p, level) PROVE CacheInv'
      BY NoneApart, <3>2, StartStep
    <3> QED BY NoneApart, <2>2, <3>1, <3>2, CompileStep, LinkStep, EndStep, CleanStep DEF Next
  <2> QED BY <2>1, <2>2
<1>3. CacheInv => BinaryIsCurrent
  BY DEF CacheInv, BuildInv, BinaryIsCurrent
<1> QED BY <1>1, <1>2, <1>3, PTL DEF Spec
=============================================================================
