------------------------------ MODULE BuildCache ------------------------------
(***************************************************************************)
(* What `asterc build` reuses (src/main.rs cmd_build, src/manifest.rs,     *)
(* src/build_dir.rs): one profile's build directory holds an object per    *)
(* program and a manifest with the hash of each program's main file. The   *)
(* object is compiled unless the manifest says that it is fresh, linked    *)
(* into the binary, and only then entered in the manifest. A build may     *)
(* stop anywhere, and files are edited at any time.                        *)
(*                                                                         *)
(* A hash is the text it is of. Only texts that pass the front end are     *)
(* considered: with others a build stops before it looks at the directory. *)
(***************************************************************************)
EXTENDS Naturals, FiniteSets

CONSTANTS Programs,   \* main files, each with a stem of its own
          Libraries,  \* the files that they all import
          Levels,     \* values of opt_level
          Texts,      \* what a file may contain
          None

VARIABLES
  text,       \* the contents of the files
  manifest,   \* BuildManifest, or None if it is missing or corrupt
  object,     \* obj/<stem>.o: what it was compiled from, or None
  binary,     \* bin/<stem>: likewise
  build       \* the build under way, or None

vars == <<text, manifest, object, binary, build>>

Files == Programs \cup Libraries

\* What the front end reads for a program.
Inputs(p) == [f \in {p} \cup Libraries |-> text[f]]

BuildManifest(level) == [opt_level |-> level, source_hash |-> [p \in Programs |-> None]]

Init ==
  /\ text \in [Files -> Texts]
  /\ manifest = None
  /\ object = [p \in Programs |-> None]
  /\ binary = [p \in Programs |-> None]
  /\ build = None

Edit(f) ==
  /\ \E t \in Texts \ {text[f]} : text' = [text EXCEPT ![f] = t]
  /\ UNCHANGED <<manifest, object, binary, build>>

is_compatible(m, level) == m # None /\ m.opt_level = level
is_file_fresh(m, p, hash) == m.source_hash[p] = hash

\* The sources are read and lowered, and the manifest is loaded.
Start(p, level) ==
  /\ build = None
  /\ LET m == IF is_compatible(manifest, level) THEN manifest ELSE BuildManifest(level)
         fresh == is_file_fresh(m, p, text[p]) /\ object[p] # None
     IN build' = [program |-> p, manifest |-> m, hash |-> text[p],
                  code |-> [level |-> level, inputs |-> Inputs(p)],
                  at |-> IF fresh THEN "link" ELSE "compile"]
  /\ UNCHANGED <<text, manifest, object, binary>>

Compile ==
  /\ build # None /\ build.at = "compile"
  /\ object' = [object EXCEPT ![build.program] = build.code]
  /\ build' = [build EXCEPT !.at = "link"]
  /\ UNCHANGED <<text, manifest, binary>>

Link ==
  /\ build # None /\ build.at = "link"
  /\ binary' = [binary EXCEPT ![build.program] = object[build.program]]
  /\ build' = [build EXCEPT !.at = "save"]
  /\ UNCHANGED <<text, manifest, object>>

Save ==
  /\ build # None /\ build.at = "save"
  /\ manifest' = [build.manifest EXCEPT !.source_hash[build.program] = build.hash]
  /\ build' = None
  /\ UNCHANGED <<text, object, binary>>

\* An error of the compiler, the linker or the file system, or the end of the process.
Stop ==
  /\ build # None
  /\ build' = None
  /\ UNCHANGED <<text, manifest, object, binary>>

cmd_clean ==
  /\ build = None
  /\ manifest' = None
  /\ object' = [p \in Programs |-> None]
  /\ binary' = [p \in Programs |-> None]
  /\ UNCHANGED <<text, build>>

Next ==
  \/ \E f \in Files : Edit(f)
  \/ \E p \in Programs, level \in Levels : Start(p, level)
  \/ Compile \/ Link \/ Save \/ Stop \/ cmd_clean

Spec == Init /\ [][Next]_vars

-----------------------------------------------------------------------------

\* A build that links makes a binary of the sources it read at the level it was asked
\* for: an object is reused for unchanged sources only
\* (src/docs/src/content/docs/tooling/cli.mdx:79, src/src/main.rs:262).
BinaryIsCurrent == build # None /\ build.at = "save" => binary[build.program] = build.code
=============================================================================
