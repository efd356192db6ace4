---------------------------- MODULE SealedTarget -----------------------------
(* The identity of what an execution runs.  TrustedTargetRegistry               *)
(* (execution/registry.py) fingerprints the files a target depends on: once     *)
(* when the request is admitted, which makes the accepted plan, and again at    *)
(* every reverify; between and after these, GoldenPartPlanExecutor reads        *)
(* inputs, the sealed CAD adapter writes the import allowlist of its worker     *)
(* (bootstrap_config.py), the worker imports modules under it                   *)
(* (worker_bootstrap.py), and the sealed slicer adapter runs its commands.      *)
(* Anyone who works in the checkout may edit a file at any of these moments.    *)
(*                                                                              *)
(* A content stands for the bytes of a file and for their SHA-256.  A stamp     *)
(* stands for the size, time of modification and inode of a file: every edit is *)
(* taken to change it, which is what the registry relies on.                    *)
(*                                                                              *)
(* The interpreter keeps the bytecode of a source module in __pycache__, which  *)
(* every identity check leaves out (registry.py:373 and 387,                    *)
(* bootstrap_config.py:54), and takes it for the source when the source has the *)
(* size and the time in seconds that it was compiled with.  Two versions of a   *)
(* file may have both in common.                                                *)
EXTENDS Integers, Sequences, FiniteSets

CONSTANTS
  AppFile,        \* pyproject.toml, src/ariad_fabrication and schemas/v1
  RuntimeFile,    \* the files the CAD runtime manifest lists
  Asset,          \* the files outside the application with a digest fixed in
                  \* _PRODUCTION_APPROVAL.  _CAD_SOURCE is one inside it: that
                  \* it is hashed once more, which can only refuse, is left out.
  SlicerFile,     \* the slicer's archive and installation, listed by an asset
  OtherFile,      \* files without a digest of their own: the Python executable
  Manifest,       \* the CAD runtime manifest
  Content,        \* what a file can hold
  Absent, None,
  Approved,       \* [Asset \cup SlicerFile -> Content]
  Lists,          \* Lists[c]: the digests a manifest that holds c gives
  Importable,     \* the modules of the application: neither pyproject.toml nor a schema
  Source,         \* the modules that the interpreter keeps bytecode of: not the
                  \* native ones, nor the bootstrap, which runs as a script
  Parts,          \* what resolve() hashes, in order: [tree: BOOLEAN, files]
  CommonParts,    \* how many of them _resolve_common hashes
  Preloaded,      \* what the interpreter loads before the import boundary is in place
  SlicerProgram,  \* the slicer executable
  DesignInput, ProfileInput, PolicyInput,  \* assets the executor reads again
  Checkout,       \* what the files may hold when the service starts
  Cached,         \* what older versions the bytecode may then be of
  MaxEdits        \* bound

File == AppFile \cup RuntimeFile \cup Asset \cup SlicerFile \cup OtherFile \cup {Manifest}
Listed == AppFile \cup RuntimeFile
Target == {"golden_part_r2", "golden_part_r4"}

ASSUME FileAssumption ==
  /\ Manifest \notin AppFile \cup RuntimeFile \cup Asset \cup SlicerFile \cup OtherFile
  /\ RuntimeFile \cap (AppFile \cup Asset \cup SlicerFile) = {}
  /\ AppFile \cap (Asset \cup SlicerFile) = {}
  /\ Importable \subseteq AppFile
  /\ Preloaded \subseteq AppFile \cup RuntimeFile \cup OtherFile
  /\ Source \subseteq Importable \cup RuntimeFile
  /\ SlicerProgram \in SlicerFile
  /\ DesignInput \cup ProfileInput \cup PolicyInput \subseteq Asset
ASSUME ContentAssumption ==
  /\ Absent \notin Content /\ None \notin Content \cup {Absent} \cup File
  /\ Approved \in [Asset \cup SlicerFile -> Content]
  /\ Lists \in [Content -> [Listed -> Content \cup {Absent}]]
  /\ Checkout \subseteq [File -> Content \cup {Absent}]
  /\ Cached \subseteq [Source -> Content \cup {None}]
ASSUME PartsAssumption ==
  /\ Parts \in Seq([tree : BOOLEAN, files : SUBSET File])
  /\ CommonParts \in 1 .. Len(Parts)
  /\ MaxEdits \in Nat
\* resolve() covers every file, those both targets need first, and reads the
\* manifest once, before the runtime it lists.
ASSUME OrderAssumption ==
  /\ AppFile \cup RuntimeFile \cup OtherFile \cup DesignInput
       \subseteq UNION {Parts[i].files : i \in 1 .. CommonParts}
  /\ File \subseteq UNION {Parts[i].files : i \in 1 .. Len(Parts)}
  /\ \A i, j \in 1 .. Len(Parts) :
       /\ Manifest \in Parts[i].files /\ Manifest \in Parts[j].files => i = j
       /\ Manifest \in Parts[i].files /\ Parts[j].files \cap RuntimeFile # {} => i < j

VARIABLES
  disk,     \* [File -> [content, stamp]]
  edits,    \* edits so far, and the greatest stamp
  cache,    \* __pycache__: None, or the content and stamp of the older version that
            \* was compiled; the stamp, which is history, is 0 before the start
  pc,       \* "resolving", or what happens between two resolutions
  why,      \* who called resolve
  target,
  part, phase, left,  \* the part of Parts, the loop within it, what that loop has left
  first,    \* the stamps _collect_files found first; 0 for what was not there
  opened,   \* the file _hash_file has open, and its stamp; or None
  digest,   \* what the resolution has hashed
  plan,     \* the accepted plan: the digests of the admission
  allow,    \* the import allowlist
  found,    \* the module whose origin was verified and that is loaded next
  used,     \* history: what each file was used with and the stamp of that version,
            \* the stamp the file then had, and the stamp last seen
  seen,     \* history: the stamp each file had when last found to agree
  moment    \* history: what the files held when the first collection ended

scanVars == <<part, phase, left, first, opened, digest, moment>>
runVars == <<plan, allow, found, used>>
vars == <<disk, edits, cache, pc, why, target, scanVars, runVars, seen>>

Nothing == [f \in File |-> None]

Init ==
  /\ \E c \in Checkout : disk = [f \in File |-> [content |-> c[f], stamp |-> 1]]
  /\ edits = 1
  /\ \E c \in Cached :
       cache = [f \in Source |-> IF c[f] = None THEN None ELSE [content |-> c[f], stamp |-> 0]]
  /\ pc = "idle" /\ why = "admit"
  /\ target \in Target
  /\ part = 1 /\ phase = "compare" /\ left = {}
  /\ first = [f \in File |-> 0] /\ opened = None
  /\ digest = Nothing /\ moment = Nothing
  /\ plan = Nothing /\ allow = Nothing /\ found = None /\ used = Nothing
  /\ seen = [f \in File |-> 0]

There(f) == disk[f].content # Absent
Stamp(f) == IF There(f) THEN disk[f].stamp ELSE 0

\* The bytecode there may be of a file when its present version goes: another
\* interpreter than the worker's, which runs with -B, may have imported it.  Until
\* then, to use the bytecode is to use the file.
Kept(f) ==
  {cache} \cup (IF f \in Source /\ There(f) THEN {[cache EXCEPT ![f] = disk[f]]} ELSE {})

\* Someone writes, replaces, creates or deletes a file.
Edit(f) ==
  /\ edits <= MaxEdits
  /\ \E c \in (Content \cup {Absent}) \ {disk[f].content} :
       disk' = [disk EXCEPT ![f] = [content |-> c, stamp |-> edits + 1]]
  /\ edits' = edits + 1
  /\ cache' \in Kept(f)
  /\ UNCHANGED <<pc, why, target, scanVars, runVars, seen>>

----------------------------------------------------------------------------
(* resolve(): the parts one after the other.                                 *)

\* TargetIntegrityError, TargetUnavailableError or a failed import: the request
\* is not admitted, or the execution ends.
Refuse ==
  /\ pc' = "refused"
  /\ UNCHANGED <<disk, edits, cache, why, target, scanVars, runVars, seen>>

Enter(i) ==
  /\ part' = i
  /\ phase' = IF Parts[i].tree THEN "list" ELSE "hash"
  /\ left' = Parts[i].files
  /\ first' = [f \in File |-> 0] /\ opened' = None /\ moment' = Nothing

Resolve(caller) ==
  /\ pc' = "resolving" /\ why' = caller
  /\ digest' = Nothing
  /\ Enter(1)
  /\ UNCHANGED <<disk, edits, cache, target, runVars, seen>>

Files == Parts[part].files
Doing(p) == pc = "resolving" /\ phase = p

\* _collect_files, for a tree.  A file of the application may be missing; any other
\* is named by a manifest, which its absence contradicts.
List(f) ==
  /\ Doing("list") /\ f \in left
  /\ There(f) \/ f \in AppFile
  /\ first' = [first EXCEPT ![f] = Stamp(f)]
  /\ left' = left \ {f}
  /\ digest' = IF There(f) THEN digest ELSE [digest EXCEPT ![f] = Absent]
  /\ seen' = IF There(f) THEN seen ELSE [seen EXCEPT ![f] = disk[f].stamp]
  /\ UNCHANGED <<disk, edits, cache, pc, why, target, part, phase, opened, moment, runVars>>

ListFails(f) == Doing("list") /\ f \in left \ AppFile /\ ~There(f) /\ Refuse

Listing ==
  /\ Doing("list") /\ left = {}
  /\ phase' = "hash"
  /\ left' = {f \in Files : first[f] # 0}
  /\ moment' = [f \in File |-> disk[f].content]
  /\ UNCHANGED <<disk, edits, cache, pc, why, target, part, first, opened, digest, runVars, seen>>

\* _hash_file and _snapshot_file: the file has the stamp it was opened with when
\* its last byte was read, or the resolution ends.
Open(f) ==
  /\ Doing("hash") /\ opened = None /\ f \in left /\ There(f)
  /\ opened' = [file |-> f, stamp |-> disk[f].stamp]
  /\ UNCHANGED <<disk, edits, cache, pc, why, target, part, phase, left, first, digest, moment,
                 runVars, seen>>

OpenFails(f) == Doing("hash") /\ opened = None /\ f \in left /\ ~There(f) /\ Refuse

Undisturbed == disk[opened.file].stamp = opened.stamp

Hash ==
  /\ Doing("hash") /\ opened # None /\ Undisturbed
  /\ digest' = [digest EXCEPT ![opened.file] = disk[opened.file].content]
  /\ seen' = [seen EXCEPT ![opened.file] = disk[opened.file].stamp]
  /\ left' = left \ {opened.file} /\ opened' = None
  /\ UNCHANGED <<disk, edits, cache, pc, why, target, part, phase, first, moment, runVars>>

HashFails == Doing("hash") /\ opened # None /\ ~Undisturbed /\ Refuse

Hashed ==
  /\ Doing("hash") /\ opened = None /\ left = {}
  /\ phase' = IF Parts[part].tree THEN "relist" ELSE "compare"
  /\ left' = IF Parts[part].tree THEN Files ELSE {}
  /\ UNCHANGED <<disk, edits, cache, pc, why, target, part, first, opened, digest,
                 moment, runVars, seen>>

\* The second _collect_files of _fingerprint_tree must find what the first found.
RelistsNames(f) == There(f) = (first[f] # 0)
Relists(f) == Stamp(f) = first[f]

Relist(f) ==
  /\ Doing("relist") /\ f \in left /\ Relists(f)
  /\ left' = left \ {f}
  /\ UNCHANGED <<disk, edits, cache, pc, why, target, part, phase, first, opened, digest, moment,
                 runVars, seen>>

RelistFails(f) == Doing("relist") /\ f \in left /\ ~Relists(f) /\ Refuse

Relisted ==
  /\ Doing("relist") /\ left = {}
  /\ phase' = "compare"
  /\ UNCHANGED <<disk, edits, cache, pc, why, target, part, left, first, opened, digest, moment,
                 runVars, seen>>

\* What the CAD runtime manifest that was read lists, and what the slicer manifest
\* that is among the approved assets lists.
Expected(f) == Lists[digest[Manifest]][f]
Installed(f) == Approved[f]

\* What a part must agree with: its fixed approval; for the manifest, that its
\* trace is of the application hashed before; for the runtimes, their manifests.
AssetAgrees(f) == f \in Asset => digest[f] = Approved[f]
TraceAgrees(f) == f = Manifest => \A g \in AppFile : digest[g] = Expected(g)
RuntimeAgrees(f) == f \in RuntimeFile => digest[f] = Expected(f)
SlicerAgrees(f) == f \in SlicerFile => digest[f] = Installed(f)
Agrees(f) == AssetAgrees(f) /\ TraceAgrees(f) /\ RuntimeAgrees(f) /\ SlicerAgrees(f)

LastPart == IF target = "golden_part_r4" THEN Len(Parts) ELSE CommonParts

Agreed == \A f \in Files : Agrees(f)

NextPart ==
  /\ Doing("compare") /\ Agreed /\ part < LastPart
  /\ Enter(part + 1)
  /\ UNCHANGED <<disk, edits, cache, pc, why, target, digest, runVars, seen>>

Disagrees == Doing("compare") /\ ~Agreed /\ Refuse

Resolved == Doing("compare") /\ Agreed /\ part = LastPart

----------------------------------------------------------------------------
(* Admission: the plan of a new request is what resolve found.               *)

Admit == pc = "idle" /\ Resolve("admit")

Accept ==
  /\ Resolved /\ why = "admit"
  /\ plan' = digest
  /\ pc' = "queued"
  /\ UNCHANGED <<disk, edits, cache, why, target, scanVars, allow, found, used, seen>>

----------------------------------------------------------------------------
(* Execution.  reverify() resolves again and compares with the plan.         *)

UnchangedManifests == digest[Manifest] = plan[Manifest]

Unchanged == digest = plan

\* What follows a reverification, by its caller.
After ==
  [execute |-> "read_design", cad |-> "config", slicer |-> "check_program",
   slice |-> "commands"]
Needs(next) == IF next = "read_design" THEN DesignInput ELSE {}

Reverified ==
  /\ Resolved /\ why # "admit" /\ Unchanged
  /\ pc' = After[why]
  /\ left' = Needs(After[why])
  /\ UNCHANGED <<disk, edits, cache, why, target, part, phase, first, opened, digest,
                 moment, runVars, seen>>

ReverifyFails == Resolved /\ why # "admit" /\ ~Unchanged /\ Refuse

UsedAs(f, version) ==
  [content |-> version.content, stamp |-> version.stamp, file |-> disk[f].stamp,
   seen |-> seen[f]]
Used(f) == UsedAs(f, disk[f])

\* GoldenPartPlanExecutor.execute: a runner took the execution from the queue.
Execute == pc = "queued" /\ Resolve("execute")

\* It reads the assets by their paths, each when it needs it.
Read(f) ==
  /\ pc \in {"read_design", "read_profiles", "read_policy"}
  /\ f \in left /\ There(f)
  /\ used' = [used EXCEPT ![f] = Used(f)]
  /\ left' = left \ {f}
  /\ UNCHANGED <<disk, edits, cache, pc, why, target, part, phase, first, opened, digest, moment,
                 plan, allow, found, seen>>

ReadFails(f) ==
  /\ pc \in {"read_design", "read_profiles", "read_policy"}
  /\ f \in left /\ ~There(f)
  /\ Refuse

\* SealedCadWorkerAdapter.run
StartCad == pc = "read_design" /\ left = {} /\ Resolve("cad")

\* build_registered_import_allowlist: the manifest is read once more, and gives
\* the runtime files; the application files are hashed as they are now.
ManifestKept == There(Manifest) /\ disk[Manifest].content = plan[Manifest]

Runtimes == [f \in File |-> IF f \in RuntimeFile THEN Lists[plan[Manifest]][f] ELSE None]

Configure ==
  /\ pc = "config" /\ ManifestKept
  /\ allow' = Runtimes
  /\ pc' = "scan" /\ left' = Importable
  /\ UNCHANGED <<disk, edits, cache, why, target, part, phase, first, opened, digest, moment,
                 plan, found, used, seen>>

ConfigureFails == pc = "config" /\ ~ManifestKept /\ Refuse

Scan(f) ==
  /\ pc = "scan" /\ f \in left
  /\ allow' = [allow EXCEPT ![f] = IF There(f) THEN disk[f].content ELSE None]
  /\ left' = left \ {f}
  /\ UNCHANGED <<disk, edits, cache, pc, why, target, part, phase, first, opened, digest, moment,
                 plan, found, used, seen>>

\* The configuration is written once, after the last application file was read for it.
Configured == pc = "scan" /\ left = {}

\* What may come of an import: the source as it is, or the bytecode, if the size
\* and time that it was compiled with are those of the source, as those of another
\* version may be.
Imports(f) ==
  {Used(f)} \cup (IF f \in Source /\ cache[f] # None THEN {UsedAs(f, cache[f])} ELSE {})

\* The interpreter starts, with the bootstrap and the modules that it imports.
Launch ==
  /\ Configured
  /\ \A f \in Preloaded : There(f)
  /\ \E u \in [Preloaded -> UNION {Imports(f) : f \in Preloaded}] :
       /\ \A f \in Preloaded : u[f] \in Imports(f)
       /\ used' = [f \in File |-> IF f \in Preloaded THEN u[f] ELSE used[f]]
  /\ pc' = "worker"
  /\ UNCHANGED <<disk, edits, cache, why, target, scanVars, plan, allow, found, seen>>

LaunchFails == Configured /\ ~(\A f \in Preloaded : There(f)) /\ Refuse

\* _SealedFinder.find_spec hashes the origin of a module, which is its source.
Approves(f) == disk[f].content = allow[f]

Find(f) ==
  /\ pc = "worker" /\ found = None
  /\ f \in (Importable \cup RuntimeFile) \ Preloaded /\ used[f] = None
  /\ There(f) /\ Approves(f)
  /\ found' = f
  /\ seen' = IF f \in RuntimeFile THEN [seen EXCEPT ![f] = disk[f].stamp] ELSE seen
  /\ UNCHANGED <<disk, edits, cache, pc, why, target, scanVars, plan, allow, used>>

FindFails(f) ==
  /\ pc = "worker" /\ found = None
  /\ f \in (Importable \cup RuntimeFile) \ Preloaded /\ used[f] = None
  /\ ~(There(f) /\ Approves(f))
  /\ Refuse

\* The loader of PathFinder's spec looks at the file once more, and at its
\* bytecode, which the hook never sees.
Load ==
  /\ pc = "worker" /\ found # None /\ There(found)
  /\ \E u \in Imports(found) : used' = [used EXCEPT ![found] = u]
  /\ found' = None
  /\ UNCHANGED <<disk, edits, cache, pc, why, target, scanVars, plan, allow, seen>>

LoadFails == pc = "worker" /\ found # None /\ ~There(found) /\ Refuse

\* The worker ends; an R4 execution goes on with the profiles.
WorkerEnds ==
  /\ pc = "worker" /\ found = None
  /\ pc' = IF target = "golden_part_r4" THEN "read_profiles" ELSE "done"
  /\ left' = IF target = "golden_part_r4" THEN ProfileInput ELSE {}
  /\ UNCHANGED <<disk, edits, cache, why, target, part, phase, first, opened, digest, moment,
                 runVars, seen>>

\* SealedPrusaSlicerAdapter.__init__: the executable is hashed once more.
StartSlicer == pc = "read_profiles" /\ left = {} /\ Resolve("slicer")

CheckProgram ==
  /\ pc = "check_program" /\ disk[SlicerProgram].content = plan[SlicerProgram]
  /\ seen' = [seen EXCEPT ![SlicerProgram] = disk[SlicerProgram].stamp]
  /\ pc' = "read_policy" /\ left' = PolicyInput
  /\ UNCHANGED <<disk, edits, cache, why, target, part, phase, first, opened, digest, moment,
                 runVars>>

CheckProgramFails ==
  pc = "check_program" /\ disk[SlicerProgram].content # plan[SlicerProgram] /\ Refuse

\* slice_model, and then the three commands, which read the installation as they run.
StartSlice == pc = "read_policy" /\ left = {} /\ Resolve("slice")

Command(f) ==
  /\ pc = "commands" /\ f \in SlicerFile /\ There(f)
  /\ used' = [used EXCEPT ![f] = Used(f)]
  /\ UNCHANGED <<disk, edits, cache, pc, why, target, scanVars, plan, allow, found, seen>>

CommandsEnd ==
  /\ pc = "commands"
  /\ pc' = "done"
  /\ UNCHANGED <<disk, edits, cache, why, target, scanVars, runVars, seen>>

----------------------------------------------------------------------------
ScanStep ==
  \/ \E f \in File : List(f) \/ ListFails(f) \/ Open(f) \/ OpenFails(f)
                     \/ Relist(f) \/ RelistFails(f)
  \/ Listing \/ Hash \/ HashFails \/ Hashed \/ Relisted \/ NextPart \/ Disagrees

RunStep ==
  \/ Admit \/ Accept \/ Execute \/ Reverified \/ ReverifyFails
  \/ \E f \in File : Read(f) \/ ReadFails(f) \/ Scan(f) \/ Find(f) \/ FindFails(f) \/ Command(f)
  \/ StartCad \/ Configure \/ ConfigureFails \/ Launch \/ LaunchFails
  \/ Load \/ LoadFails \/ WorkerEnds
  \/ StartSlicer \/ CheckProgram \/ CheckProgramFails \/ StartSlice \/ CommandsEnd

Ended == pc \in {"refused", "done"} /\ UNCHANGED vars

Next == ScanStep \/ RunStep \/ (\E f \in File : Edit(f)) \/ Ended

Spec == Init /\ [][Next]_vars

----------------------------------------------------------------------------
Entry == [content : Content \cup {Absent}, stamp : Nat \ {0}]
Bytecode == [content : Content, stamp : Nat]
Use == [content : Content, stamp : Nat, file : Nat, seen : Nat]
Digests == [File -> Content \cup {Absent, None}]

TypeOK ==
  /\ disk \in [File -> Entry] /\ edits \in Nat /\ target \in Target
  /\ cache \in [Source -> Bytecode \cup {None}]
  /\ pc \in {"idle", "resolving", "queued", "read_design", "config", "scan", "worker",
            "read_profiles", "check_program", "read_policy", "commands", "done", "refused"}
  /\ why \in {"admit"} \cup DOMAIN After
  /\ part \in 1 .. Len(Parts) /\ phase \in {"list", "hash", "relist", "compare"}
  /\ left \subseteq File /\ first \in [File -> Nat]
  /\ opened \in {None} \cup [file : File, stamp : Nat]
  /\ digest \in Digests /\ moment \in Digests /\ plan \in Digests /\ allow \in Digests
  /\ found \in File \cup {None}
  /\ used \in [File -> Use \cup {None}] /\ seen \in [File -> Nat]

\* A tree that was fingerprinted held all that was hashed at one moment, however
\* long the hashing took and whatever was edited meanwhile.
FingerprintIsAMoment ==
  Doing("compare") /\ Parts[part].tree =>
    \A f \in Files : digest[f] # Absent => digest[f] = moment[f]

\* Whatever the execution reads, imports or runs is what was accepted, unless it
\* is of another version than the one last found to agree with the plan.  Either
\* the file was edited after that, or what was used is the bytecode of another
\* version of a module, which nothing compares.  The modules of the runtime are
\* last found to agree at their import, everything else at the last
\* reverification.
UsedIsAccepted ==
  \A f \in File :
    used[f] # None /\ used[f].content # plan[f] =>
      /\ used[f].stamp # used[f].seen
      /\ used[f].file # used[f].seen \/ f \in Source
=============================================================================
