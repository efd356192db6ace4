-------------------------- MODULE SealedTargetProofs -------------------------
(* Proofs about SealedTarget, for every set of files and every order of parts.  *)
EXTENDS SealedTarget, TLAPS

\* A stamp that is not above the last edit cannot be the stamp of a later edit.
StampInv == \A f \in File : disk[f].stamp <= edits /\ first[f] <= edits /\ seen[f] <= edits

\* The loops of a resolution stay within their part.
LoopInv ==
  /\ pc = "resolving" => left \subseteq Files
  /\ pc = "resolving" /\ phase \in {"list", "relist"} => Parts[part].tree
  /\ opened # None => pc \in {"resolving", "refused"} /\ phase = "hash" /\ opened.file \in left

\* What the first collection, the hashes and the second one of a tree have shown.
Same(f) == disk[f].stamp = first[f]
TreeInv ==
  pc = "resolving" /\ Parts[part].tree =>
    /\ phase = "list" => \A f \in Files \ left : first[f] = 0 => digest[f] = Absent
    /\ phase # "list" => \A f \in Files : first[f] = 0 => digest[f] = Absent
    /\ phase = "hash" =>
         /\ \A f \in left : first[f] # 0
         /\ \A f \in Files : first[f] # 0 /\ Same(f) => moment[f] = disk[f].content
         /\ \A f \in Files \ left : first[f] # 0 /\ Same(f) => digest[f] = disk[f].content
    /\ phase = "relist" =>
         /\ \A f \in Files : first[f] # 0 /\ Same(f) =>
              moment[f] = disk[f].content /\ digest[f] = disk[f].content
         /\ \A f \in Files \ left : first[f] # 0 => digest[f] = moment[f]
    /\ phase = "compare" => \A f \in Files : first[f] # 0 => digest[f] = moment[f]

\* A file that was not edited since it was seen holds what its digest says.
SeenInv ==
  \A f \in File : digest[f] # None /\ disk[f].stamp = seen[f] => digest[f] = disk[f].content

\* Bytecode is of an older version than the file.  If that is the version last
\* seen, it is of what was hashed.
BytecodeInv ==
  /\ \A f \in File : digest[f] # None => seen[f] # 0
  /\ \A f \in Source : cache[f] # None =>
       /\ cache[f].stamp < disk[f].stamp
       /\ digest[f] # None /\ cache[f].stamp = seen[f] => digest[f] = cache[f].content

\* A resolution leaves no file of its parts without a digest.
Done(f) == \E i \in 1 .. (part - 1) : f \in Parts[i].files
CoverInv ==
  pc = "resolving" =>
    /\ \A f \in File : Done(f) => digest[f] # None
    /\ phase = "hash" => \A f \in Files \ left : digest[f] # None
    /\ phase \in {"relist", "compare"} => \A f \in Files : digest[f] # None

\* The runtime files of the parts that were compared are as the manifest says.
AsListed(f) == digest[f] = Expected(f)
RuntimeInv ==
  pc = "resolving" => \A f \in RuntimeFile \ Files : Done(f) => AsListed(f)

\* An execution runs with the digests of its plan.
Running ==
  {"read_design", "config", "scan", "worker", "read_profiles", "check_program", "read_policy",
   "commands"}
Covered(f) == \E i \in 1 .. LastPart : f \in Parts[i].files
PlanInv ==
  /\ pc \in Running =>
       /\ digest = plan
       /\ \A f \in File : Covered(f) => digest[f] # None
       /\ \A f \in RuntimeFile : AsListed(f)
  /\ pc \in {"read_profiles", "check_program", "read_policy", "commands"}
       \/ (pc = "resolving" /\ why \in {"slicer", "slice"})
     => target = "golden_part_r4"
  /\ pc \in {"scan", "worker"} =>
       \A f \in RuntimeFile : allow[f] = Lists[plan[Manifest]][f]
  /\ pc = "read_design" => left \subseteq DesignInput
  /\ pc = "scan" => left \subseteq Importable
  /\ found # None => found \in Importable \cup RuntimeFile
  /\ pc = "idle" \/ (pc = "resolving" /\ why = "admit") => used = Nothing

-----------------------------------------------------------------------------
\* What the code keeps of types.
LEMMA TypeInitial == Init => TypeOK
<1> SUFFICES ASSUME Init PROVE TypeOK
  OBVIOUS
<1>1. cache \in [Source -> Bytecode \cup {None}]
  BY ContentAssumption DEF Init, Bytecode
<1>2. disk \in [File -> Entry]
  BY ContentAssumption DEF Init, Entry
<1> QED
  BY <1>1, <1>2, FileAssumption, ContentAssumption, PartsAssumption
     DEF Init, TypeOK, Nothing, Digests

LEMMA PartTypes ==
  \A i \in 1 .. Len(Parts) : Parts[i].tree \in BOOLEAN /\ Parts[i].files \subseteq File
<1> DEFINE P == [tree : BOOLEAN, files : SUBSET File]
<1>1. \A q \in P : q.tree \in BOOLEAN /\ q.files \subseteq File
  OBVIOUS
<1>2. Parts \in Seq(P)
  BY PartsAssumption
<1> HIDE DEF P
<1>3. \A i \in 1 .. Len(Parts) : Parts[i] \in P
  BY <1>2
<1> QED
  BY <1>1, <1>3

LEMMA EnterTypes ==
  ASSUME TypeOK, NEW i \in 1 .. Len(Parts), Enter(i)
  PROVE  /\ part' \in 1 .. Len(Parts) /\ phase' \in {"list", "hash"} /\ left' \subseteq File
         /\ first' \in [File -> Nat] /\ opened' = None /\ moment' \in Digests
BY PartTypes DEF Enter, Nothing, Digests

LEMMA ResolveTypes ==
  ASSUME TypeOK, NEW c \in {"admit"} \cup DOMAIN After, Resolve(c)
  PROVE  TypeOK'
<1>1. 1 \in 1 .. Len(Parts)
  BY PartsAssumption
<1>2. Enter(1)
  BY DEF Resolve
<1> QED
  BY <1>1, <1>2, EnterTypes DEF Resolve, TypeOK, Nothing, Digests, runVars

LEMMA UsedType ==
  ASSUME TypeOK, NEW f \in File, There(f)
  PROVE  Used(f) \in Use /\ Imports(f) \subseteq Use
<1>1. Used(f) \in Use
  BY DEF TypeOK, There, Used, UsedAs, Use, Entry
<1>2. f \in Source /\ cache[f] # None => UsedAs(f, cache[f]) \in Use
  BY DEF TypeOK, UsedAs, Use, Bytecode, Entry
<1> QED
  BY <1>1, <1>2 DEF Imports

LEMMA TypeStep == TypeOK /\ [Next]_vars => TypeOK'
<1> SUFFICES ASSUME TypeOK, [Next]_vars PROVE TypeOK'
  OBVIOUS
<1> USE DEF scanVars, runVars
<1>0. Files \subseteq File /\ Parts[part].tree \in BOOLEAN
  BY PartTypes DEF TypeOK, Files
<1>1. ASSUME NEW f \in File, Edit(f) PROVE TypeOK'
  <2>1. cache' \in [Source -> Bytecode \cup {None}]
    BY <1>1 DEF Edit, Kept, There, TypeOK, Entry, Bytecode
  <2> QED
    BY <1>1, <2>1 DEF Edit, TypeOK, Entry
<1>2. ASSUME Refuse PROVE TypeOK'
  BY <1>2 DEF Refuse, TypeOK
<1>3. ASSUME NEW f \in File, List(f) \/ Open(f) \/ Relist(f) PROVE TypeOK'
  <2>1. CASE List(f)
    BY <2>1, <1>0 DEF List, Stamp, TypeOK, Entry, Digests
  <2>2. CASE Open(f)
    BY <2>2 DEF Open, TypeOK, Entry
  <2>3. CASE Relist(f)
    BY <2>3 DEF Relist, TypeOK
  <2> QED BY <1>3, <2>1, <2>2, <2>3
<1>4. CASE Listing
  <2>1. moment' \in Digests
    BY <1>4 DEF Listing, TypeOK, Entry, Digests
  <2> QED
    BY <1>4, <1>0, <2>1 DEF Listing, TypeOK
<1>5. CASE Hash
  <2>1. opened.file \in File
    BY <1>5 DEF Hash, TypeOK
  <2> QED
    BY <1>5, <2>1 DEF Hash, TypeOK, Entry, Digests
<1>6. CASE Hashed \/ Relisted
  BY <1>6, <1>0 DEF Hashed, Relisted, TypeOK
<1>7. CASE NextPart
  <2>1. part + 1 \in 1 .. Len(Parts)
    BY <1>7, PartsAssumption DEF NextPart, LastPart, TypeOK
  <2> QED
    BY <1>7, <2>1, EnterTypes DEF NextPart, TypeOK
<1>8. CASE Admit \/ Execute \/ StartCad \/ StartSlicer \/ StartSlice
  BY <1>8, ResolveTypes DEF Admit, Execute, StartCad, StartSlicer, StartSlice, After
<1>9. CASE Accept
  BY <1>9 DEF Accept, TypeOK
<1>10. CASE Reverified
  <2>1. After[why] \in {"read_design", "config", "check_program", "commands"}
    BY <1>10 DEF Reverified, TypeOK, After
  <2>2. Needs(After[why]) \subseteq File
    BY FileAssumption DEF Needs, File
  <2> QED
    BY <1>10, <2>1, <2>2 DEF Reverified, TypeOK
<1>11. ASSUME NEW f \in File, Read(f) \/ Command(f) PROVE TypeOK'
  <2>1. Used(f) \in Use
    BY <1>11, UsedType DEF Read, Command
  <2> QED
    BY <1>11, <2>1 DEF Read, Command, TypeOK
<1>12. CASE Configure
  <2>1. plan[Manifest] \in Content
    BY <1>12, ContentAssumption DEF Configure, ManifestKept, There, TypeOK, Entry, File
  <2>2. allow' \in Digests
    BY <1>12, <2>1, ContentAssumption DEF Configure, Runtimes, Listed, Digests
  <2> QED
    BY <1>12, <2>2, FileAssumption DEF Configure, TypeOK, File
<1>13. ASSUME NEW f \in File, Scan(f) PROVE TypeOK'
  BY <1>13 DEF Scan, TypeOK, Entry, Digests
<1>14. CASE Launch
  <2>1. \A f \in Preloaded : f \in File /\ Imports(f) \subseteq Use
    BY <1>14, UsedType, FileAssumption DEF Launch, Configured, File
  <2>2. used' \in [File -> Use \cup {None}]
    BY <1>14, <2>1 DEF Launch, TypeOK
  <2> QED
    BY <1>14, <2>2 DEF Launch, Configured, TypeOK
<1>15. ASSUME NEW f \in File, Find(f) PROVE TypeOK'
  BY <1>15 DEF Find, TypeOK, Entry
<1>16. CASE Load
  <2>1. found \in File /\ Imports(found) \subseteq Use
    BY <1>16, UsedType DEF Load, TypeOK
  <2> QED
    BY <1>16, <2>1 DEF Load, TypeOK
<1>17. CASE WorkerEnds
  BY <1>17, FileAssumption DEF WorkerEnds, TypeOK, File
<1>18. CASE CheckProgram
  BY <1>18, FileAssumption DEF CheckProgram, TypeOK, Entry, File
<1>19. CASE CommandsEnd
  BY <1>19 DEF CommandsEnd, TypeOK
<1>20. CASE UNCHANGED vars
  BY <1>20 DEF vars, TypeOK
<1>21. QED
  BY <1>1, <1>2, <1>3, <1>4, <1>5, <1>6, <1>7, <1>8, <1>9, <1>10, <1>11, <1>12, <1>13, <1>14,
     <1>15, <1>16, <1>17, <1>18, <1>19, <1>20
     DEF Next, ScanStep, RunStep, Ended, ListFails, OpenFails, RelistFails, HashFails, Disagrees,
         ReverifyFails, ReadFails, ConfigureFails, LaunchFails, Configured, FindFails, LoadFails,
         CheckProgramFails

-----------------------------------------------------------------------------
\* What a step other than those named leaves alone.
LEMMA DiskFrame ==
  ASSUME ScanStep \/ RunStep
  PROVE  disk' = disk /\ edits' = edits /\ cache' = cache
BY DEF ScanStep, RunStep, List, ListFails, Listing, Open, OpenFails, Hash, HashFails, Hashed,
       Relist, RelistFails, Relisted, NextPart, Disagrees, Refuse, Admit, Accept, Execute,
       Reverified, ReverifyFails, Read, ReadFails, StartCad, Configure, ConfigureFails, Scan,
       Launch, LaunchFails, Configured, Find, FindFails, Load, LoadFails, WorkerEnds, StartSlicer,
       CheckProgram, CheckProgramFails, StartSlice, Command, CommandsEnd, Resolve

Seeing == Hash \/ CheckProgram \/ (\E f \in File : List(f) \/ Find(f))

LEMMA SeenFrame ==
  ASSUME ScanStep \/ RunStep, ~Seeing
  PROVE  seen' = seen
BY DEF ScanStep, RunStep, ListFails, Listing, Open, OpenFails, HashFails, Hashed,
       Relist, RelistFails, Relisted, NextPart, Disagrees, Refuse, Admit, Accept, Execute,
       Reverified, ReverifyFails, Read, ReadFails, StartCad, Configure, ConfigureFails, Scan,
       Launch, LaunchFails, Configured, FindFails, Load, LoadFails, WorkerEnds, StartSlicer,
       CheckProgramFails, StartSlice, Command, CommandsEnd, Resolve, Seeing

\* The steps that begin a part, and those that follow it.
Starting == Admit \/ Execute \/ StartCad \/ StartSlicer \/ StartSlice
Beginning == NextPart \/ Starting

LEMMA StartIsResolve ==
  ASSUME Starting
  PROVE  \E c \in {"admit"} \cup DOMAIN After : Resolve(c)
BY DEF Starting, Admit, Execute, StartCad, StartSlicer, StartSlice, After

LEMMA RunFrame ==
  ASSUME TypeOK, RunStep, ~Beginning
  PROVE  /\ pc' # "resolving"
         /\ UNCHANGED <<part, phase, first, opened, digest, moment>>
<1> USE DEF scanVars
<1>1. ~(Admit \/ Execute \/ StartCad \/ StartSlicer \/ StartSlice)
  BY DEF Beginning, Starting
<1>2. CASE Accept \/ Reverified \/ ReverifyFails
  BY <1>2 DEF Accept, Reverified, ReverifyFails, Refuse, After, Resolved, Doing, TypeOK
<1>3. ASSUME NEW f \in File,
             Read(f) \/ ReadFails(f) \/ Scan(f) \/ Find(f) \/ FindFails(f) \/ Command(f)
      PROVE  /\ pc' # "resolving"
             /\ UNCHANGED <<part, phase, first, opened, digest, moment>>
  BY <1>3 DEF Read, ReadFails, Scan, Find, FindFails, Command, Refuse
<1>4. CASE Configure \/ ConfigureFails \/ Launch \/ LaunchFails \/ Load \/ LoadFails
  BY <1>4 DEF Configure, ConfigureFails, Launch, LaunchFails, Configured, Load, LoadFails, Refuse
<1>5. CASE WorkerEnds \/ CheckProgram \/ CheckProgramFails \/ CommandsEnd
  BY <1>5 DEF WorkerEnds, CheckProgram, CheckProgramFails, CommandsEnd, Refuse
<1> QED
  BY <1>1, <1>2, <1>3, <1>4, <1>5 DEF RunStep

\* A step of a resolution that goes on.
Failing ==
  \/ HashFails \/ Disagrees
  \/ \E f \in File : ListFails(f) \/ OpenFails(f) \/ RelistFails(f)
Scanning ==
  \/ Listing \/ Hash \/ Hashed \/ Relisted
  \/ \E f \in File : List(f) \/ Open(f) \/ Relist(f)

LEMMA Steps ==
  ASSUME [Next]_vars
  PROVE  \/ \E f \in File : Edit(f)
         \/ Beginning
         \/ Scanning
         \/ Failing
         \/ RunStep /\ ~Beginning
         \/ UNCHANGED vars
BY DEF Next, ScanStep, RunStep, Scanning, Failing, Beginning, Starting, Ended

LEMMA FailingFrame ==
  ASSUME Failing
  PROVE  /\ pc' = "refused"
         /\ UNCHANGED <<disk, edits, cache, why, target, scanVars, runVars, seen>>
BY DEF Failing, HashFails, Disagrees, ListFails, OpenFails, RelistFails, Refuse

LEMMA BeginningFacts ==
  ASSUME TypeOK, Beginning
  PROVE  /\ Enter(part') /\ part' \in 1 .. Len(Parts) /\ pc' = "resolving"
         /\ UNCHANGED <<disk, edits, cache, target, runVars, seen>>
         /\ \/ /\ NextPart /\ part' = part + 1 /\ UNCHANGED <<digest, why>>
            \/ /\ \E c \in {"admit"} \cup DOMAIN After : Resolve(c)
               /\ part' = 1 /\ digest' = Nothing
<1>1. CASE NextPart
  BY <1>1, PartsAssumption DEF NextPart, Enter, Doing, LastPart, TypeOK
<1>2. ASSUME NEW c \in {"admit"} \cup DOMAIN After, Resolve(c)
      PROVE  /\ Enter(part') /\ part' = 1 /\ pc' = "resolving" /\ digest' = Nothing
             /\ UNCHANGED <<disk, edits, cache, target, runVars, seen>>
  BY <1>2 DEF Resolve, Enter
<1>3. 1 \in 1 .. Len(Parts)
  BY PartsAssumption
<1> QED
  BY <1>1, <1>2, <1>3, StartIsResolve DEF Beginning

\* Stamps never exceed the number of edits.
LEMMA StampStep == TypeOK /\ StampInv /\ [Next]_vars => StampInv'
<1> SUFFICES ASSUME TypeOK, StampInv, [Next]_vars PROVE StampInv'
  OBVIOUS
<1>1. ASSUME NEW f \in File, Edit(f) PROVE StampInv'
  BY <1>1 DEF Edit, StampInv, TypeOK, Entry, scanVars
<1>2. CASE Beginning
  BY <1>2, BeginningFacts DEF Enter, StampInv, TypeOK
<1>3. CASE Scanning
  <2>1. ASSUME NEW f \in File, List(f) PROVE StampInv'
    BY <2>1 DEF List, Stamp, StampInv, TypeOK, Entry
  <2>2. CASE Hash
    <3>1. opened.file \in File
      BY <2>2 DEF Hash, TypeOK
    <3> QED
      BY <2>2, <3>1 DEF Hash, StampInv, TypeOK, Entry
  <2> QED
    BY <1>3, <2>1, <2>2 DEF Scanning, Listing, Hashed, Relisted, Open, Relist, StampInv
<1>4. CASE Failing
  BY <1>4, FailingFrame DEF StampInv, scanVars
<1>5. CASE RunStep /\ ~Beginning
  <2>1. disk' = disk /\ edits' = edits /\ first' = first
    BY <1>5, DiskFrame, RunFrame
  <2>2. \A f \in File : seen'[f] <= edits
    <3>1. ASSUME NEW g \in File, Find(g) PROVE \A f \in File : seen'[f] <= edits
      BY <3>1 DEF Find, StampInv, TypeOK, Entry
    <3>2. CASE CheckProgram
      BY <3>2 DEF CheckProgram, StampInv, TypeOK, Entry
    <3>3. CASE ~CheckProgram /\ ~(\E g \in File : Find(g))
      <4>1. \A f \in File : ~List(f) /\ ~Hash
        BY <1>5, RunFrame DEF List, Hash, Doing
      <4> QED
        BY <1>5, <3>3, <4>1, SeenFrame DEF Seeing, StampInv
    <3> QED
      BY <3>1, <3>2, <3>3
  <2> QED
    BY <2>1, <2>2 DEF StampInv
<1>6. CASE UNCHANGED vars
  BY <1>6 DEF vars, scanVars, StampInv
<1> QED
  BY <1>1, <1>2, <1>3, <1>4, <1>5, <1>6, Steps

LEMMA LoopStep == TypeOK /\ LoopInv /\ [Next]_vars => LoopInv'
<1> SUFFICES ASSUME TypeOK, LoopInv, [Next]_vars PROVE LoopInv'
  OBVIOUS
<1> USE DEF scanVars
<1>1. ASSUME NEW f \in File, Edit(f) PROVE LoopInv'
  BY <1>1 DEF Edit, LoopInv, Files
<1>2. CASE Beginning
  BY <1>2, BeginningFacts DEF Enter, LoopInv, Files
<1>3. CASE Scanning
  <2>1. ASSUME NEW f \in File, List(f) \/ Open(f) \/ Relist(f) PROVE LoopInv'
    BY <2>1 DEF List, Open, Relist, Doing, LoopInv, Files
  <2> QED
    BY <1>3, <2>1 DEF Scanning, Listing, Hash, Hashed, Relisted, Doing, LoopInv, Files
<1>4. CASE Failing
  BY <1>4, FailingFrame DEF LoopInv
<1>5. CASE RunStep /\ ~Beginning
  <2>1. CASE pc' = "refused" /\ left' = left
    BY <1>5, <2>1, RunFrame DEF LoopInv
  <2>2. CASE ~(pc' = "refused" /\ left' = left)
    <3>1. opened = None
      <4>1. CASE Accept \/ Reverified
        BY <4>1 DEF Accept, Reverified, Resolved, Doing, LoopInv
      <4>2. CASE ~(Accept \/ Reverified)
        <5>1. pc \notin {"resolving", "refused"}
          <6>1. ~(Admit \/ Execute \/ StartCad \/ StartSlicer \/ StartSlice)
            BY <1>5 DEF Beginning, Starting
          <6> QED
            BY <1>5, <2>2, <4>2, <6>1
               DEF RunStep, ReverifyFails, Read, ReadFails, Configure, ConfigureFails, Scan,
                   Launch, LaunchFails, Configured, Find, FindFails, Load, LoadFails, WorkerEnds,
                   CheckProgram, CheckProgramFails, Command, CommandsEnd, Refuse
        <5> QED
          BY <5>1 DEF LoopInv
      <4> QED BY <4>1, <4>2
    <3> QED
      BY <1>5, <3>1, RunFrame DEF LoopInv
  <2> QED BY <2>1, <2>2
<1>6. CASE UNCHANGED vars
  BY <1>6 DEF vars, LoopInv, Files
<1> QED
  BY <1>1, <1>2, <1>3, <1>4, <1>5, <1>6, Steps

-----------------------------------------------------------------------------
\* An edit gives its file a stamp that nobody has noted.
LEMMA EditFacts ==
  ASSUME TypeOK, StampInv, NEW f \in File, Edit(f)
  PROVE  /\ \A g \in File :
              disk'[g] = disk[g] \/ (disk'[g].stamp # first[g] /\ disk'[g].stamp # seen[g])
         /\ UNCHANGED <<pc, why, target, scanVars, runVars, seen>>
BY DEF Edit, StampInv, TypeOK, Entry

LEMMA TreeStep == TypeOK /\ StampInv /\ LoopInv /\ TreeInv /\ [Next]_vars => TreeInv'
<1> SUFFICES ASSUME TypeOK, StampInv, LoopInv, TreeInv, [Next]_vars PROVE TreeInv'
  OBVIOUS
<1> USE DEF scanVars
<1>1. ASSUME NEW f \in File, Edit(f) PROVE TreeInv'
  <2>1. Files \subseteq File
    BY PartTypes DEF TypeOK, Files
  <2> QED
    BY <1>1, <2>1, EditFacts DEF TreeInv, Same, Files, LoopInv
<1>2. CASE Beginning
  BY <1>2, BeginningFacts DEF Enter, TreeInv, Files
<1>3. CASE Scanning
  <2>0. Files \subseteq File
    BY PartTypes DEF TypeOK, Files
  <2>1. ASSUME NEW f \in File, List(f) PROVE TreeInv'
    BY <2>1, <2>0 DEF List, Doing, Stamp, TreeInv, Files, TypeOK, Entry, Digests
  <2>2. ASSUME NEW f \in File, Open(f) PROVE TreeInv'
    BY <2>2 DEF Open, Doing, TreeInv, Same, Files
  <2>3. ASSUME NEW f \in File, Relist(f) PROVE TreeInv'
    BY <2>3, <2>0 DEF Relist, Relists, There, Stamp, Doing, TreeInv, Same, Files
  <2>4. CASE Listing
    BY <2>4, <2>0 DEF Listing, Doing, TreeInv, Same, Files
  <2>5. CASE Hash
    <3>1. opened.file \in left /\ opened.file \in File
      BY <2>5 DEF Hash, LoopInv, TypeOK
    <3> QED
      BY <2>5, <2>0, <3>1 DEF Hash, Doing, TreeInv, Same, Files, TypeOK, Digests
  <2>6. CASE Hashed
    BY <2>6, <2>0 DEF Hashed, Doing, TreeInv, Same, Files
  <2>7. CASE Relisted
    BY <2>7, <2>0 DEF Relisted, Doing, TreeInv, Same, Files
  <2> QED
    BY <1>3, <2>1, <2>2, <2>3, <2>4, <2>5, <2>6, <2>7 DEF Scanning
<1>4. CASE Failing
  BY <1>4, FailingFrame DEF TreeInv
<1>5. CASE RunStep /\ ~Beginning
  BY <1>5, RunFrame DEF TreeInv
<1>6. CASE UNCHANGED vars
  BY <1>6 DEF vars, TreeInv, Same, Files
<1> QED
  BY <1>1, <1>2, <1>3, <1>4, <1>5, <1>6, Steps

LEMMA CoverStep == TypeOK /\ LoopInv /\ TreeInv /\ CoverInv /\ [Next]_vars => CoverInv'
<1> SUFFICES ASSUME TypeOK, LoopInv, TreeInv, CoverInv, [Next]_vars PROVE CoverInv'
  OBVIOUS
<1> USE DEF scanVars
<1>0. Files \subseteq File
  BY PartTypes DEF TypeOK, Files
<1>1. ASSUME NEW f \in File, Edit(f) PROVE CoverInv'
  BY <1>1 DEF Edit, CoverInv, Done, Files
<1>2. CASE Beginning
  <2>1. CASE NextPart
    BY <1>2, <2>1, <1>0, BeginningFacts DEF NextPart, Enter, Doing, CoverInv, Done, Files, TypeOK
  <2>2. CASE part' = 1
    BY <1>2, <2>2, BeginningFacts DEF Enter, CoverInv, Done, Files
  <2> QED
    BY <1>2, <2>1, <2>2, BeginningFacts
<1>3. CASE Scanning
  <2>1. ASSUME NEW f \in File, List(f) PROVE CoverInv'
    BY <2>1, ContentAssumption DEF List, Doing, CoverInv, Done, Files, TypeOK, Digests
  <2>2. ASSUME NEW f \in File, Open(f) \/ Relist(f) PROVE CoverInv'
    BY <2>2 DEF Open, Relist, Doing, CoverInv, Done, Files
  <2>4. CASE Listing
    <3>1. \A f \in Files \ left' : digest[f] # None
      BY <2>4, <1>0, ContentAssumption DEF Listing, Doing, LoopInv, TreeInv, Files
    <3> QED
      BY <2>4, <3>1 DEF Listing, Doing, CoverInv, Done, Files
  <2>5. CASE Hash
    <3>1. opened.file \in File
      BY <2>5 DEF Hash, TypeOK
    <3>2. disk[opened.file].content # None
      BY <3>1, ContentAssumption DEF TypeOK, Entry
    <3> QED
      BY <2>5, <1>0, <3>1, <3>2 DEF Hash, Doing, CoverInv, Done, Files, TypeOK, Digests
  <2>6. CASE Hashed \/ Relisted
    BY <2>6 DEF Hashed, Relisted, Doing, CoverInv, Done, Files
  <2> QED
    BY <1>3, <2>1, <2>2, <2>4, <2>5, <2>6 DEF Scanning
<1>4. CASE Failing
  BY <1>4, FailingFrame DEF CoverInv
<1>5. CASE RunStep /\ ~Beginning
  BY <1>5, RunFrame DEF CoverInv
<1>6. CASE UNCHANGED vars
  BY <1>6 DEF vars, CoverInv, Done, Files
<1> QED
  BY <1>1, <1>2, <1>3, <1>4, <1>5, <1>6, Steps

LEMMA SeenStep == TypeOK /\ StampInv /\ SeenInv /\ PlanInv /\ [Next]_vars => SeenInv'
<1> SUFFICES ASSUME TypeOK, StampInv, SeenInv, PlanInv, [Next]_vars PROVE SeenInv'
  OBVIOUS
<1> USE DEF scanVars
<1>1. ASSUME NEW f \in File, Edit(f) PROVE SeenInv'
  BY <1>1, EditFacts DEF SeenInv
<1>2. CASE Beginning
  BY <1>2, BeginningFacts DEF SeenInv, Nothing
<1>3. CASE Scanning
  <2>1. ASSUME NEW f \in File, List(f) PROVE SeenInv'
    BY <2>1 DEF List, There, SeenInv, TypeOK, Digests
  <2>2. CASE Hash
    <3>1. opened.file \in File
      BY <2>2 DEF Hash, TypeOK
    <3> QED
      BY <2>2, <3>1 DEF Hash, SeenInv, TypeOK, Digests
  <2> QED
    BY <1>3, <2>1, <2>2 DEF Scanning, Listing, Hashed, Relisted, Open, Relist, SeenInv
<1>4. CASE Failing
  BY <1>4, FailingFrame DEF SeenInv
<1>5. CASE RunStep /\ ~Beginning
  <2>1. disk' = disk /\ digest' = digest
    BY <1>5, DiskFrame, RunFrame
  <2>2. ASSUME NEW g \in File, Find(g) PROVE SeenInv'
    <3>1. g \in RuntimeFile => digest[g] = disk[g].content
      BY <2>2 DEF Find, Approves, PlanInv, Running, AsListed, Expected
    <3> QED
      BY <2>1, <2>2, <3>1 DEF Find, SeenInv, TypeOK
  <2>3. CASE CheckProgram
    <3>1. digest[SlicerProgram] = disk[SlicerProgram].content
      BY <2>3 DEF CheckProgram, PlanInv, Running
    <3> QED
      BY <2>1, <2>3, <3>1 DEF CheckProgram, SeenInv, TypeOK
  <2>4. CASE ~CheckProgram /\ ~(\E g \in File : Find(g))
    <3>1. \A f \in File : ~List(f) /\ ~Hash
      BY <1>5, RunFrame DEF List, Hash, Doing
    <3> QED
      BY <1>5, <2>1, <2>4, <3>1, SeenFrame DEF Seeing, SeenInv
  <2> QED
    BY <2>2, <2>3, <2>4
<1>6. CASE UNCHANGED vars
  BY <1>6 DEF vars, SeenInv
<1> QED
  BY <1>1, <1>2, <1>3, <1>4, <1>5, <1>6, Steps

LEMMA BytecodeStep ==
  TypeOK /\ StampInv /\ SeenInv /\ BytecodeInv /\ [Next]_vars => BytecodeInv'
<1> SUFFICES ASSUME TypeOK, StampInv, SeenInv, BytecodeInv, [Next]_vars PROVE BytecodeInv'
  OBVIOUS
<1> USE DEF scanVars
<1>0. Source \subseteq File
  BY FileAssumption DEF File
<1>1. ASSUME NEW f \in File, Edit(f) PROVE BytecodeInv'
  <2>1. \A g \in Source : cache'[g] = cache[g] \/ (g = f /\ cache'[g] = disk[g])
    BY <1>1 DEF Edit, Kept, TypeOK
  <2>2. \A g \in File : disk'[g].stamp = IF g = f THEN edits + 1 ELSE disk[g].stamp
    BY <1>1 DEF Edit, TypeOK
  <2>3. \A g \in File : disk[g].stamp \in Nat /\ disk[g].stamp <= edits /\ edits \in Nat
    BY DEF StampInv, TypeOK, Entry
  <2>4. ASSUME NEW g \in Source, cache'[g] # None
        PROVE  /\ cache'[g].stamp < disk'[g].stamp
               /\ digest[g] # None /\ cache'[g].stamp = seen[g] => digest[g] = cache'[g].content
    <3>1. CASE cache'[g] = cache[g]
      <4>1. cache[g].stamp \in Nat
        BY <2>4, <3>1 DEF TypeOK, Bytecode
      <4> QED
        BY <1>0, <2>2, <2>3, <2>4, <3>1, <4>1 DEF BytecodeInv
    <3>2. CASE g = f /\ cache'[g] = disk[g]
      BY <1>0, <2>2, <2>3, <3>2 DEF SeenInv
    <3> QED
      BY <2>1, <3>1, <3>2
  <2>5. digest' = digest /\ seen' = seen
    BY <1>1 DEF Edit
  <2> QED
    BY <2>4, <2>5 DEF BytecodeInv
<1>2. CASE disk' = disk /\ cache' = cache /\ digest' = digest /\ seen' = seen
  BY <1>2 DEF BytecodeInv
\* What is seen is the present version, which no bytecode is of.
<1>3. ASSUME NEW f \in File, disk' = disk, cache' = cache,
             \A g \in File \ {f} : digest'[g] = digest[g] /\ seen'[g] = seen[g],
             seen'[f] = disk[f].stamp
      PROVE  BytecodeInv'
  <2>1. disk[f].stamp \in Nat \ {0}
    BY DEF TypeOK, Entry
  <2>2. \A g \in Source : cache[g] # None => cache[g].stamp \in Nat
    BY DEF TypeOK, Bytecode
  <2> QED
    BY <1>0, <1>3, <2>1, <2>2 DEF BytecodeInv
<1>4. CASE Beginning
  <2>1. disk' = disk /\ cache' = cache /\ seen' = seen /\ (digest' = digest \/ digest' = Nothing)
    BY <1>4, BeginningFacts
  <2> QED
    BY <1>0, <2>1 DEF BytecodeInv, Nothing
<1>5. CASE Scanning
  <2>1. ASSUME NEW f \in File, List(f) PROVE BytecodeInv'
    <3>1. CASE There(f)
      BY <1>2, <2>1, <3>1 DEF List
    <3>2. CASE ~There(f)
      BY <1>3, <2>1, <3>2 DEF List, TypeOK, Digests
    <3> QED BY <3>1, <3>2
  <2>2. CASE Hash
    <3>1. opened.file \in File
      BY <2>2 DEF Hash, TypeOK
    <3> QED
      BY <1>3, <2>2, <3>1 DEF Hash, TypeOK, Digests
  <2>3. CASE Listing \/ Hashed \/ Relisted \/ \E f \in File : Open(f) \/ Relist(f)
    BY <1>2, <2>3 DEF Listing, Hashed, Relisted, Open, Relist
  <2> QED
    BY <1>5, <2>1, <2>2, <2>3 DEF Scanning
<1>6. CASE Failing
  BY <1>2, <1>6, FailingFrame
<1>7. CASE RunStep /\ ~Beginning
  <2>1. disk' = disk /\ cache' = cache /\ digest' = digest
    BY <1>7, DiskFrame, RunFrame
  <2>2. ASSUME NEW f \in File, Find(f) PROVE BytecodeInv'
    <3>1. CASE f \in RuntimeFile
      BY <1>3, <2>1, <2>2, <3>1 DEF Find, TypeOK
    <3>2. CASE f \notin RuntimeFile
      BY <1>2, <2>1, <2>2, <3>2 DEF Find
    <3> QED BY <3>1, <3>2
  <2>3. CASE CheckProgram
    <3>1. SlicerProgram \in File
      BY FileAssumption DEF File
    <3> QED
      BY <1>3, <2>1, <2>3, <3>1 DEF CheckProgram, TypeOK
  <2>4. CASE ~CheckProgram /\ ~(\E f \in File : Find(f))
    <3>1. ~Hash /\ \A f \in File : ~List(f)
      BY <1>7, RunFrame DEF List, Hash, Doing
    <3>2. ~Seeing
      BY <2>4, <3>1 DEF Seeing
    <3>3. seen' = seen
      BY <1>7, <3>2, SeenFrame
    <3> QED
      BY <1>2, <2>1, <3>3
  <2> QED
    BY <2>2, <2>3, <2>4
<1>8. CASE UNCHANGED vars
  BY <1>2, <1>8 DEF vars
<1> QED
  BY <1>1, <1>4, <1>5, <1>6, <1>7, <1>8, Steps

\* The manifest is hashed before anything that it lists.
LEMMA ManifestFirst ==
  ASSUME TypeOK, Manifest \in Files, NEW f \in RuntimeFile
  PROVE  ~Done(f)
<1> SUFFICES ASSUME NEW i \in 1 .. (part - 1), f \in Parts[i].files PROVE FALSE
  BY DEF Done
<1>1. i \in 1 .. Len(Parts) /\ part \in 1 .. Len(Parts) /\ i < part
  BY DEF TypeOK
<1> QED
  BY <1>1, OrderAssumption DEF Files

LEMMA RuntimeStep == TypeOK /\ LoopInv /\ RuntimeInv /\ [Next]_vars => RuntimeInv'
<1> SUFFICES ASSUME TypeOK, LoopInv, RuntimeInv, [Next]_vars PROVE RuntimeInv'
  OBVIOUS
<1> USE DEF scanVars
<1>1. ASSUME NEW f \in File, Edit(f) PROVE RuntimeInv'
  BY <1>1 DEF Edit, RuntimeInv, Done, Files, AsListed, Expected
<1>2. CASE Beginning
  <2>1. CASE NextPart
    <3>1. part' = part + 1 /\ digest' = digest /\ pc = "resolving" /\ Agreed
      BY <2>1 DEF NextPart, Enter, Doing
    <3>2. ASSUME NEW f \in RuntimeFile \ Files', Done(f)' PROVE AsListed(f)'
      <4>1. Done(f) \/ f \in Files
        BY <3>1, <3>2 DEF Done, Files, TypeOK
      <4>2. CASE f \in Files
        BY <4>2, <3>1 DEF Agreed, Agrees, Expected, RuntimeAgrees, AsListed
      <4>3. CASE f \notin Files
        BY <4>1, <4>3, <3>1 DEF RuntimeInv, AsListed, Expected
      <4> QED BY <4>2, <4>3
    <3> QED
      BY <3>2 DEF RuntimeInv
  <2>2. CASE part' = 1
    BY <2>2 DEF RuntimeInv, Done
  <2> QED
    BY <1>2, <2>1, <2>2, BeginningFacts
<1>3. CASE Scanning
  <2>1. ASSUME NEW f \in File, List(f) PROVE RuntimeInv'
    <3>1. There(f) \/ (f # Manifest /\ f \notin RuntimeFile)
      BY <2>1, FileAssumption DEF List
    <3>2. \A g \in RuntimeFile \cup {Manifest} : digest'[g] = digest[g]
      BY <2>1, <3>1 DEF List, TypeOK, Digests, File
    <3> QED
      BY <2>1, <3>2 DEF List, RuntimeInv, Done, Files, AsListed, Expected
  <2>2. CASE Hash
    <3>1. opened.file \in File /\ opened.file \in Files
      BY <2>2 DEF Hash, Doing, LoopInv, TypeOK
    <3>2. ASSUME NEW g \in RuntimeFile \ Files, Done(g) PROVE AsListed(g)'
      <4>1. opened.file # Manifest /\ opened.file # g
        BY <3>1, <3>2, ManifestFirst
      <4>2. Manifest \in File /\ g \in File
        BY DEF File
      <4> QED
        BY <2>2, <3>1, <3>2, <4>1, <4>2 DEF Hash, Doing, RuntimeInv, AsListed, Expected, TypeOK,
                                            Digests
    <3> QED
      BY <2>2, <3>2 DEF Hash, RuntimeInv, Done, Files
  <2> QED
    BY <1>3, <2>1, <2>2
       DEF Scanning, Listing, Hashed, Relisted, Open, Relist, Doing, RuntimeInv, Done, Files,
           AsListed, Expected
<1>4. CASE Failing
  BY <1>4, FailingFrame DEF RuntimeInv
<1>5. CASE RunStep /\ ~Beginning
  BY <1>5, RunFrame DEF RuntimeInv
<1>6. CASE UNCHANGED vars
  BY <1>6 DEF vars, RuntimeInv, Done, Files, AsListed, Expected
<1> QED
  BY <1>1, <1>2, <1>3, <1>4, <1>5, <1>6, Steps

\* When the last part agrees, every file the target needs has its digest, and
\* the runtime is what the manifest lists.
LEMMA ResolvedFacts ==
  ASSUME TypeOK, LoopInv, CoverInv, RuntimeInv, Resolved
  PROVE  /\ \A f \in File : Covered(f) => digest[f] # None
         /\ \A f \in RuntimeFile : AsListed(f)
<1>0. pc = "resolving" /\ phase = "compare" /\ Agreed /\ part = LastPart
  BY DEF Resolved, Doing
<1>1. ASSUME NEW f \in File, Covered(f) PROVE Done(f) \/ f \in Files
  BY <1>0, <1>1 DEF Covered, Done, Files, TypeOK
<1>2. \A f \in File : Covered(f) => digest[f] # None
  BY <1>0, <1>1 DEF CoverInv
<1>3. ASSUME NEW f \in RuntimeFile PROVE AsListed(f)
  <2>1. CommonParts \in 1 .. LastPart /\ LastPart \in Nat
    BY PartsAssumption DEF LastPart, TypeOK
  <2>2. PICK i \in 1 .. CommonParts : f \in Parts[i].files
    BY OrderAssumption
  <2>3. Covered(f) /\ f \in File
    BY <2>1, <2>2 DEF Covered, File
  <2>4. CASE f \in Files
    BY <2>4, <1>0 DEF Agreed, Agrees, RuntimeAgrees, AsListed
  <2>5. CASE f \notin Files
    BY <2>3, <2>5, <1>0, <1>1 DEF RuntimeInv
  <2> QED BY <2>4, <2>5
<1> QED BY <1>2, <1>3

LEMMA PlanStep ==
  TypeOK /\ LoopInv /\ CoverInv /\ RuntimeInv /\ PlanInv /\ [Next]_vars => PlanInv'
<1> SUFFICES ASSUME TypeOK, LoopInv, CoverInv, RuntimeInv, PlanInv, [Next]_vars
             PROVE  PlanInv'
  OBVIOUS
<1> USE DEF scanVars, runVars
<1>1. ASSUME NEW f \in File, Edit(f) PROVE PlanInv'
  BY <1>1 DEF Edit, PlanInv, Running, Covered, LastPart, AsListed, Expected
<1>2. CASE Beginning
  <2>1. CASE NextPart
    BY <2>1 DEF NextPart, Doing, PlanInv, Running
  <2>2. CASE Starting
    <3>1. pc' = "resolving" /\ UNCHANGED <<target, plan, allow, found, used>>
      BY <2>2, StartIsResolve DEF Resolve
    <3>2. why' \in {"slicer", "slice"} => target = "golden_part_r4"
      BY <2>2 DEF Starting, Admit, Execute, StartCad, StartSlicer, StartSlice, Resolve, PlanInv
    <3>3. why' = "admit" => used = Nothing
      BY <2>2 DEF Starting, Admit, Execute, StartCad, StartSlicer, StartSlice, Resolve, PlanInv
    <3> QED
      BY <3>1, <3>2, <3>3 DEF PlanInv, Running, Nothing
  <2> QED
    BY <1>2, <2>1, <2>2 DEF Beginning
<1>3. CASE Scanning
  BY <1>3 DEF Scanning, List, Listing, Open, Hash, Hashed, Relist, Relisted, Doing, PlanInv,
              Running, Nothing
<1>4. CASE Failing
  BY <1>4, FailingFrame DEF PlanInv, Running
<1>5. CASE RunStep /\ ~Beginning
  <2>1. CASE Accept
    BY <2>1 DEF Accept, Resolved, Doing, PlanInv, Running
  <2>2. CASE Reverified
    <3>1. (\A f \in File : Covered(f) => digest[f] # None) /\ (\A f \in RuntimeFile : AsListed(f))
      BY <2>2, ResolvedFacts DEF Reverified
    <3>2. pc = "resolving" /\ why # "admit" /\ digest = plan /\ pc' = After[why]
      BY <2>2 DEF Reverified, Resolved, Doing, Unchanged
    <3>3. why \in {"execute", "cad", "slicer", "slice"}
      BY <3>2 DEF TypeOK, After
    <3>4. pc' \in {"check_program", "commands"} => target = "golden_part_r4"
      BY <3>2, <3>3 DEF After, PlanInv
    <3>5. pc' = "read_design" => left' \subseteq DesignInput
      BY <2>2, <3>2 DEF Reverified, Needs
    <3>6. pc' \in {"read_design", "config", "check_program", "commands"}
      BY <3>2, <3>3 DEF After
    <3> QED
      BY <2>2, <3>1, <3>2, <3>4, <3>5, <3>6
         DEF Reverified, PlanInv, Covered, LastPart, AsListed, Expected
  <2>3. CASE pc' = "refused" /\ UNCHANGED <<target, plan, allow, found, used>>
    BY <2>3 DEF PlanInv, Running
  <2>4. ASSUME NEW f \in File, Read(f) PROVE PlanInv'
    BY <2>4 DEF Read, PlanInv, Running, Covered, LastPart, AsListed, Expected
  <2>5. ASSUME NEW f \in File, Command(f) PROVE PlanInv'
    BY <2>5 DEF Command, PlanInv, Running, Covered, LastPart, AsListed, Expected
  <2>6. CASE Configure
    <3>1. \A f \in RuntimeFile : f \in File
      BY DEF File
    <3> QED
      BY <2>6, <3>1 DEF Configure, Runtimes, PlanInv, Running, Covered, LastPart, AsListed, Expected
  <2>7. ASSUME NEW f \in File, Scan(f) PROVE PlanInv'
    <3>1. f \notin RuntimeFile
      BY <2>7, FileAssumption DEF Scan, PlanInv
    <3> QED
      BY <2>7, <3>1 DEF Scan, PlanInv, Running, Covered, LastPart, AsListed, Expected, TypeOK,
                        Digests
  <2>8. CASE Launch
    BY <2>8 DEF Launch, Configured, PlanInv, Running, Covered, LastPart, AsListed, Expected
  <2>9. ASSUME NEW f \in File, Find(f) PROVE PlanInv'
    BY <2>9 DEF Find, PlanInv, Running, Covered, LastPart, AsListed, Expected
  <2>10. CASE Load
    BY <2>10 DEF Load, PlanInv, Running, Covered, LastPart, AsListed, Expected
  <2>11. CASE WorkerEnds
    BY <2>11 DEF WorkerEnds, PlanInv, Running, Covered, LastPart, AsListed, Expected
  <2>12. CASE CheckProgram
    BY <2>12 DEF CheckProgram, PlanInv, Running, Covered, LastPart, AsListed, Expected
  <2>13. CASE CommandsEnd
    BY <2>13 DEF CommandsEnd, PlanInv, Running
  <2>14. ~(Admit \/ Execute \/ StartCad \/ StartSlicer \/ StartSlice)
    BY <1>5 DEF Beginning, Starting
  <2> QED
    BY <1>5, <2>1, <2>2, <2>3, <2>4, <2>5, <2>6, <2>7, <2>8, <2>9, <2>10, <2>11, <2>12, <2>13,
       <2>14
       DEF RunStep, ReverifyFails, ReadFails, ConfigureFails, LaunchFails, Configured, FindFails,
           LoadFails,
           CheckProgramFails, Refuse
<1>6. CASE UNCHANGED vars
  BY <1>6 DEF vars, PlanInv, Running, Covered, LastPart, AsListed, Expected
<1> QED
  BY <1>1, <1>2, <1>3, <1>4, <1>5, <1>6, Steps

-----------------------------------------------------------------------------
\* A use of a file that is covered, while an execution runs, is as accepted
\* unless it is of another version than was seen.
Faithful(f, u) ==
  u.content # plan[f] => u.stamp # u.seen /\ (u.file # u.seen \/ f \in Source)

LEMMA UsedFaithful ==
  ASSUME TypeOK, SeenInv, BytecodeInv, PlanInv, pc \in Running, NEW f \in File, Covered(f)
  PROVE  Faithful(f, Used(f)) /\ \A u \in Imports(f) : Faithful(f, u)
<1>1. digest[f] # None /\ plan[f] = digest[f]
  BY DEF PlanInv
<1>2. Faithful(f, Used(f))
  BY <1>1 DEF Faithful, Used, UsedAs, SeenInv
<1>3. f \in Source /\ cache[f] # None => Faithful(f, UsedAs(f, cache[f]))
  BY <1>1 DEF Faithful, UsedAs, BytecodeInv
<1> QED
  BY <1>2, <1>3 DEF Imports

LEMMA CommonIsCovered ==
  ASSUME NEW f \in AppFile \cup RuntimeFile \cup OtherFile \cup DesignInput
  PROVE  f \in File /\ Covered(f)
<1>1. f \in File
  BY FileAssumption DEF File
<1>2. CommonParts \in 1 .. LastPart
  BY PartsAssumption DEF LastPart
<1>3. PICK i \in 1 .. CommonParts : f \in Parts[i].files
  BY OrderAssumption
<1>4. i \in 1 .. LastPart
  BY <1>2, PartsAssumption DEF LastPart
<1> QED
  BY <1>1, <1>3, <1>4 DEF Covered

LEMMA R4IsCovered ==
  ASSUME target = "golden_part_r4", NEW f \in File
  PROVE  Covered(f)
BY OrderAssumption DEF Covered, LastPart

LEMMA UsedStep ==
  TypeOK /\ SeenInv /\ BytecodeInv /\ PlanInv /\ UsedIsAccepted /\ [Next]_vars => UsedIsAccepted'
<1> SUFFICES ASSUME TypeOK, SeenInv, BytecodeInv, PlanInv, UsedIsAccepted, [Next]_vars
             PROVE  UsedIsAccepted'
  OBVIOUS
<1> USE DEF scanVars, runVars
<1>1. ASSUME NEW f \in File, Read(f) PROVE UsedIsAccepted'
  <2>1. Covered(f)
    BY <1>1, CommonIsCovered, R4IsCovered DEF Read, PlanInv
  <2>2. Faithful(f, Used(f))
    BY <1>1, <2>1, UsedFaithful DEF Read, Running
  <2> QED
    BY <1>1, <2>2 DEF Read, Faithful, UsedIsAccepted, TypeOK
<1>2. ASSUME NEW f \in File, Command(f) PROVE UsedIsAccepted'
  <2>1. Faithful(f, Used(f))
    BY <1>2, R4IsCovered, UsedFaithful DEF Command, PlanInv, Running
  <2> QED
    BY <1>2, <2>1 DEF Command, Faithful, UsedIsAccepted, TypeOK
<1>3. CASE Launch
  <2>1. \A f \in Preloaded : \A u \in Imports(f) : Faithful(f, u)
    BY <1>3, CommonIsCovered, UsedFaithful, FileAssumption DEF Launch, Configured, Running
  <2> QED
    BY <1>3, <2>1 DEF Launch, Configured, Faithful, UsedIsAccepted
<1>4. CASE Load
  <2>1. found \in File /\ \A u \in Imports(found) : Faithful(found, u)
    BY <1>4, CommonIsCovered, UsedFaithful, FileAssumption DEF Load, PlanInv, Running
  <2> QED
    BY <1>4, <2>1 DEF Load, Faithful, UsedIsAccepted, TypeOK
<1>5. CASE Accept
  BY <1>5 DEF Accept, Resolved, Doing, PlanInv, UsedIsAccepted, Nothing
<1>6. CASE used' = used /\ plan' = plan
  BY <1>6 DEF UsedIsAccepted
<1>7. Scanning \/ Failing \/ Beginning => used' = used /\ plan' = plan
  BY FailingFrame, BeginningFacts
     DEF Scanning, List, Listing, Open, Hash, Hashed, Relist, Relisted
<1>8. (\E f \in File : Edit(f)) \/ UNCHANGED vars => used' = used /\ plan' = plan
  BY DEF Edit, vars
<1>9. ASSUME RunStep, ~Beginning
      PROVE  \/ used' = used /\ plan' = plan
             \/ Launch \/ Load \/ Accept \/ \E f \in File : Read(f) \/ Command(f)
  BY <1>9 DEF RunStep, Beginning, Starting, Reverified, ReverifyFails, ReadFails, Configure,
      ConfigureFails, Scan, LaunchFails, Find, FindFails, LoadFails, WorkerEnds, CheckProgram,
      CheckProgramFails, CommandsEnd, Refuse
<1> QED
  BY <1>1, <1>2, <1>3, <1>4, <1>5, <1>6, <1>7, <1>8, <1>9, Steps

-----------------------------------------------------------------------------
IInv ==
  /\ TypeOK /\ StampInv /\ LoopInv /\ TreeInv /\ SeenInv /\ BytecodeInv /\ CoverInv
  /\ RuntimeInv /\ PlanInv /\ UsedIsAccepted

LEMMA Initial == Init => IInv
<1> SUFFICES ASSUME Init PROVE IInv
  OBVIOUS
<1>1. TypeOK
  BY TypeInitial
<1>2. StampInv /\ LoopInv /\ TreeInv
  BY <1>1 DEF Init, StampInv, LoopInv, TreeInv, TypeOK
<1>3. SeenInv /\ CoverInv /\ RuntimeInv /\ PlanInv
  BY DEF Init, SeenInv, CoverInv, RuntimeInv, PlanInv, Running, Nothing
<1>4. BytecodeInv
  <2>1. \A f \in File : digest[f] = None /\ disk[f].stamp = 1
    BY DEF Init, Nothing
  <2>2. \A f \in Source : f \in File /\ (cache[f] # None => cache[f].stamp = 0)
    BY FileAssumption DEF Init, File
  <2> QED
    BY <2>1, <2>2 DEF BytecodeInv
<1>5. UsedIsAccepted
  BY DEF Init, UsedIsAccepted, Nothing
<1> QED
  BY <1>1, <1>2, <1>3, <1>4, <1>5 DEF IInv

\* The inductive invariant.
THEOREM Invariance == Spec => []IInv
<1>1. IInv /\ [Next]_vars => IInv'
  BY TypeStep, StampStep, LoopStep, TreeStep, SeenStep, BytecodeStep, CoverStep, RuntimeStep, PlanStep,
     UsedStep
     DEF IInv
<1> QED
  BY <1>1, Initial, PTL DEF Spec

\* Everything the registry, the adapters and the worker keep has its type.
THEOREM TypeCorrect == Spec => []TypeOK
BY Invariance, PTL DEF IInv

\* A fingerprint of a tree is what the tree held at one moment, for any files,
\* any order of them and any edits.
THEOREM FingerprintsAreMoments == Spec => []FingerprintIsAMoment
<1>1. IInv => FingerprintIsAMoment
  BY DEF IInv, TreeInv, Doing, FingerprintIsAMoment, Files
<1> QED
  BY <1>1, Invariance, PTL

\* What an execution uses is what was accepted, or is of another version than the
\* one last found to agree: because the file was edited since, or because a module
\* came from older bytecode.
THEOREM UsesAreAccepted == Spec => []UsedIsAccepted
BY Invariance, PTL DEF IInv
=============================================================================
