------------------------- MODULE ProjectStoreProofs -------------------------
(***************************************************************************)
(* Theorems about ProjectStore, for any projects, threads and bounds.      *)
(*                                                                         *)
(* The properties are not inductive: they rest on what the threads and the *)
(* lock carry from one step of a call to the next.                         *)
(***************************************************************************)
EXTENDS ProjectStore, TLAPS

(* Who is inside the lock holds it.                                        *)
LockHeld == \A c \in Client : thread[c].pc \in Locked => lock = c

(* A project that is being created has its directory and no project.json.  *)
Creating == \A c \in Client :
  At(c, "creating") => MyProject(c) \in directory \ saved

(* A confirmation inside the lock found no Brief and published its job.    *)
Publishing == \A c \in Client :
  thread[c].pc \in {"published", "brief_open"} =>
    ~HasBrief(MyProject(c)) /\ thread[c].record.job \in runs[MyProject(c)]

(* A plan on its way to disk is bound to the Brief that is there.          *)
Planning == \A c \in Client :
  thread[c].pc \in {"plan", "plan_open"} =>
    HasBrief(MyProject(c)) /\ thread[c].record = brief[MyProject(c)]

Inv == TypeOK /\ LockHeld /\ Creating /\ Publishing /\ Planning /\ BriefPublished /\ PlanBound

-----------------------------------------------------------------------------
(* What the two ways to update a thread do.                                *)

LEMMA CallsThread ==
  ASSUME TypeOK, NEW c \in Client, NEW p \in Project, NEW pc \in Unlocked \cup Locked,
         NEW d \in Draft, NEW r \in Record, Calls(c, p, pc, d, r)
  PROVE  /\ thread' \in [Client -> Thread]
         /\ thread'[c] = [pc |-> pc, project |-> p, draft |-> d, record |-> r]
         /\ \A x \in Client \ {c} : thread'[x] = thread[x]
BY DEF TypeOK, Calls, Thread

LEMMA GotoThread ==
  ASSUME TypeOK, NEW c \in Client, NEW pc \in Unlocked \cup Locked, Goto(c, pc)
  PROVE  /\ thread' \in [Client -> Thread]
         /\ thread'[c].pc = pc
         /\ thread'[c].project = thread[c].project
         /\ thread'[c].record = thread[c].record
         /\ \A x \in Client \ {c} : thread'[x] = thread[x]
<1>1. thread[c] \in Thread
  BY DEF TypeOK
<1>2. [thread[c] EXCEPT !.pc = pc] \in Thread
  BY <1>1 DEF Thread
<1>3. thread' = [thread EXCEPT ![c] = [thread[c] EXCEPT !.pc = pc]]
  BY DEF Goto
<1>4. DOMAIN thread = Client
  BY DEF TypeOK
<1>5. thread'[c] = [thread[c] EXCEPT !.pc = pc]
  BY <1>3, <1>4
<1> QED
  BY <1>1, <1>2, <1>3, <1>5 DEF TypeOK, Thread

LEMMA EmptyRecords == NoDraft \in Draft /\ NoRecord \in Record
BY DEF NoDraft, Draft, NoRecord, Record

(* The gate keeps the draft that was read and adds the job.                *)
LEMMA GateThread ==
  ASSUME TypeOK, NEW c \in Client, RunBriefGate(c)
  PROVE  /\ thread' \in [Client -> Thread]
         /\ thread'[c].pc = "confirm"
         /\ thread'[c].record.job = jobs + 1
         /\ \A x \in Client \ {c} : thread'[x] = thread[x]
<1> DEFINE r == [job |-> jobs + 1, draft |-> thread[c].draft.id]
           t == [thread[c] EXCEPT !.pc = "confirm", !.record = r]
<1>1. thread[c] \in Thread /\ DOMAIN thread = Client /\ jobs \in Nat
  BY DEF TypeOK
<1>2. r \in Record
  BY <1>1 DEF Thread, Draft, Record
<1>3. t \in Thread /\ t.pc = "confirm" /\ t.record = r
  BY <1>1, <1>2 DEF Thread, Unlocked
<1>4. thread' = [thread EXCEPT ![c] = t]
  BY <1>1 DEF RunBriefGate
<1>5. r.job = jobs + 1
  OBVIOUS
<1> HIDE DEF r, t
<1> QED
  BY <1>1, <1>3, <1>4, <1>5 DEF TypeOK

LEMMA InitInv == Init => Inv
<1> SUFFICES ASSUME Init PROVE Inv
  OBVIOUS
<1>1. \A c \in Client : thread[c].pc = "idle"
  BY DEF Init
<1>2. thread \in [Client -> Thread]
  BY EmptyRecords DEF Init, Thread, Unlocked
<1>3. TypeOK
  BY <1>2, EmptyRecords DEF Init, TypeOK
<1> QED
  BY <1>1, <1>3 DEF Init, Inv, LockHeld, Locked, Creating, At, Publishing, Planning,
     BriefPublished, PlanBound, PlanConsistent, HasBrief

-----------------------------------------------------------------------------
(* One lemma per action: it keeps the invariant.                           *)

LEMMA CreateDirectoryInv ==
  ASSUME Inv, NEW c \in Client, NEW p \in Project, CreateDirectory(c, p)
  PROVE  Inv'
<1>1. /\ thread' \in [Client -> Thread]
      /\ thread'[c] = [pc |-> "creating", project |-> p, draft |-> NoDraft, record |-> NoRecord]
      /\ \A x \in Client \ {c} : thread'[x] = thread[x]
  BY CallsThread, EmptyRecords DEF CreateDirectory, Inv, Locked
<1>2. TypeOK'
  BY <1>1 DEF CreateDirectory, Lock, Inv, TypeOK
<1>3. LockHeld' /\ Creating'
  BY <1>1, ClientAssumption
     DEF CreateDirectory, Lock, Inv, TypeOK, LockHeld, Creating, At, MyProject, Locked
<1>4. Publishing' /\ Planning' /\ BriefPublished' /\ PlanBound'
  BY <1>1 DEF CreateDirectory, Inv, Publishing, Planning, BriefPublished, PlanBound, PlanConsistent,
     HasBrief, MyProject
<1> QED
  BY <1>2, <1>3, <1>4 DEF Inv

LEMMA CreateProjectInv ==
  ASSUME Inv, NEW c \in Client, CreateProject(c)
  PROVE  Inv'
<1>1. /\ thread' \in [Client -> Thread]
      /\ thread'[c].pc = "idle"
      /\ \A x \in Client \ {c} : thread'[x] = thread[x]
  BY GotoThread DEF CreateProject, Return, Inv, Unlocked
<1>2. MyProject(c) \in Project /\ MyProject(c) \in directory /\ lock = c
  BY DEF CreateProject, Inv, Creating, LockHeld, At, Locked, TypeOK, Thread, MyProject
<1>3. TypeOK'
  BY <1>1, <1>2 DEF CreateProject, Return, Inv, TypeOK
<1>4. LockHeld' /\ Creating'
  BY <1>1, <1>2 DEF CreateProject, Return, Inv, LockHeld, Creating, At, MyProject, Locked
<1>5. Publishing' /\ Planning' /\ BriefPublished' /\ PlanBound'
  BY <1>1 DEF CreateProject, Inv, Publishing, Planning, BriefPublished, PlanBound, PlanConsistent,
     HasBrief, MyProject
<1> QED
  BY <1>3, <1>4, <1>5 DEF Inv

LEMMA SaveDraftInv ==
  ASSUME Inv, NEW c \in Client, NEW p \in Project, NEW ready \in BOOLEAN, SaveDraft(c, p, ready)
  PROVE  Inv'
<1>0. [id |-> drafts + 1, ready |-> ready] \in Draft /\ NoRecord \in Record
  BY EmptyRecords DEF Inv, TypeOK, Draft, SaveDraft
<1>1. /\ thread' \in [Client -> Thread]
      /\ thread'[c] = [pc |-> "save", project |-> p,
                       draft |-> [id |-> drafts + 1, ready |-> ready], record |-> NoRecord]
      /\ \A x \in Client \ {c} : thread'[x] = thread[x]
  BY <1>0, CallsThread DEF SaveDraft, Inv, Unlocked
<1>2. TypeOK'
  BY <1>1 DEF SaveDraft, disk, Inv, TypeOK
<1>3. LockHeld' /\ Creating'
  BY <1>1 DEF SaveDraft, disk, Inv, LockHeld, Creating, At, MyProject, Locked
<1>4. Publishing' /\ Planning' /\ BriefPublished' /\ PlanBound'
  BY <1>1 DEF SaveDraft, disk, Inv, Publishing, Planning, BriefPublished, PlanBound, PlanConsistent,
     HasBrief, MyProject
<1> QED
  BY <1>2, <1>3, <1>4 DEF Inv

LEMMA ReadDraftInv ==
  ASSUME Inv, NEW c \in Client, NEW p \in Project, ReadDraft(c, p)
  PROVE  Inv'
<1>0. draft[p] \in Draft /\ NoRecord \in Record
  BY EmptyRecords DEF Inv, TypeOK, Draft, ReadDraft
<1>1. /\ thread' \in [Client -> Thread]
      /\ thread'[c] = [pc |-> "checked", project |-> p, draft |-> draft[p], record |-> NoRecord]
      /\ \A x \in Client \ {c} : thread'[x] = thread[x]
  BY <1>0, CallsThread DEF ReadDraft, Inv, Unlocked
<1>2. TypeOK'
  BY <1>1 DEF ReadDraft, disk, Inv, TypeOK
<1>3. LockHeld' /\ Creating'
  BY <1>1 DEF ReadDraft, disk, Inv, LockHeld, Creating, At, MyProject, Locked
<1>4. Publishing' /\ Planning' /\ BriefPublished' /\ PlanBound'
  BY <1>1 DEF ReadDraft, disk, Inv, Publishing, Planning, BriefPublished, PlanBound, PlanConsistent,
     HasBrief, MyProject
<1> QED
  BY <1>2, <1>3, <1>4 DEF Inv

LEMMA ReadBriefInv ==
  ASSUME Inv, NEW c \in Client, NEW p \in Project, ReadBrief(c, p)
  PROVE  Inv'
<1>0. NoDraft \in Draft /\ brief[p] \in Record
  BY EmptyRecords DEF Inv, TypeOK, Draft, ReadBrief
<1>1. /\ thread' \in [Client -> Thread]
      /\ thread'[c] = [pc |-> "plan", project |-> p, draft |-> NoDraft, record |-> brief[p]]
      /\ \A x \in Client \ {c} : thread'[x] = thread[x]
  BY <1>0, CallsThread DEF ReadBrief, Inv, Unlocked
<1>2. TypeOK'
  BY <1>1 DEF ReadBrief, disk, Inv, TypeOK
<1>3. LockHeld' /\ Creating'
  BY <1>1 DEF ReadBrief, disk, Inv, LockHeld, Creating, At, MyProject, Locked
<1>4. Publishing' /\ Planning' /\ BriefPublished' /\ PlanBound'
  BY <1>1 DEF ReadBrief, disk, Inv, Publishing, Planning, BriefPublished, PlanBound, PlanConsistent,
     HasBrief, MyProject
<1> QED
  BY <1>2, <1>3, <1>4 DEF Inv

LEMMA LeaveConfirmInv ==
  ASSUME Inv, NEW c \in Client, LeaveConfirm(c)
  PROVE  Inv'
<1>1. /\ thread' \in [Client -> Thread]
      /\ thread'[c].pc = "idle"
      /\ \A x \in Client \ {c} : thread'[x] = thread[x]
  BY GotoThread DEF LeaveConfirm, Inv, Unlocked
<1>2. TypeOK'
  BY <1>1 DEF LeaveConfirm, disk, Inv, TypeOK
<1>3. LockHeld' /\ Creating'
  BY <1>1 DEF LeaveConfirm, disk, Inv, LockHeld, Creating, At, MyProject, Locked
<1>4. Publishing' /\ Planning' /\ BriefPublished' /\ PlanBound'
  BY <1>1 DEF LeaveConfirm, disk, Inv, Publishing, Planning, BriefPublished, PlanBound,
              PlanConsistent,
     HasBrief, MyProject
<1> QED
  BY <1>2, <1>3, <1>4 DEF Inv

LEMMA FindBriefInv ==
  ASSUME Inv, NEW c \in Client, FindBrief(c)
  PROVE  Inv'
<1>1. /\ thread' \in [Client -> Thread]
      /\ thread'[c].pc = "idle"
      /\ \A x \in Client \ {c} : thread'[x] = thread[x]
  BY GotoThread DEF FindBrief, Inv, Unlocked
<1>2. TypeOK'
  BY <1>1 DEF FindBrief, disk, Inv, TypeOK
<1>3. LockHeld' /\ Creating'
  BY <1>1 DEF FindBrief, disk, Inv, LockHeld, Creating, At, MyProject, Locked
<1>4. Publishing' /\ Planning' /\ BriefPublished' /\ PlanBound'
  BY <1>1 DEF FindBrief, disk, Inv, Publishing, Planning, BriefPublished, PlanBound, PlanConsistent,
     HasBrief, MyProject
<1> QED
  BY <1>2, <1>3, <1>4 DEF Inv

LEMMA RunBriefGateInv ==
  ASSUME Inv, NEW c \in Client, RunBriefGate(c)
  PROVE  Inv'
<1>1. /\ thread' \in [Client -> Thread]
      /\ thread'[c].pc = "confirm"
      /\ \A x \in Client \ {c} : thread'[x] = thread[x]
  BY GateThread DEF Inv
<1>2. TypeOK'
  BY <1>1 DEF RunBriefGate, disk, Inv, TypeOK
<1>3. LockHeld' /\ Creating'
  BY <1>1 DEF RunBriefGate, disk, Inv, LockHeld, Creating, At, MyProject, Locked
<1>4. Publishing' /\ Planning' /\ BriefPublished' /\ PlanBound'
  BY <1>1 DEF RunBriefGate, disk, Inv, Publishing, Planning, BriefPublished, PlanBound,
              PlanConsistent,
     HasBrief, MyProject
<1> QED
  BY <1>2, <1>3, <1>4 DEF Inv

LEMMA PublishRevisionInv ==
  ASSUME Inv, NEW c \in Client, PublishRevision(c)
  PROVE  Inv'
<1>1. /\ thread' \in [Client -> Thread]
      /\ thread'[c].pc = "published"
      /\ thread'[c].project = thread[c].project
      /\ thread'[c].record = thread[c].record
      /\ \A x \in Client \ {c} : thread'[x] = thread[x]
  BY GotoThread DEF PublishRevision, Inv, Locked
<1>2. MyProject(c) \in Project /\ thread[c].record.job \in Nat
  BY DEF Inv, TypeOK, Thread, MyProject, Record
<1>3. runs' \in [Project -> SUBSET Nat] /\ thread[c].record.job \in runs'[MyProject(c)]
  BY <1>2 DEF PublishRevision, Inv, TypeOK
<1>4. \A p \in Project : runs[p] \subseteq runs'[p]
  BY <1>2 DEF PublishRevision, Inv, TypeOK
<1>5. TypeOK'
  BY <1>1, <1>3 DEF PublishRevision, Lock, Inv, TypeOK
<1>6. LockHeld' /\ Creating'
  BY <1>1, ClientAssumption
     DEF PublishRevision, Lock, Inv, LockHeld, Creating, At, MyProject, Locked
<1>7. \A x \in Client : MyProject(x) \in Project
  BY DEF Inv, TypeOK, Thread, MyProject
<1>8. Publishing'
  BY <1>1, <1>3, <1>4, <1>7 DEF PublishRevision, Inv, Publishing, HasBrief, MyProject
<1>9. Planning' /\ BriefPublished' /\ PlanBound'
  BY <1>1, <1>4 DEF PublishRevision, Inv, Planning, BriefPublished, PlanBound, PlanConsistent,
     HasBrief, MyProject
<1> QED
  BY <1>5, <1>6, <1>8, <1>9 DEF Inv

LEMMA OpenDraftInv ==
  ASSUME Inv, NEW c \in Client, OpenDraft(c)
  PROVE  Inv'
<1>1. /\ thread' \in [Client -> Thread]
      /\ \/ thread'[c].pc = "idle" /\ lock' = NoClient
         \/ thread'[c].pc = "draft_open" /\ lock' = c
      /\ thread'[c].project = thread[c].project
      /\ thread'[c].record = thread[c].record
      /\ \A x \in Client \ {c} : thread'[x] = thread[x]
  <2>1. CASE Goto(c, "idle") /\ lock' = NoClient
    BY <2>1, GotoThread DEF Inv, Unlocked
  <2>2. CASE Goto(c, "draft_open") /\ lock' = c
    BY <2>2, GotoThread DEF Inv, Locked
  <2> QED
    BY <2>1, <2>2 DEF OpenDraft, Open, OpenPc, Return
<1>2. MyProject(c) \in Project /\ "draft" \in TmpKind
  BY DEF Inv, TypeOK, Thread, MyProject, TmpKind, OpenPc
<1>3. tmp' \subseteq Project \X TmpKind
  BY <1>2 DEF OpenDraft, Open, Inv, TypeOK
<1>4. lock = NoClient \/ lock = c
  BY DEF OpenDraft, Inv, LockHeld, At, Locked
<1>5. TypeOK'
  BY <1>1, <1>3 DEF OpenDraft, disk, Inv, TypeOK
<1>6. LockHeld' /\ Creating'
  BY <1>1, <1>4, ClientAssumption
     DEF OpenDraft, disk, Inv, LockHeld, Creating, At, MyProject, Locked
<1>7. Publishing' /\ Planning' /\ BriefPublished' /\ PlanBound'
  BY <1>1 DEF OpenDraft, disk, At, Inv, Publishing, Planning, BriefPublished, PlanBound,
              PlanConsistent,
     HasBrief, MyProject
<1> QED
  BY <1>5, <1>6, <1>7 DEF Inv

LEMMA OpenBriefInv ==
  ASSUME Inv, NEW c \in Client, OpenBrief(c)
  PROVE  Inv'
<1>1. /\ thread' \in [Client -> Thread]
      /\ \/ thread'[c].pc = "idle" /\ lock' = NoClient
         \/ thread'[c].pc = "brief_open" /\ lock' = c
      /\ thread'[c].project = thread[c].project
      /\ thread'[c].record = thread[c].record
      /\ \A x \in Client \ {c} : thread'[x] = thread[x]
  <2>1. CASE Goto(c, "idle") /\ lock' = NoClient
    BY <2>1, GotoThread DEF Inv, Unlocked
  <2>2. CASE Goto(c, "brief_open") /\ lock' = c
    BY <2>2, GotoThread DEF Inv, Locked
  <2> QED
    BY <2>1, <2>2 DEF OpenBrief, Open, OpenPc, Return
<1>2. MyProject(c) \in Project /\ "brief" \in TmpKind
  BY DEF Inv, TypeOK, Thread, MyProject, TmpKind, OpenPc
<1>3. tmp' \subseteq Project \X TmpKind
  BY <1>2 DEF OpenBrief, Open, Inv, TypeOK
<1>4. lock = NoClient \/ lock = c
  BY DEF OpenBrief, Inv, LockHeld, At, Locked
<1>5. TypeOK'
  BY <1>1, <1>3 DEF OpenBrief, disk, Inv, TypeOK
<1>6. LockHeld' /\ Creating'
  BY <1>1, <1>4, ClientAssumption
     DEF OpenBrief, disk, Inv, LockHeld, Creating, At, MyProject, Locked
<1>7. Publishing' /\ Planning' /\ BriefPublished' /\ PlanBound'
  BY <1>1 DEF OpenBrief, disk, At, Inv, Publishing, Planning, BriefPublished, PlanBound,
              PlanConsistent,
     HasBrief, MyProject
<1> QED
  BY <1>5, <1>6, <1>7 DEF Inv

LEMMA OpenPlanInv ==
  ASSUME Inv, NEW c \in Client, OpenPlan(c)
  PROVE  Inv'
<1>1. /\ thread' \in [Client -> Thread]
      /\ \/ thread'[c].pc = "idle" /\ lock' = NoClient
         \/ thread'[c].pc = "plan_open" /\ lock' = c
      /\ thread'[c].project = thread[c].project
      /\ thread'[c].record = thread[c].record
      /\ \A x \in Client \ {c} : thread'[x] = thread[x]
  <2>1. CASE Goto(c, "idle") /\ lock' = NoClient
    BY <2>1, GotoThread DEF Inv, Unlocked
  <2>2. CASE Goto(c, "plan_open") /\ lock' = c
    BY <2>2, GotoThread DEF Inv, Locked
  <2> QED
    BY <2>1, <2>2 DEF OpenPlan, Open, OpenPc, Return
<1>2. MyProject(c) \in Project /\ "plan" \in TmpKind
  BY DEF Inv, TypeOK, Thread, MyProject, TmpKind, OpenPc
<1>3. tmp' \subseteq Project \X TmpKind
  BY <1>2 DEF OpenPlan, Open, Inv, TypeOK
<1>4. lock = NoClient \/ lock = c
  BY DEF OpenPlan, Inv, LockHeld, At, Locked
<1>5. TypeOK'
  BY <1>1, <1>3 DEF OpenPlan, disk, Inv, TypeOK
<1>6. LockHeld' /\ Creating'
  BY <1>1, <1>4, ClientAssumption
     DEF OpenPlan, disk, Inv, LockHeld, Creating, At, MyProject, Locked
<1>7. Publishing' /\ Planning' /\ BriefPublished' /\ PlanBound'
  BY <1>1 DEF OpenPlan, disk, At, Inv, Publishing, Planning, BriefPublished, PlanBound,
              PlanConsistent,
     HasBrief, MyProject
<1> QED
  BY <1>5, <1>6, <1>7 DEF Inv

LEMMA ReplaceDraftInv ==
  ASSUME Inv, NEW c \in Client, ReplaceDraft(c)
  PROVE  Inv'
<1>1. /\ thread' \in [Client -> Thread]
      /\ thread'[c].pc = "idle"
      /\ \A x \in Client \ {c} : thread'[x] = thread[x]
  BY GotoThread DEF ReplaceDraft, Return, Inv, Unlocked
<1>2. thread[c] \in Thread /\ lock = c /\ \A x \in Client : MyProject(x) \in Project
  BY DEF ReplaceDraft, Inv, TypeOK, Thread, LockHeld, At, Locked, MyProject
<1>3. TypeOK'
  BY <1>1, <1>2 DEF ReplaceDraft, Rename, Return, Inv, TypeOK, Thread
<1>4. LockHeld' /\ Creating'
  BY <1>1, <1>2 DEF ReplaceDraft, Return, Inv, LockHeld, Creating, At, MyProject, Locked
<1>5. Publishing' /\ Planning' /\ BriefPublished' /\ PlanBound'
  BY <1>1 DEF ReplaceDraft, Inv, Publishing, Planning, BriefPublished, PlanBound, PlanConsistent,
     HasBrief, MyProject
<1> QED
  BY <1>3, <1>4, <1>5 DEF Inv

LEMMA ReplaceBriefInv ==
  ASSUME Inv, NEW c \in Client, ReplaceBrief(c)
  PROVE  Inv'
<1>1. /\ thread' \in [Client -> Thread]
      /\ thread'[c].pc = "idle"
      /\ \A x \in Client \ {c} : thread'[x] = thread[x]
  BY GotoThread DEF ReplaceBrief, Return, Inv, Unlocked
<1>2. thread[c] \in Thread /\ lock = c /\ \A x \in Client : MyProject(x) \in Project
  BY DEF ReplaceBrief, Inv, TypeOK, Thread, LockHeld, At, Locked, MyProject
<1>3. TypeOK'
  BY <1>1, <1>2 DEF ReplaceBrief, Rename, Return, Inv, TypeOK, Thread
<1>4. LockHeld' /\ Creating'
  BY <1>1, <1>2 DEF ReplaceBrief, Return, Inv, LockHeld, Creating, At, MyProject, Locked
<1>5. Publishing' /\ Planning' /\ BriefPublished' /\ PlanBound'
  <2>1. ~HasBrief(MyProject(c)) /\ thread[c].record.job \in runs[MyProject(c)]
    BY DEF ReplaceBrief, At, Inv, Publishing
  <2>2. \A p \in Project : brief'[p] = IF p = MyProject(c) THEN thread[c].record ELSE brief[p]
    BY <1>2 DEF ReplaceBrief, Inv, TypeOK
  <2>3. BriefPublished'
    BY <2>1, <2>2 DEF ReplaceBrief, Inv, BriefPublished, HasBrief
  <2>4. PlanBound'
    BY <2>1, <2>2 DEF ReplaceBrief, Inv, PlanBound, PlanConsistent, HasBrief
  <2>5. Planning'
    BY <1>1, <1>2, <2>1, <2>2 DEF Inv, Planning, HasBrief, MyProject
  <2>6. Publishing'
    BY <1>1, <1>2 DEF ReplaceBrief, Inv, Publishing, LockHeld, Locked, HasBrief, MyProject
  <2> QED
    BY <2>3, <2>4, <2>5, <2>6
<1> QED
  BY <1>3, <1>4, <1>5 DEF Inv

LEMMA ReplacePlanInv ==
  ASSUME Inv, NEW c \in Client, ReplacePlan(c)
  PROVE  Inv'
<1>1. /\ thread' \in [Client -> Thread]
      /\ thread'[c].pc = "idle"
      /\ \A x \in Client \ {c} : thread'[x] = thread[x]
  BY GotoThread DEF ReplacePlan, Return, Inv, Unlocked
<1>2. thread[c] \in Thread /\ lock = c /\ \A x \in Client : MyProject(x) \in Project
  BY DEF ReplacePlan, Inv, TypeOK, Thread, LockHeld, At, Locked, MyProject
<1>3. TypeOK'
  BY <1>1, <1>2 DEF ReplacePlan, Rename, Return, Inv, TypeOK, Thread
<1>4. LockHeld' /\ Creating'
  BY <1>1, <1>2 DEF ReplacePlan, Return, Inv, LockHeld, Creating, At, MyProject, Locked
<1>5. Publishing' /\ Planning' /\ BriefPublished' /\ PlanBound'
  <2>1. thread[c].record = brief[MyProject(c)]
    BY DEF ReplacePlan, At, Inv, Planning
  <2>2. \A p \in Project : plan'[p] = IF p = MyProject(c) THEN brief[p] ELSE plan[p]
    BY <1>2, <2>1 DEF ReplacePlan, Inv, TypeOK
  <2>3. PlanBound'
    BY <2>2 DEF ReplacePlan, Inv, PlanBound, PlanConsistent
  <2>4. Publishing' /\ Planning' /\ BriefPublished'
    BY <1>1 DEF ReplacePlan, Inv, Publishing, Planning, BriefPublished, HasBrief, MyProject
  <2> QED
    BY <2>3, <2>4
<1> QED
  BY <1>3, <1>4, <1>5 DEF Inv

LEMMA WriteFailsInv ==
  ASSUME Inv, NEW c \in Client, WriteFails(c)
  PROVE  Inv'
<1>1. /\ thread' \in [Client -> Thread]
      /\ thread'[c].pc = "idle"
      /\ \A x \in Client \ {c} : thread'[x] = thread[x]
  BY GotoThread DEF WriteFails, Return, Inv, Unlocked
<1>2. lock = c
  BY DEF WriteFails, Inv, LockHeld
<1>3. saved \subseteq directory' /\ directory' \subseteq Project
  BY DEF WriteFails, Inv, TypeOK, Creating
<1>4. tmp' \subseteq tmp
  BY DEF WriteFails
<1>5. TypeOK'
  BY <1>1, <1>3, <1>4 DEF WriteFails, Return, Inv, TypeOK
<1>6. LockHeld' /\ Creating'
  BY <1>1, <1>2 DEF WriteFails, Return, Inv, LockHeld, Creating, At, MyProject, Locked
<1>7. Publishing' /\ Planning' /\ BriefPublished' /\ PlanBound'
  BY <1>1 DEF WriteFails, Inv, Publishing, Planning, BriefPublished, PlanBound, PlanConsistent,
     HasBrief, MyProject
<1> QED
  BY <1>5, <1>6, <1>7 DEF Inv

(* A crash ends every call.                                                *)
LEMMA CrashThread ==
  ASSUME Inv, Crash, NEW c \in Client
  PROVE  thread'[c].pc = "idle" /\ thread'[c] \in Thread
<1>1. thread'[c] = [thread[c] EXCEPT !.pc = "idle"]
  BY DEF Crash
<1>2. thread[c] \in Thread
  BY DEF Inv, TypeOK
<1> QED
  BY <1>1, <1>2 DEF Thread, Unlocked

LEMMA CrashInv ==
  ASSUME Inv, Crash
  PROVE  Inv'
<1>1. \A c \in Client : thread'[c].pc = "idle" /\ thread'[c] \in Thread
  BY CrashThread
<1>2. thread' \in [Client -> Thread]
  BY <1>1 DEF Crash
<1>3. TypeOK'
  BY <1>2 DEF Crash, disk, Inv, TypeOK
<1>4. LockHeld' /\ Creating' /\ Publishing' /\ Planning'
  BY <1>1 DEF LockHeld, Creating, Publishing, Planning, At, Locked
<1>5. BriefPublished' /\ PlanBound'
  BY DEF Crash, disk, Inv, BriefPublished, PlanBound, PlanConsistent, HasBrief
<1> QED
  BY <1>3, <1>4, <1>5 DEF Inv

LEMMA NextInv == Inv /\ [Next]_vars => Inv'
<1> SUFFICES ASSUME Inv, [Next]_vars PROVE Inv'
  OBVIOUS
<1>1. CASE Crash
  BY <1>1, CrashInv
<1>2. CASE \E c \in Client : ClientStep(c)
  BY <1>2, CreateDirectoryInv, CreateProjectInv, SaveDraftInv, OpenDraftInv, ReplaceDraftInv,
     ReadDraftInv, LeaveConfirmInv, RunBriefGateInv, FindBriefInv, PublishRevisionInv,
     OpenBriefInv, ReplaceBriefInv, ReadBriefInv, OpenPlanInv, ReplacePlanInv, WriteFailsInv
     DEF ClientStep
<1>3. CASE UNCHANGED vars
  BY <1>3 DEF vars, disk, Inv, TypeOK, LockHeld, Creating, Publishing, Planning,
     BriefPublished, PlanBound, PlanConsistent, HasBrief, At, MyProject
<1> QED
  BY <1>1, <1>2, <1>3 DEF Next

LEMMA AlwaysInv == Spec => []Inv
BY InitInv, NextInv, PTL DEF Spec

-----------------------------------------------------------------------------
(* Every file holds a record of its type, and a project.json its directory *)
(* (create removes the directory of a project only if it has none).        *)
THEOREM TypeCorrect == Spec => []TypeOK
BY AlwaysInv, PTL DEF Inv

(* A Brief on disk has its R0 revision under the runs root, whatever calls *)
(* race and wherever the process stops (confirm_brief).                    *)
THEOREM BriefAlwaysPublished == Spec => []BriefPublished
BY AlwaysInv, PTL DEF Inv

(* A design plan on disk is bound to the Brief of its project, so          *)
(* get_design_plan finds its claim boundary consistent.                    *)
THEOREM PlansAreBound == Spec => []PlanBound
BY AlwaysInv, PTL DEF Inv

(* No step replaces a Brief: only a confirmation writes brief.json, and it *)
(* found none inside the lock (Publishing).                                *)
THEOREM BriefsAreKept == Spec => BriefKept
<1>1. Inv /\ [Next]_vars => [\A p \in Project : HasBrief(p) => brief'[p] = brief[p]]_vars
  <2> SUFFICES ASSUME Inv, Next, NEW p \in Project, HasBrief(p), brief'[p] # brief[p]
               PROVE  FALSE
    OBVIOUS
  <2>1. PICK c \in Client : ReplaceBrief(c)
    BY DEF Next, ClientStep, Crash, disk, CreateDirectory, CreateProject, SaveDraft,
       OpenDraft, ReplaceDraft, ReadDraft, LeaveConfirm, RunBriefGate, FindBrief,
       PublishRevision, OpenBrief, ReadBrief, OpenPlan, ReplacePlan, WriteFails
  <2>2. p = MyProject(c)
    BY <2>1 DEF ReplaceBrief, Inv, TypeOK
  <2> QED
    BY <2>1, <2>2 DEF ReplaceBrief, At, Inv, Publishing
<1> QED
  BY <1>1, AlwaysInv, PTL DEF Spec, BriefKept

-----------------------------------------------------------------------------
(* Stray .tmp files and the number of revisions: both follow the holder of *)
(* the lock, the only thread that writes.                                  *)

(* Only the holder of the lock is past an open.                            *)
LEMMA OpenKinds ==
  /\ TmpKind = {"draft", "brief", "plan"}
  /\ OpenPc["draft"] = "draft_open" /\ OpenPc["brief"] = "brief_open"
  /\ OpenPc["plan"] = "plan_open"
BY DEF TmpKind, OpenPc

(* A call that begins or moves on outside the lock leaves its holder alone. *)
LEMMA OutsideLock ==
  ASSUME Inv, NEW c \in Client,
         \/ LeaveConfirm(c) \/ RunBriefGate(c) \/ FindBrief(c)
         \/ \E p \in Project : \/ ReadDraft(c, p) \/ ReadBrief(c, p)
                               \/ \E ready \in BOOLEAN : SaveDraft(c, p, ready)
  PROVE  /\ \A x \in Client : thread[x].pc \in Locked => thread'[x] = thread[x]
         /\ UNCHANGED <<runs, brief, tmp, lock, crashes, failures>>
<1>1. \A x \in Client \ {c} : thread'[x] = thread[x]
  BY GateThread DEF LeaveConfirm, FindBrief, Goto, ReadDraft, ReadBrief, SaveDraft, Calls,
     Inv, TypeOK
<1>2. thread[c].pc \notin Locked
  BY DEF LeaveConfirm, RunBriefGate, FindBrief, ReadDraft, ReadBrief, SaveDraft, Calls, At,
     Locked
<1> QED
  BY <1>1, <1>2 DEF LeaveConfirm, RunBriefGate, FindBrief, ReadDraft, ReadBrief, SaveDraft, disk

LEMMA TmpStep ==
  ASSUME Inv, StrayOnlyAfterCrash, Next, crashes' = 0
  PROVE  TmpIsWritten'
<1> SUFFICES ASSUME NEW p \in Project, NEW kind \in TmpKind,
                    <<p, kind>> \in tmp'
             PROVE  (\E c \in Client : /\ lock = c /\ MyProject(c) = p
                                       /\ At(c, OpenPc[kind]))'
  BY DEF TmpIsWritten
<1>1. PICK c \in Client : ClientStep(c)
  BY DEF Next, Crash, Inv, TypeOK
<1>2. \A q \in Project, k \in TmpKind : <<q, k>> \in tmp =>
         \E x \in Client : lock = x /\ MyProject(x) = q /\ At(x, OpenPc[k])
  BY <1>1 DEF StrayOnlyAfterCrash, TmpIsWritten, ClientStep, CreateDirectory, CreateProject,
              SaveDraft,
     OpenDraft, ReplaceDraft, ReadDraft, LeaveConfirm, RunBriefGate, FindBrief,
     PublishRevision, OpenBrief, ReplaceBrief, ReadBrief, OpenPlan, ReplacePlan, WriteFails
<1>3. \A k \in TmpKind : OpenPc[k] \in Locked
  BY OpenKinds DEF Locked
<1>4. CASE \/ LeaveConfirm(c) \/ RunBriefGate(c) \/ FindBrief(c)
           \/ \E q \in Project : \/ ReadDraft(c, q) \/ ReadBrief(c, q)
                                 \/ \E ready \in BOOLEAN : SaveDraft(c, q, ready)
  BY <1>2, <1>3, <1>4, OutsideLock DEF At, MyProject
<1>5. CASE PublishRevision(c) \/ (\E q \in Project : CreateDirectory(c, q))
  BY <1>2, <1>5, ClientAssumption DEF PublishRevision, CreateDirectory, Lock
<1>6. CASE CreateProject(c)
  BY <1>2, <1>6, OpenKinds DEF CreateProject, Inv, LockHeld, Locked, At
<1>7. ASSUME NEW k \in TmpKind, Open(c, k), lock = NoClient \/ (lock = c /\ At(c, "published"))
      PROVE  (\E x \in Client : lock = x /\ MyProject(x) = p /\ At(x, OpenPc[kind]))'
  <2>1. ASSUME NEW q \in Project, NEW j \in TmpKind, <<q, j>> \in tmp
        PROVE  FALSE
    <3>1. PICK x \in Client : lock = x /\ At(x, OpenPc[j])
      BY <1>2, <2>1
    <3>2. OpenPc[j] # "published"
      BY OpenKinds
    <3> QED
      BY <1>7, <3>1, <3>2, ClientAssumption DEF At
  <2>2. tmp = {}
    BY <2>1 DEF Inv, TypeOK
  <2>3. tmp' = {<<MyProject(c), k>>} /\ Goto(c, OpenPc[k]) /\ lock' = c
    BY <1>7, <2>2 DEF Open
  <2>4. OpenPc[k] \in Unlocked \cup Locked
    BY <1>3
  <2> QED
    BY <2>3, <2>4, GotoThread DEF Inv, At, MyProject
<1>8. CASE OpenDraft(c) \/ OpenPlan(c) \/ OpenBrief(c)
  BY <1>7, <1>8, OpenKinds DEF OpenDraft, OpenPlan, OpenBrief, Inv, LockHeld, At, Locked
<1>9. ASSUME NEW k \in TmpKind, At(c, OpenPc[k]), <<MyProject(c), k>> \notin tmp', tmp' \subseteq tmp
      PROVE  FALSE
  <2>1. lock = c
    BY <1>3, <1>9 DEF Inv, LockHeld, At
  <2>2. <<p, kind>> \in tmp
    BY <1>9
  <2>3. MyProject(c) = p /\ At(c, OpenPc[kind])
    BY <1>2, <2>1, <2>2
  <2>4. kind = k
    BY <1>9, <2>3, OpenKinds DEF At
  <2> QED
    BY <1>9, <2>3, <2>4
<1>10. CASE ReplaceDraft(c) \/ ReplaceBrief(c) \/ ReplacePlan(c)
  BY <1>9, <1>10, OpenKinds DEF ReplaceDraft, ReplaceBrief, ReplacePlan, Rename
<1>11. CASE WriteFails(c)
  <2>1. lock = c /\ tmp' \subseteq tmp
    BY <1>11 DEF WriteFails, Inv, LockHeld
  <2>2. MyProject(c) = p /\ At(c, OpenPc[kind])
    BY <1>2, <2>1
  <2> QED
    BY <1>9, <1>11, <2>1, <2>2 DEF WriteFails
<1> QED
  BY <1>1, <1>4, <1>5, <1>6, <1>8, <1>10, <1>11 DEF ClientStep

LEMMA DirectoryStep ==
  ASSUME Inv, StrayOnlyAfterCrash, Next, crashes' = 0
  PROVE  DirectoryIsCreated'
<1>1. PICK c \in Client : ClientStep(c)
  BY DEF Next, Crash, Inv, TypeOK
<1>2. DirectoryIsCreated
  BY <1>1 DEF StrayOnlyAfterCrash, ClientStep, CreateDirectory, CreateProject, SaveDraft,
     OpenDraft, ReplaceDraft, ReadDraft, LeaveConfirm, RunBriefGate, FindBrief,
     PublishRevision, OpenBrief, ReplaceBrief, ReadBrief, OpenPlan, ReplacePlan, WriteFails
<1>3. CASE \/ LeaveConfirm(c) \/ RunBriefGate(c) \/ FindBrief(c)
           \/ \E q \in Project : \/ ReadDraft(c, q) \/ ReadBrief(c, q)
                                 \/ \E ready \in BOOLEAN : SaveDraft(c, q, ready)
  <2>1. UNCHANGED <<directory, saved, lock>>
    BY <1>3 DEF LeaveConfirm, RunBriefGate, FindBrief, ReadDraft, ReadBrief, SaveDraft, disk
  <2>2. \A x \in Client : thread[x].pc \in Locked => thread'[x] = thread[x]
    BY <1>3, OutsideLock
  <2>3. "creating" \in Locked
    BY DEF Locked
  <2>4. \A q \in directory \ saved :
           \E x \in Client : lock = x /\ thread[x].project = q /\ thread[x].pc = "creating"
    BY <1>2 DEF DirectoryIsCreated, At, MyProject
  <2> QED
    BY <2>1, <2>2, <2>3, <2>4 DEF DirectoryIsCreated, At, MyProject
<1>4. ASSUME lock = NoClient \/ (lock = c /\ ~At(c, "creating")) PROVE directory \ saved = {}
  BY <1>2, <1>4, ClientAssumption DEF DirectoryIsCreated
<1>5. CASE \E q \in Project : CreateDirectory(c, q)
  <2>1. PICK q \in Project : CreateDirectory(c, q)
    BY <1>5
  <2>2. directory' \ saved' \subseteq {q} /\ lock' = c
    BY <1>4, <2>1 DEF CreateDirectory, Lock
  <2>3. thread'[c].pc = "creating" /\ thread'[c].project = q
    <3>1. Calls(c, q, "creating", NoDraft, NoRecord) /\ TypeOK
      BY <2>1 DEF CreateDirectory, Inv
    <3>2. "creating" \in Unlocked \cup Locked
      BY DEF Locked
    <3>3. thread'[c] = [pc |-> "creating", project |-> q, draft |-> NoDraft, record |-> NoRecord]
      BY <3>1, <3>2, CallsThread, EmptyRecords
    <3> QED
      BY <3>3
  <2>4. (lock = c /\ MyProject(c) = q /\ At(c, "creating"))'
    BY <2>2, <2>3 DEF At, MyProject
  <2>5. \A x \in directory' \ saved' : x = q
    BY <2>2
  <2> QED
    BY <2>4, <2>5 DEF DirectoryIsCreated
<1>6. CASE CreateProject(c)
  <2>1. lock = c
    BY <1>6 DEF CreateProject, Inv, LockHeld, Locked, At
  <2>2. directory \ saved \subseteq {MyProject(c)}
    BY <1>2, <2>1 DEF DirectoryIsCreated
  <2> QED
    BY <1>6, <2>2 DEF CreateProject, DirectoryIsCreated
<1>7. CASE WriteFails(c)
  <2>1. lock = c
    BY <1>7 DEF WriteFails, Inv, LockHeld, Locked
  <2>2. CASE At(c, "creating")
    <3>1. directory \ saved \subseteq {MyProject(c)}
      BY <1>2, <2>1 DEF DirectoryIsCreated
    <3> QED
      BY <1>7, <2>2, <3>1 DEF WriteFails, DirectoryIsCreated
  <2>3. CASE ~At(c, "creating")
    <3>1. UNCHANGED <<directory, saved>>
      BY <1>7, <2>3 DEF WriteFails
    <3> QED
      BY <1>4, <2>1, <2>3, <3>1 DEF DirectoryIsCreated
  <2> QED
    BY <2>2, <2>3
<1>8. CASE \/ OpenDraft(c) \/ OpenPlan(c) \/ OpenBrief(c) \/ PublishRevision(c)
           \/ ReplaceDraft(c) \/ ReplaceBrief(c) \/ ReplacePlan(c)
  <2>1. UNCHANGED <<directory, saved>>
    BY <1>8 DEF OpenDraft, OpenPlan, OpenBrief, PublishRevision, ReplaceDraft, ReplaceBrief,
       ReplacePlan, disk
  <2>2. lock = NoClient \/ (lock = c /\ ~At(c, "creating"))
    BY <1>8 DEF OpenDraft, OpenPlan, OpenBrief, PublishRevision, ReplaceDraft, ReplaceBrief,
       ReplacePlan, Lock, Inv, LockHeld, Locked, At
  <2> QED
    BY <1>4, <2>1, <2>2 DEF DirectoryIsCreated
<1> QED
  BY <1>1, <1>3, <1>5, <1>6, <1>7, <1>8 DEF ClientStep

LEMMA StrayStep ==
  ASSUME Inv, StrayOnlyAfterCrash, Next
  PROVE  StrayOnlyAfterCrash'
BY TmpStep, DirectoryStep DEF StrayOnlyAfterCrash

(* A .tmp file nobody is writing, which would block every later write of   *)
(* its file, and a directory without project.json, which would make list   *)
(* raise, are never left by a call that raised: only by a crash.           *)
THEOREM StrayFilesNeedACrash == Spec => []StrayOnlyAfterCrash
<1>1. Init => StrayOnlyAfterCrash
  BY DEF Init, StrayOnlyAfterCrash, TmpIsWritten, DirectoryIsCreated
<1>2. ASSUME Inv, StrayOnlyAfterCrash, UNCHANGED vars
      PROVE  StrayOnlyAfterCrash'
  BY <1>2 DEF vars, disk, StrayOnlyAfterCrash, TmpIsWritten, DirectoryIsCreated, At, MyProject
<1> QED
  BY <1>1, <1>2, StrayStep, AlwaysInv, PTL DEF Spec

(* The jobs of confirmations are numbered from one.                        *)
JobsPositive ==
  /\ \A p \in Project : 0 \notin runs[p]
  /\ \A c \in Client : thread[c].pc \in {"confirm", "published", "brief_open"} =>
                       thread[c].record.job # 0

(* A revision without a Brief is that of the confirmation inside the lock. *)
Confirms(c, p, job) ==
  /\ lock = c
  /\ thread[c].pc \in {"published", "brief_open"}
  /\ MyProject(c) = p
  /\ thread[c].record.job = job

Pending ==
  crashes = 0 /\ failures = 0 =>
    \A p \in Project : \A job \in runs[p] :
      job = brief[p].job \/ \E c \in Client : Confirms(c, p, job)

RevisionInv == Inv /\ StrayOnlyAfterCrash /\ JobsPositive /\ Pending

LEMMA JobsPositiveStep ==
  ASSUME Inv, JobsPositive, [Next]_vars
  PROVE  JobsPositive'
<1>1. CASE UNCHANGED vars
  BY <1>1 DEF vars, disk, JobsPositive
<1>2. CASE Crash
  BY <1>2, CrashThread DEF Crash, disk, JobsPositive
<1>3. ASSUME NEW c \in Client, ClientStep(c)
      PROVE  JobsPositive'
  <2>1. CASE RunBriefGate(c)
    <3>1. jobs + 1 # 0
      BY DEF Inv, TypeOK
    <3> QED
      BY <2>1, <3>1, GateThread DEF RunBriefGate, disk, Inv, JobsPositive
  <2>2. CASE PublishRevision(c)
    <3>1. /\ \A x \in Client \ {c} : thread'[x] = thread[x]
          /\ thread'[c].record = thread[c].record
      BY <2>2, GotoThread DEF PublishRevision, Inv, Locked
    <3>2. thread[c].record.job # 0
      BY <2>2 DEF PublishRevision, At, JobsPositive
    <3>3. \A p \in Project : 0 \notin runs'[p]
      BY <2>2, <3>2 DEF PublishRevision, JobsPositive, Inv, TypeOK
    <3> QED
      BY <3>1, <3>2, <3>3 DEF JobsPositive
  <2>3. ASSUME NEW pc \in Unlocked \cup Locked, Goto(c, pc), UNCHANGED runs,
               pc \notin {"confirm", "published", "brief_open"}
        PROVE  JobsPositive'
    BY <2>3, GotoThread DEF Inv, JobsPositive
  <2>4. CASE \/ CreateProject(c) \/ ReplaceDraft(c) \/ LeaveConfirm(c) \/ FindBrief(c)
             \/ ReplaceBrief(c) \/ ReplacePlan(c) \/ WriteFails(c)
    <3>1. Goto(c, "idle") /\ UNCHANGED runs
      BY <2>4 DEF CreateProject, ReplaceDraft, LeaveConfirm, FindBrief, ReplaceBrief,
         ReplacePlan, WriteFails, Return, disk
    <3> QED
      BY <2>3, <3>1 DEF Unlocked
  <2>5. CASE OpenDraft(c) \/ OpenPlan(c)
    <3>1. (Goto(c, "idle") \/ Goto(c, "draft_open") \/ Goto(c, "plan_open")) /\ UNCHANGED runs
      BY <2>5, OpenKinds DEF OpenDraft, OpenPlan, Open, Return, disk
    <3> QED
      BY <2>3, <3>1 DEF Unlocked, Locked
  <2>6. CASE OpenBrief(c)
    <3>1. (Goto(c, "idle") \/ Goto(c, "brief_open")) /\ UNCHANGED runs /\ At(c, "published")
      BY <2>6, OpenKinds DEF OpenBrief, Open, Return, disk
    <3>2. CASE Goto(c, "brief_open")
      BY <3>1, <3>2, GotoThread DEF Inv, JobsPositive, At, Locked
    <3> QED
      BY <2>3, <3>1, <3>2 DEF Unlocked
  <2>7. CASE \E p \in Project :
               \/ CreateDirectory(c, p) \/ ReadDraft(c, p) \/ ReadBrief(c, p)
               \/ \E ready \in BOOLEAN : SaveDraft(c, p, ready)
    <3>1. /\ \A x \in Client \ {c} : thread'[x] = thread[x]
          /\ thread'[c].pc \notin {"confirm", "published", "brief_open"}
          /\ UNCHANGED runs
      BY <2>7 DEF CreateDirectory, ReadDraft, ReadBrief, SaveDraft, Calls, disk, Inv, TypeOK
    <3> QED
      BY <3>1 DEF JobsPositive
  <2> QED
    BY <1>3, <2>1, <2>2, <2>4, <2>5, <2>6, <2>7 DEF ClientStep
<1> QED
  BY <1>1, <1>2, <1>3 DEF Next

LEMMA PendingStep ==
  ASSUME RevisionInv, Next
  PROVE  Pending'
<1> SUFFICES ASSUME crashes' = 0, failures' = 0, NEW p \in Project, NEW job \in runs'[p]
             PROVE  job = brief'[p].job \/ \E c \in Client : Confirms(c, p, job)'
  BY DEF Pending
<1>1. crashes \in Nat /\ failures \in Nat
  BY DEF RevisionInv, Inv, TypeOK
<1>2. ~Crash /\ \A c \in Client : ~WriteFails(c)
  BY <1>1 DEF Crash, WriteFails
<1>3. PICK c \in Client : ClientStep(c)
  BY <1>2 DEF Next
<1>4. crashes = 0 /\ failures = 0
  BY <1>2, <1>3 DEF ClientStep, CreateDirectory, CreateProject, SaveDraft, OpenDraft,
     ReplaceDraft, ReadDraft, LeaveConfirm, RunBriefGate, FindBrief, PublishRevision,
     OpenBrief, ReplaceBrief, ReadBrief, OpenPlan, ReplacePlan
<1>5. \A q \in Project : \A j \in runs[q] :
         j = brief[q].job \/ \E x \in Client : Confirms(x, q, j)
  BY <1>4 DEF RevisionInv, Pending
<1>6. \A x \in Client : thread[x] \in Thread
  BY DEF RevisionInv, Inv, TypeOK
<1>7. CASE \/ LeaveConfirm(c) \/ RunBriefGate(c) \/ FindBrief(c)
           \/ \E q \in Project : \/ ReadDraft(c, q) \/ ReadBrief(c, q)
                                 \/ \E ready \in BOOLEAN : SaveDraft(c, q, ready)
  <2>1. /\ \A x \in Client : thread[x].pc \in Locked => thread'[x] = thread[x]
        /\ UNCHANGED <<runs, brief, lock>>
    BY <1>7, OutsideLock DEF RevisionInv
  <2> QED
    BY <1>5, <2>1 DEF Confirms, MyProject, Locked
<1>8. CASE \/ CreateProject(c) \/ ReplaceDraft(c) \/ ReplacePlan(c)
            \/ OpenDraft(c) \/ OpenPlan(c) \/ \E q \in Project : CreateDirectory(c, q)
  <2>1. /\ lock = NoClient \/ lock = c
        /\ thread[c].pc \notin {"published", "brief_open"}
        /\ UNCHANGED <<runs, brief>>
    BY <1>8 DEF CreateProject, ReplaceDraft, ReplacePlan, OpenDraft, OpenPlan,
       CreateDirectory, Lock, Calls, disk, At, RevisionInv, Inv, LockHeld, Locked
  <2> QED
    BY <1>5, <2>1, ClientAssumption DEF Confirms
<1>9. CASE PublishRevision(c)
  <2>1. lock = NoClient /\ lock' = c /\ UNCHANGED brief
    BY <1>9 DEF PublishRevision, Lock
  <2>2. \A q \in Project : \A j \in runs[q] : j = brief[q].job
    BY <1>5, <2>1, ClientAssumption DEF Confirms
  <2>3. /\ thread'[c].pc = "published"
        /\ thread'[c].project = thread[c].project
        /\ thread'[c].record = thread[c].record
    BY <1>9, GotoThread DEF PublishRevision, RevisionInv, Inv, Locked
  <2>4. CASE p = MyProject(c)
    <3>1. runs'[p] = runs[p] \cup {thread[c].record.job}
      BY <1>9, <2>4 DEF PublishRevision, RevisionInv, Inv, TypeOK
    <3>2. brief[p].job = 0
      BY <1>9, <2>4 DEF PublishRevision, HasBrief, NoRecord
    <3>3. job = thread[c].record.job
      BY <2>2, <3>1, <3>2 DEF RevisionInv, JobsPositive
    <3> QED
      BY <2>1, <2>3, <2>4, <3>3 DEF Confirms, MyProject
  <2>5. CASE p # MyProject(c)
    BY <1>9, <2>1, <2>2, <2>5 DEF PublishRevision, RevisionInv, Inv, TypeOK
  <2> QED
    BY <2>4, <2>5
<1>10. CASE OpenBrief(c)
  <2>1. At(c, "published") /\ lock = c /\ UNCHANGED <<runs, brief>>
    BY <1>10 DEF OpenBrief, disk, RevisionInv, Inv, LockHeld, Locked, At
  <2>2. MyProject(c) \in Project
    BY <1>6 DEF Thread, MyProject
  <2>3. <<MyProject(c), "brief">> \notin tmp
    BY <1>4, <2>1, <2>2, OpenKinds DEF RevisionInv, StrayOnlyAfterCrash, TmpIsWritten, At
  <2>4. Goto(c, "brief_open") /\ lock' = c
    BY <1>10, <2>3, OpenKinds DEF OpenBrief, Open
  <2>5. /\ thread'[c].pc = "brief_open"
        /\ thread'[c].project = thread[c].project
        /\ thread'[c].record = thread[c].record
    BY <2>4, GotoThread DEF RevisionInv, Inv, Locked
  <2> QED
    BY <1>5, <2>1, <2>4, <2>5 DEF Confirms, MyProject
<1>11. CASE ReplaceBrief(c)
  <2>1. lock = c /\ UNCHANGED runs /\ ~HasBrief(MyProject(c))
    BY <1>11 DEF ReplaceBrief, At, RevisionInv, Inv, LockHeld, Publishing, Locked
  <2>2. brief'[p] = IF p = MyProject(c) THEN thread[c].record ELSE brief[p]
    BY <1>11 DEF ReplaceBrief, RevisionInv, Inv, TypeOK
  <2>3. p = MyProject(c) => job # brief[p].job
    BY <2>1 DEF HasBrief, NoRecord, RevisionInv, JobsPositive
  <2> QED
    BY <1>5, <2>1, <2>2, <2>3 DEF Confirms
<1> QED
  BY <1>2, <1>3, <1>7, <1>8, <1>9, <1>10, <1>11 DEF ClientStep

(* As long as no write failed and the process did not stop, one approval   *)
(* makes one R0 revision, however many confirmations of a project race.    *)
THEOREM OneRevisionPerBrief == Spec => []OneRevision
<1>1. Init => RevisionInv
  BY InitInv DEF Init, RevisionInv, StrayOnlyAfterCrash, TmpIsWritten, DirectoryIsCreated,
                 JobsPositive, Pending
<1>2. RevisionInv /\ [Next]_vars => RevisionInv'
  <2>1. ASSUME RevisionInv, Next
        PROVE  RevisionInv'
    BY <2>1, NextInv, StrayStep, JobsPositiveStep, PendingStep DEF RevisionInv
  <2>2. ASSUME RevisionInv, UNCHANGED vars
        PROVE  RevisionInv'
    BY <2>2, NextInv, JobsPositiveStep
       DEF RevisionInv, vars, disk, StrayOnlyAfterCrash, TmpIsWritten, DirectoryIsCreated,
           Pending, Confirms, At, MyProject
  <2> QED
    BY <2>1, <2>2
<1>3. RevisionInv => OneRevision
  BY DEF RevisionInv, Pending, OneRevision, Confirms
<1> QED
  BY <1>1, <1>2, <1>3, PTL DEF Spec
=============================================================================
