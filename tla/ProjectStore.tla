---------------------------- MODULE ProjectStore ----------------------------
(***************************************************************************)
(* The project files of api/project_store.py: one directory per project    *)
(* with project.json, draft.json, brief.json and design-plan.json, and the *)
(* R0 revision that a confirmation publishes under the runs root.          *)
(*                                                                         *)
(* One ProjectIntentStore serves the synchronous handlers of api/app.py,   *)
(* which run in parallel threads.  A call first reads and validates with   *)
(* no lock, then takes the store's lock to write.  Each file is written to *)
(* "<name>.tmp", opened with O_EXCL, and renamed.  A call that raises      *)
(* before it wrote anything is no step.                                    *)
(*                                                                         *)
(* A record is named by number: the updated_at of a draft and the uuid of  *)
(* a job make each one differ from all earlier ones, so the draft's number *)
(* also stands for its SHA-256.                                            *)
(***************************************************************************)
EXTENDS Naturals, FiniteSets

CONSTANTS
  Project,      \* project identifiers
  Client,       \* request threads of the API
  NoClient,     \* the lock is free
  MaxDrafts,    \* bound: drafts ever composed
  MaxJobs,      \* bound: Brief journeys ever run
  MaxCrashes,   \* bound: crashes of the API process
  MaxFailures   \* bound: writes that fail with an OSError

ASSUME ClientAssumption == NoClient \notin Client
ASSUME BoundsAssumption == {MaxDrafts, MaxJobs, MaxCrashes, MaxFailures} \subseteq Nat

VARIABLES
  directory,    \* projects whose directory exists
  saved,        \* projects whose project.json exists
  draft,        \* draft.json of each project
  brief,        \* brief.json of each project: its job and its draft
  plan,         \* design-plan.json: the job and the draft it is bound to
  runs,         \* jobs whose R0 revision is under the runs root
  tmp,          \* .tmp files on disk
  lock,         \* holder of ProjectIntentStore._lock
  thread,       \* the call each client is in
  drafts, jobs, \* identifiers handed out so far
  crashes, failures

disk == <<directory, saved, draft, brief, plan, runs>>
vars == <<disk, tmp, lock, thread, drafts, jobs, crashes, failures>>

Draft    == [id : Nat, ready : BOOLEAN]      \* ready_for_confirmation or needs_input
NoDraft  == [id |-> 0, ready |-> FALSE]
Record   == [job : Nat, draft : Nat]
NoRecord == [job |-> 0, draft |-> 0]
OpenPc   == [draft |-> "draft_open", brief |-> "brief_open", plan |-> "plan_open"]
TmpKind  == DOMAIN OpenPc

(* Where a call is: between its reads and the lock ("save", "checked",     *)
(* "confirm", "plan"), or inside the lock and about to rename or open.     *)
Unlocked == {"idle", "save", "checked", "confirm", "plan"}
Locked   == {"creating", "draft_open", "published", "brief_open", "plan_open"}
Thread   == [pc : Unlocked \cup Locked, project : Project, draft : Draft, record : Record]

TypeOK ==
  /\ directory \subseteq Project
  /\ saved \subseteq directory
  /\ draft \in [Project -> Draft]
  /\ brief \in [Project -> Record]
  /\ plan \in [Project -> Record]
  /\ runs \in [Project -> SUBSET Nat]
  /\ tmp \subseteq Project \X TmpKind
  /\ lock \in Client \cup {NoClient}
  /\ thread \in [Client -> Thread]
  /\ {drafts, jobs, crashes, failures} \subseteq Nat

Init ==
  /\ directory = {} /\ saved = {}
  /\ draft = [p \in Project |-> NoDraft]
  /\ brief = [p \in Project |-> NoRecord]
  /\ plan = [p \in Project |-> NoRecord]
  /\ runs = [p \in Project |-> {}]
  /\ tmp = {} /\ lock = NoClient
  /\ thread \in [Client -> {[pc |-> "idle", project |-> p, draft |-> NoDraft,
                             record |-> NoRecord] : p \in Project}]
  /\ drafts = 0 /\ jobs = 0 /\ crashes = 0 /\ failures = 0

-----------------------------------------------------------------------------
(* What a reader of the files gets.  A Brief is written once, so reading   *)
(* it and then the draft, as _read_brief_file does, is reading both when   *)
(* the draft is read, or finding no Brief when brief.json is looked up.    *)
HasBrief(p)        == brief[p] # NoRecord
BriefConsistent(p) == brief[p].draft = draft[p].id   \* else _read_brief_file raises
PlanConsistent(p)  == plan[p] = brief[p]             \* else get_design_plan raises
Readable(p)        == p \in saved                    \* else _read raises

At(c, pc)    == thread[c].pc = pc
MyProject(c) == thread[c].project
Goto(c, pc)  == thread' = [thread EXCEPT ![c].pc = pc]
Lock(c)      == lock = NoClient /\ lock' = c
Return(c)    == Goto(c, "idle") /\ lock' = NoClient
Calls(c, p, pc, d, r) ==
  /\ At(c, "idle")
  /\ thread' = [thread EXCEPT ![c] = [pc |-> pc, project |-> p, draft |-> d, record |-> r]]

(* create: a new directory, then project.json, all inside the lock.        *)
CreateDirectoryExistOk(c, p) ==       \* mutant: mkdir(exist_ok=True)
  /\ Lock(c)
  /\ Calls(c, p, "creating", NoDraft, NoRecord)
  /\ directory' = directory \cup {p}
  /\ UNCHANGED <<saved, draft, brief, plan, runs, tmp, drafts, jobs, crashes, failures>>

CreateDirectory(c, p) ==
  /\ p \notin directory
  /\ Lock(c)
  /\ Calls(c, p, "creating", NoDraft, NoRecord)
  /\ directory' = directory \cup {p}
  /\ UNCHANGED <<saved, draft, brief, plan, runs, tmp, drafts, jobs, crashes, failures>>

CreateProject(c) ==
  /\ At(c, "creating")
  /\ saved' = saved \cup {MyProject(c)}
  /\ Return(c)
  /\ UNCHANGED <<directory, draft, brief, plan, runs, tmp, drafts, jobs, crashes, failures>>

(* save_draft: refused once a Brief exists, checked before the lock.       *)
SaveDraft(c, p, ready) ==
  /\ Readable(p)
  /\ ~HasBrief(p)
  /\ drafts < MaxDrafts
  /\ drafts' = drafts + 1
  /\ Calls(c, p, "save", [id |-> drafts + 1, ready |-> ready], NoRecord)
  /\ UNCHANGED <<disk, tmp, lock, jobs, crashes, failures>>

(* O_EXCL: a .tmp file already there raises FileExistsError.               *)
Open(c, kind) ==
  IF <<MyProject(c), kind>> \in tmp
    THEN Return(c) /\ UNCHANGED tmp
    ELSE /\ tmp' = tmp \cup {<<MyProject(c), kind>>}
         /\ Goto(c, OpenPc[kind])
         /\ lock' = c

OpenDraft(c) ==
  /\ At(c, "save") /\ lock = NoClient
  /\ Open(c, "draft")
  /\ UNCHANGED <<disk, drafts, jobs, crashes, failures>>

Rename(c, kind) == tmp' = tmp \ {<<MyProject(c), kind>>}

ReplaceDraft(c) ==
  /\ At(c, "draft_open")
  /\ draft' = [draft EXCEPT ![MyProject(c)] = thread[c].draft]
  /\ Rename(c, "draft")
  /\ Return(c)
  /\ UNCHANGED <<directory, saved, brief, plan, runs, drafts, jobs, crashes, failures>>

(* confirm_brief: read a ready draft; look for a Brief; run the Brief gate *)
(* over the draft that was read; then, inside the lock, look again,        *)
(* publish the revision and write brief.json.                              *)
ReadDraft(c, p) ==
  /\ Readable(p)
  /\ draft[p].ready
  /\ Calls(c, p, "checked", draft[p], NoRecord)
  /\ UNCHANGED <<disk, tmp, lock, drafts, jobs, crashes, failures>>

(* The Brief that is there is returned, or found inconsistent and raised;  *)
(* the gate may refuse the draft.                                          *)
LeaveConfirm(c) ==
  /\ At(c, "checked")
  /\ Goto(c, "idle")
  /\ UNCHANGED <<disk, tmp, lock, drafts, jobs, crashes, failures>>

RunBriefGate(c) ==
  /\ At(c, "checked")
  /\ ~HasBrief(MyProject(c))
  /\ jobs < MaxJobs
  /\ jobs' = jobs + 1
  /\ thread' = [thread EXCEPT ![c].pc = "confirm",
                  ![c].record = [job |-> jobs + 1, draft |-> thread[c].draft.id]]
  /\ UNCHANGED <<disk, tmp, lock, drafts, crashes, failures>>

FindBrief(c) ==
  /\ At(c, "confirm") /\ lock = NoClient
  /\ HasBrief(MyProject(c))
  /\ Goto(c, "idle")
  /\ UNCHANGED <<disk, tmp, lock, drafts, jobs, crashes, failures>>

PublishUnchecked(c) ==                \* mutant: no second look inside the lock
  /\ At(c, "confirm")
  /\ Lock(c)
  /\ runs' = [runs EXCEPT ![MyProject(c)] = @ \cup {thread[c].record.job}]
  /\ Goto(c, "published")
  /\ UNCHANGED <<directory, saved, draft, brief, plan, tmp, drafts, jobs, crashes, failures>>

PublishUnlocked(c) ==                 \* mutant: the lock covers only brief.json
  /\ At(c, "confirm")
  /\ ~HasBrief(MyProject(c))
  /\ runs' = [runs EXCEPT ![MyProject(c)] = @ \cup {thread[c].record.job}]
  /\ Goto(c, "published")
  /\ UNCHANGED <<directory, saved, draft, brief, plan, tmp, lock, drafts, jobs, crashes, failures>>

PublishRevision(c) ==
  /\ At(c, "confirm")
  /\ ~HasBrief(MyProject(c))
  /\ Lock(c)
  /\ runs' = [runs EXCEPT ![MyProject(c)] = @ \cup {thread[c].record.job}]
  /\ Goto(c, "published")
  /\ UNCHANGED <<directory, saved, draft, brief, plan, tmp, drafts, jobs, crashes, failures>>

OpenBriefFirst(c) ==                  \* mutant: brief.json before the revision
  /\ At(c, "confirm") /\ lock = NoClient
  /\ Open(c, "brief")
  /\ UNCHANGED <<disk, drafts, jobs, crashes, failures>>

OpenBrief(c) ==
  /\ At(c, "published")
  /\ Open(c, "brief")
  /\ UNCHANGED <<disk, drafts, jobs, crashes, failures>>

ReplaceBrief(c) ==
  /\ At(c, "brief_open")
  /\ brief' = [brief EXCEPT ![MyProject(c)] = thread[c].record]
  /\ Rename(c, "brief")
  /\ Return(c)
  /\ UNCHANGED <<directory, saved, draft, plan, runs, drafts, jobs, crashes, failures>>

(* save_design_plan: bound to the Brief that was read before the lock.     *)
ReadBriefUnvalidated(c, p) ==         \* mutant: checksum taken from draft.json
  /\ Readable(p)
  /\ HasBrief(p)
  /\ Calls(c, p, "plan", NoDraft, [job |-> brief[p].job, draft |-> draft[p].id])
  /\ UNCHANGED <<disk, tmp, lock, drafts, jobs, crashes, failures>>

ReadBrief(c, p) ==
  /\ Readable(p)
  /\ HasBrief(p) /\ BriefConsistent(p)
  /\ Calls(c, p, "plan", NoDraft, brief[p])
  /\ UNCHANGED <<disk, tmp, lock, drafts, jobs, crashes, failures>>

OpenPlan(c) ==
  /\ At(c, "plan") /\ lock = NoClient
  /\ Open(c, "plan")
  /\ UNCHANGED <<disk, drafts, jobs, crashes, failures>>

ReplacePlan(c) ==
  /\ At(c, "plan_open")
  /\ plan' = [plan EXCEPT ![MyProject(c)] = thread[c].record]
  /\ Rename(c, "plan")
  /\ Return(c)
  /\ UNCHANGED <<directory, saved, draft, brief, runs, drafts, jobs, crashes, failures>>

WriteFailsKeepingTmp(c) ==            \* mutant: no finally, no unlink
  /\ thread[c].pc \in Locked
  /\ failures < MaxFailures
  /\ failures' = failures + 1
  /\ directory' = IF At(c, "creating") THEN directory \ {MyProject(c)} ELSE directory
  /\ Return(c)
  /\ UNCHANGED <<saved, draft, brief, plan, runs, tmp, drafts, jobs, crashes>>

(* A write inside the lock raises: create removes its directory, the       *)
(* others unlink their .tmp file; a revision already published stays.      *)
WriteFails(c) ==
  /\ thread[c].pc \in Locked
  /\ failures < MaxFailures
  /\ failures' = failures + 1
  /\ tmp' = tmp \ {<<MyProject(c), kind>> : kind \in {k \in TmpKind : At(c, OpenPc[k])}}
  /\ directory' = IF At(c, "creating") THEN directory \ {MyProject(c)} ELSE directory
  /\ Return(c)
  /\ UNCHANGED <<saved, draft, brief, plan, runs, drafts, jobs, crashes>>

(* The process ends between two writes: every call is gone and the lock is *)
(* free again; what is on disk, .tmp files included, stays.                *)
Crash ==
  /\ crashes < MaxCrashes
  /\ crashes' = crashes + 1
  /\ lock' = NoClient
  /\ thread' = [c \in Client |-> [thread[c] EXCEPT !.pc = "idle"]]
  /\ UNCHANGED <<disk, tmp, drafts, jobs, failures>>

ClientStep(c) ==
  \/ CreateProject(c)
  \/ OpenDraft(c) \/ ReplaceDraft(c)
  \/ LeaveConfirm(c) \/ RunBriefGate(c) \/ FindBrief(c) \/ PublishRevision(c)
  \/ OpenBrief(c) \/ ReplaceBrief(c)
  \/ OpenPlan(c) \/ ReplacePlan(c)
  \/ WriteFails(c)
  \/ \E p \in Project :
       \/ CreateDirectory(c, p) \/ ReadDraft(c, p) \/ ReadBrief(c, p)
       \/ \E ready \in BOOLEAN : SaveDraft(c, p, ready)

Next == Crash \/ \E c \in Client : ClientStep(c)
Spec == Init /\ [][Next]_vars

-----------------------------------------------------------------------------
(* The R0 revision of a Brief is under the runs root before brief.json     *)
(* names it, whatever confirmations race and wherever the process stops:   *)
(* every consumer of a Brief (confirm_brief returns it, the CAD routes read *)
(* it) finds its Journey.                                                  *)
BriefPublished == \A p \in Project : HasBrief(p) => brief[p].job \in runs[p]

(* A Brief is never replaced: of two confirmations that both saw none, the *)
(* second finds the first's under the lock (confirm_brief, lines 345-348). *)
BriefKept == [][\A p \in Project : HasBrief(p) => brief'[p] = brief[p]]_vars

(* A design plan is bound to the Brief of its project although it was      *)
(* bound before the lock was taken, so get_design_plan never finds its     *)
(* "claim boundary" inconsistent (lines 431-446).                          *)
PlanBound == \A p \in Project : plan[p] # NoRecord => PlanConsistent(p)

(* As long as no write failed and the process did not stop, a project has  *)
(* at most one R0 revision, however often it was confirmed: a revision     *)
(* without a Brief is one that is being confirmed right now.               *)
OneRevision ==
  crashes = 0 /\ failures = 0 =>
    \A p \in Project : \A job \in runs[p] :
      \/ job = brief[p].job
      \/ \E c \in Client : lock = c /\ MyProject(c) = p /\ thread[c].record.job = job

TmpIsWritten ==
  \A p \in Project, kind \in TmpKind :
    <<p, kind>> \in tmp => \E c \in Client : /\ lock = c /\ MyProject(c) = p
                                             /\ At(c, OpenPc[kind])
DirectoryIsCreated ==
  \A p \in directory \ saved :
    \E c \in Client : lock = c /\ MyProject(c) = p /\ At(c, "creating")

(* A .tmp file that nobody is writing blocks every later write of that     *)
(* file, for it is opened with O_EXCL; a directory without project.json    *)
(* makes list raise for every project.  Only a crash leaves one behind: a  *)
(* write that raises removes its own (the finally blocks, and create's     *)
(* except block).                                                          *)
StrayOnlyAfterCrash == crashes = 0 => TmpIsWritten /\ DirectoryIsCreated

(* docs/DECISIONS.md:546: "The approved draft becomes immutable and the    *)
(* project Brief record binds to its canonical SHA-256."  Where this fails *)
(* every later read of the Brief raises (_read_brief_file, lines 489-491). *)
ApprovedDraftImmutable == \A p \in Project : HasBrief(p) => BriefConsistent(p)

=============================================================================
