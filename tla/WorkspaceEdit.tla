--------------------------- MODULE WorkspaceEdit ---------------------------
(***************************************************************************)
(* The transaction that applies an Agent's edit to the files of a Project  *)
(* (workspace_edit_apply.rs): new contents are staged beside their         *)
(* targets, every path is looked at again, the operations are committed    *)
(* one by one with an undo journal of hard links, the result is verified,  *)
(* and any failure rolls the journal back, last entry first.               *)
(*                                                                         *)
(* Each call of the file system is a step of its own.  Between two steps   *)
(* another program may save, replace, create or delete a file of the       *)
(* Project; any call may fail; and the process may stop.  Nothing resumes  *)
(* a stopped transaction: what is left is what the user finds.             *)
(*                                                                         *)
(* The paths of an edit are distinct (WorkspaceEdit::define), so a path is *)
(* named after the operation it belongs to.  A hash stands for a content   *)
(* and a content for the inode it was first written to.  File modes,       *)
(* symbolic links and limits are left out, and so is the order in which    *)
(* directories reach the disk: a stop loses memory, not the page cache.    *)
(***************************************************************************)
EXTENDS Naturals, Sequences, SequencesExt

CONSTANTS
  N,         \* the operations of the edit
  None,      \* no file has this name
  MaxSaves,  \* bound: what another program does
  MaxFaults  \* bound: calls that fail by themselves

Ops == 1..N
Kinds == {"create", "update", "delete", "rename"}
Places == {"source", "target", "stage", "backup"}
Names == Places \X Ops

(* The content a file had when the edit was reviewed, the content the edit *)
(* proposes, and what another program writes.                              *)
Old(k) == <<"old", k>>
New(k) == <<"new", k>>
Other(n) == <<"other", n>>
Contents == ({"old", "new"} \X Ops) \cup ({"other"} \X (1..MaxSaves))

ASSUME EditAssumption ==
  /\ N \in Nat \ {0} /\ MaxSaves \in Nat /\ MaxFaults \in Nat
  /\ None \notin Contents

VARIABLES
  kinds,     \* the edit: what each operation does
  dir,       \* the inode a name is linked to
  content,   \* what is in an inode
  phase,     \* where apply_with_fault is
  op,        \* the operation it is at
  todo,      \* the steps left of this operation
  journal,   \* UndoEntry of each committed operation
  failure,   \* the stage that failed
  complete,  \* no entry failed to roll back
  reported,  \* recovery artifacts and cleanup warnings
  stopped,   \* the process has stopped
  saves,     \* bound and history: what another program did so far
  touched,   \* history: operations whose file another program changed
  met,       \* history: operations at whose path it created a file
  noticed,   \* history: contents the transaction has looked at
  faults     \* bound: calls that failed

transaction == <<phase, op, todo, journal, failure, complete, reported>>
history == <<saves, touched, met>>
vars == <<kinds, dir, content, transaction, stopped, history, noticed, faults>>

(* An operation reads From and writes To; only a renaming has two paths.   *)
From(k) == <<IF kinds[k] = "rename" THEN "source" ELSE "target", k>>
To(k) == <<"target", k>>
Stage(k) == <<"stage", k>>
Backup(k) == <<"backup", k>>
Paths(k) == {From(k), To(k)}

Content(name) == IF dir[name] = None THEN None ELSE content[dir[name]]
Linked(c) == \E name \in Names : Content(name) = c

Init ==
  /\ kinds \in [Ops -> Kinds]
  /\ dir = [name \in Names |->
              IF kinds[name[2]] # "create" /\ name = From(name[2]) THEN Old(name[2]) ELSE None]
  /\ content = [c \in Contents |-> c]
  /\ phase = "prepare" /\ op = 1 /\ todo = <<>>
  /\ journal = <<>>
  /\ failure = "none" /\ complete = TRUE /\ reported = {}
  /\ stopped = FALSE
  /\ saves = 0 /\ touched = {} /\ met = {} /\ noticed = {}
  /\ faults = 0

-----------------------------------------------------------------------------
(* The file system.                                                        *)

Link(from, to) == dir' = [dir EXCEPT ![to] = dir[from]]
CanLink(from, to) == dir[from] # None /\ dir[to] = None
Unlink(name) == dir' = [dir EXCEPT ![name] = None]
Exists(name) == dir[name] # None

(* A call fails although nothing is in its way.                            *)
Fault == faults < MaxFaults /\ faults' = faults + 1

(* The transaction reads these names.                                      *)
Looks(names) == noticed' = noticed \cup {Content(name) : name \in names}

-----------------------------------------------------------------------------
(* The course of the transaction.                                          *)

(* Faulty variant: the file is removed before it has a backup.             *)
StepsOfHasty(kind) ==
  CASE kind = "create" -> <<"absent", "install", "unstage">>
    [] kind = "update" -> <<"verify", "remove", "install", "unstage">>
    [] kind = "delete" -> <<"verify", "backup", "remove">>
    [] kind = "rename" -> <<"verify", "absent", "install", "remove">>

(* commit_operation, in the order of its calls.                            *)
StepsOf(kind) ==
  CASE kind = "create" -> <<"absent", "install", "unstage">>
    [] kind = "update" -> <<"verify", "backup", "remove", "install", "unstage">>
    [] kind = "delete" -> <<"verify", "backup", "remove">>
    [] kind = "rename" -> <<"verify", "absent", "install", "remove">>

Enter(p) ==
  /\ phase' = p
  /\ op' = 1
  /\ todo' = CASE p = "commit" -> StepsOf(kinds[1])
               [] p = "rollback" -> <<"compare">>
               [] OTHER -> <<>>

(* The phase p has dealt with its operation; q comes after the last one.   *)
NextOp(p, q) ==
  IF op = N THEN Enter(q)
  ELSE /\ phase' = p
       /\ op' = op + 1
       /\ todo' = IF p = "commit" THEN StepsOf(kinds[op + 1]) ELSE <<>>

(* The transaction fails: what was staged is removed, and what was         *)
(* committed is rolled back first (rollback_failure).                      *)
Refuse(stage) ==
  /\ failure' = stage
  /\ reported' = {}
  /\ Enter(CASE stage = "prepare" -> "done"
             [] stage \in {"stage", "revalidate"} -> "tidy"
             [] OTHER -> IF journal = <<>> THEN "tidy" ELSE "rollback")
  /\ UNCHANGED <<journal, complete>>

Proceed(p, q) == NextOp(p, q) /\ UNCHANGED <<journal, failure, complete, reported>>

(* What an operation expects: its file as it was reviewed, and no file     *)
(* where it makes one.                                                     *)
AsReviewed(k) ==
  /\ kinds[k] # "create" => Content(From(k)) = Old(k)
  /\ kinds[k] \in {"create", "rename"} => ~Exists(To(k))

(* prepare_operations.                                                     *)
Prepare ==
  /\ phase = "prepare"
  /\ Looks(Paths(op))
  /\ \/ AsReviewed(op) /\ Proceed("prepare", "stage") /\ UNCHANGED faults
     \/ ~AsReviewed(op) /\ Refuse("prepare") /\ UNCHANGED faults
     \/ Fault /\ Refuse("prepare")
  /\ UNCHANGED <<dir, content>>

(* stage_new_content.  A file whose writing fails is there all the same.   *)
StageContent ==
  /\ phase = "stage"
  /\ LET staged == kinds[op] \in {"create", "update"}
         Staged == dir' = [dir EXCEPT ![Stage(op)] = New(op)]
     IN  \/ staged /\ Staged /\ Proceed("stage", "revalidate") /\ UNCHANGED faults
         \/ ~staged /\ Proceed("stage", "revalidate") /\ UNCHANGED <<dir, faults>>
         \/ staged /\ (Staged \/ UNCHANGED dir) /\ Fault /\ Refuse("stage")
  /\ UNCHANGED <<content, noticed>>

(* revalidate_prepared.                                                    *)
Revalidate ==
  /\ phase = "revalidate"
  /\ Looks(Paths(op))
  /\ \/ AsReviewed(op) /\ Proceed("revalidate", "commit") /\ UNCHANGED faults
     \/ ~AsReviewed(op) /\ Refuse("revalidate") /\ UNCHANGED faults
     \/ Fault /\ Refuse("revalidate")
  /\ UNCHANGED <<dir, content>>

-----------------------------------------------------------------------------
(* commit_operation, one call at a time.                                   *)

Doing(step) == phase = "commit" /\ Head(todo) = step
AfterStep ==
  IF Len(todo) = 1 THEN NextOp("commit", "tidy")
  ELSE todo' = Tail(todo) /\ UNCHANGED <<phase, op>>
Continue == AfterStep /\ UNCHANGED <<journal, failure, complete, reported>>
ContinueWith(entries) ==
  journal' = entries /\ AfterStep /\ UNCHANGED <<failure, complete, reported>>
Undo(k, installed) == [op |-> k, installed |-> installed]

(* verify_existing_hash and ensure_absent.                                 *)
Check ==
  /\ \/ /\ Doing("verify") /\ Looks({From(op)})
        /\ IF Content(From(op)) = Old(op) THEN Continue ELSE Refuse("commit")
     \/ /\ Doing("absent") /\ Looks({To(op)})
        /\ IF ~Exists(To(op)) THEN Continue ELSE Refuse("commit")
  /\ UNCHANGED <<dir, content, faults>>

(* create_backup_link: a second link to whatever is at the path now.       *)
MakeBackup ==
  /\ Doing("backup")
  /\ IF CanLink(From(op), Backup(op))
     THEN Link(From(op), Backup(op)) /\ ContinueWith(Append(journal, Undo(op, FALSE)))
     ELSE Refuse("commit") /\ UNCHANGED dir
  /\ UNCHANGED <<content, noticed, faults>>

RemoveFile ==
  /\ Doing("remove")
  /\ IF Exists(From(op)) THEN Unlink(From(op)) /\ Continue
     ELSE Refuse("commit") /\ UNCHANGED dir
  /\ UNCHANGED <<content, noticed, faults>>

(* Faulty variant: a renaming has no entry.                                *)
InstalledContents(k) ==
  CASE kinds[k] = "update" -> Append(Front(journal), Undo(k, TRUE))
    [] kinds[k] = "create" -> Append(journal, Undo(k, TRUE))
    [] kinds[k] = "rename" -> journal

(* The content gets its name, unless there is a file of that name.         *)
Installed(k) ==
  IF kinds[k] = "update" THEN Append(Front(journal), Undo(k, TRUE))
  ELSE Append(journal, Undo(k, TRUE))

Install ==
  /\ Doing("install")
  /\ LET source == IF kinds[op] = "rename" THEN From(op) ELSE Stage(op)
     IN  IF CanLink(source, To(op))
         THEN Link(source, To(op)) /\ ContinueWith(Installed(op))
         ELSE Refuse("commit") /\ UNCHANGED dir
  /\ UNCHANGED <<content, noticed, faults>>

(* The stage has served; if it stays it is removed with the others.        *)
Unstage ==
  /\ Doing("unstage")
  /\ \/ Unlink(Stage(op)) /\ UNCHANGED faults
     \/ Fault /\ UNCHANGED dir
  /\ Continue
  /\ UNCHANGED <<content, noticed>>

(* A call fails, or the root is no longer where it was.                    *)
StepFails ==
  /\ phase = "commit" /\ Head(todo) # "unstage"
  /\ Fault
  /\ Refuse("commit")
  /\ UNCHANGED <<dir, content, noticed>>

-----------------------------------------------------------------------------
(* After the commit, or after the rollback.                                *)

Named(name) == reported \cup {name}

(* cleanup_stages.                                                         *)
Tidy ==
  /\ phase = "tidy"
  /\ \/ Unlink(Stage(op)) /\ UNCHANGED <<reported, faults>>
     \/ Exists(Stage(op)) /\ Fault /\ reported' = Named(Stage(op)) /\ UNCHANGED dir
  /\ NextOp("tidy", IF failure \in {"stage", "revalidate"} THEN "done" ELSE "sync")
  /\ UNCHANGED <<content, journal, failure, complete, noticed>>

(* sync_transaction_directories.                                           *)
Sync ==
  /\ phase = "sync"
  /\ \/ /\ Enter(IF failure = "none" THEN "verify" ELSE "done")
        /\ UNCHANGED <<journal, failure, complete, reported, faults>>
     \/ /\ Fault
        /\ IF failure = "none" THEN Refuse("sync")
           ELSE complete' = FALSE /\ Enter("done") /\ UNCHANGED <<journal, failure, reported>>
  /\ UNCHANGED <<dir, content, noticed>>

(* The edit has been made as far as operation k goes.                      *)
AsProposed(k) ==
  /\ kinds[k] \in {"create", "update"} => Content(To(k)) = New(k)
  /\ kinds[k] = "delete" => ~Exists(To(k))
  /\ kinds[k] = "rename" => ~Exists(From(k)) /\ Content(To(k)) = Old(k)

(* verify_final_states.                                                    *)
Verify ==
  /\ phase = "verify"
  /\ Looks(Paths(op))
  /\ \/ AsProposed(op) /\ Proceed("verify", "backups") /\ UNCHANGED faults
     \/ ~AsProposed(op) /\ Refuse("verify") /\ UNCHANGED faults
     \/ Fault /\ Refuse("verify")
  /\ UNCHANGED <<dir, content>>

(* cleanup_backups, which does not look at what it removes.                *)
DropBackup ==
  /\ phase = "backups"
  /\ \/ Unlink(Backup(op)) /\ UNCHANGED <<reported, faults>>
     \/ Exists(Backup(op)) /\ Fault /\ reported' = Named(Backup(op)) /\ UNCHANGED dir
  /\ NextOp("backups", "done")
  /\ UNCHANGED <<content, journal, failure, complete, noticed>>

-----------------------------------------------------------------------------
(* rollback.                                                               *)

Entry == Last(journal)
(* The name that goes when the entry has been undone.                      *)
Spare(k) == IF kinds[k] \in {"update", "delete"} THEN Backup(k) ELSE To(k)

(* Faulty variant: what was installed is removed without a comparison.     *)
VerdictByEntry(e) ==
  LET k == e.op
      target == Content(To(k))
      source == Content(From(k))
  IN  CASE kinds[k] = "create" -> IF target = None THEN <<"done">> ELSE <<"drop">>
        [] kinds[k] \in {"update", "delete"} ->
             IF Content(Backup(k)) # Old(k) THEN <<"refused">>
             ELSE CASE target = None -> <<"restore", "drop">>
                    [] target = Old(k) -> <<"drop">>
                    [] OTHER -> <<"remove", "restore", "drop">>
        [] kinds[k] = "rename" ->
             CASE source = Old(k) /\ target = Old(k) -> <<"drop">>
               [] source = Old(k) /\ target = None -> <<"done">>
               [] source = None /\ target = Old(k) -> <<"restore", "drop">>
               [] OTHER -> <<"refused">>

(* What rollback_created, rollback_backup and rollback_rename do about     *)
(* what they find: the calls that are left, none, or nothing because the   *)
(* files are no longer what the entry says ("refused").                    *)
Verdict(e) ==
  LET k == e.op
      target == Content(To(k))
      source == Content(From(k))
  IN  CASE kinds[k] = "create" ->
             CASE target = None -> <<"done">>
               [] target = New(k) -> <<"drop">>
               [] OTHER -> <<"refused">>
        [] kinds[k] \in {"update", "delete"} ->
             IF Content(Backup(k)) # Old(k) THEN <<"refused">>
             ELSE CASE target = None -> <<"restore", "drop">>
                    [] target = Old(k) -> <<"drop">>
                    [] e.installed /\ target = New(k) -> <<"remove", "restore", "drop">>
                    [] OTHER -> <<"refused">>
        [] kinds[k] = "rename" ->
             CASE source = Old(k) /\ target = Old(k) -> <<"drop">>
               [] source = Old(k) /\ target = None -> <<"done">>
               [] source = None /\ target = Old(k) -> <<"restore", "drop">>
               [] OTHER -> <<"refused">>

(* Faulty variant: an entry that could not be undone goes unnoticed.       *)
EntryEndsWell(undone) ==
  /\ journal' = Front(journal)
  /\ complete' = complete /\ reported' = reported
  /\ Enter(IF Len(journal) = 1 THEN "tidy" ELSE "rollback")
  /\ UNCHANGED failure

(* An entry is done with; a backup that is still there is named.           *)
EntryEnds(undone) ==
  /\ journal' = Front(journal)
  /\ complete' = (complete /\ undone)
  /\ reported' = LET backup == Backup(Entry.op)
                 IN  IF kinds[Entry.op] \in {"update", "delete"} /\ dir'[backup] # None
                     THEN Named(backup) ELSE reported
  /\ Enter(IF Len(journal) = 1 THEN "tidy" ELSE "rollback")
  /\ UNCHANGED failure

Undoing(step) == phase = "rollback" /\ Head(todo) = step

Compare ==
  /\ Undoing("compare")
  /\ UNCHANGED <<dir, content>>
  /\ LET k == Entry.op
         verdict == Verdict(Entry)
     IN  /\ Looks(Paths(k) \cup {Backup(k)})
         /\ \/ /\ Head(verdict) \in {"done", "refused"}
               /\ EntryEnds(Head(verdict) = "done")
               /\ UNCHANGED faults
            \/ /\ Head(verdict) \notin {"done", "refused"}
               /\ todo' = verdict
               /\ UNCHANGED <<phase, op, journal, failure, complete, reported, faults>>
            \/ Fault /\ EntryEnds(FALSE)

(* The call an entry is at, when nothing is in its way.                    *)
UndoStep(k) ==
  \/ Undoing("remove") /\ Exists(From(k)) /\ Unlink(From(k))
  \/ Undoing("restore") /\ CanLink(Spare(k), From(k)) /\ Link(Spare(k), From(k))
  \/ Undoing("drop") /\ Exists(Spare(k)) /\ Unlink(Spare(k))
CanUndo(k) ==
  \/ Undoing("remove") /\ Exists(From(k))
  \/ Undoing("restore") /\ CanLink(Spare(k), From(k))
  \/ Undoing("drop") /\ Exists(Spare(k))

RollBack ==
  /\ phase = "rollback" /\ Head(todo) # "compare"
  /\ \/ /\ UndoStep(Entry.op)
        /\ IF Len(todo) = 1 THEN EntryEnds(TRUE)
           ELSE todo' = Tail(todo) /\ UNCHANGED <<phase, op, journal, failure, complete, reported>>
        /\ UNCHANGED faults
     \/ ~CanUndo(Entry.op) /\ UNCHANGED <<dir, faults>> /\ EntryEnds(FALSE)
     \/ Fault /\ UNCHANGED dir /\ EntryEnds(FALSE)
  /\ UNCHANGED <<content, noticed>>

-----------------------------------------------------------------------------
(* Another program, and the end of the process.                            *)

Saves ==
  /\ saves < MaxSaves /\ phase # "done" /\ ~stopped
  /\ saves' = saves + 1
  /\ UNCHANGED <<kinds, transaction, stopped, noticed, faults>>
Touches(name) ==
  IF Exists(name) THEN touched' = touched \cup {name[2]} /\ UNCHANGED met
  ELSE met' = met \cup {name[2]} /\ UNCHANGED touched

(* An editor writes into the file, which all its links show.               *)
SaveInPlace ==
  \E k \in Ops : \E name \in Paths(k) :
    /\ Saves
    /\ Exists(name) /\ Touches(name)
    /\ content' = [content EXCEPT ![dir[name]] = Other(saves')]
    /\ UNCHANGED dir

(* Or writes a new file and gives it the name, as a version control system *)
(* does that checks a file out; the name may be new.                       *)
SaveAnew ==
  \E k \in Ops : \E name \in Paths(k) :
    /\ Saves
    /\ Touches(name)
    /\ dir' = [dir EXCEPT ![name] = Other(saves')]
    /\ UNCHANGED content

DeleteFile ==
  \E k \in Ops : \E name \in Paths(k) :
    /\ Saves
    /\ Exists(name) /\ Touches(name)
    /\ Unlink(name)
    /\ UNCHANGED content

Stop ==
  /\ ~stopped /\ phase # "done"
  /\ stopped' = TRUE
  /\ UNCHANGED <<kinds, dir, content, transaction, history, noticed, faults>>

Transaction ==
  /\ ~stopped
  /\ \/ Prepare \/ StageContent \/ Revalidate
     \/ Check \/ MakeBackup \/ RemoveFile \/ Install \/ Unstage \/ StepFails
     \/ Tidy \/ Sync \/ Verify \/ DropBackup
     \/ Compare \/ RollBack
  /\ UNCHANGED <<kinds, stopped, history>>

OtherProgram == SaveInPlace \/ SaveAnew \/ DeleteFile

Next == Transaction \/ OtherProgram \/ Stop

Spec == Init /\ [][Next]_vars

-----------------------------------------------------------------------------
(* Every variable has its type.                                            *)
TypeOK ==
  /\ kinds \in [Ops -> Kinds]
  /\ dir \in [Names -> Contents \cup {None}]
  /\ content \in [Contents -> Contents]
  /\ phase \in {"prepare", "stage", "revalidate", "commit", "tidy", "sync",
                "verify", "backups", "rollback", "done"}
  /\ op \in Ops
  /\ todo \in Seq({"verify", "absent", "backup", "remove", "install", "unstage",
                   "compare", "restore", "drop"})
  /\ journal \in Seq([op : Ops, installed : BOOLEAN])
  /\ failure \in {"none", "prepare", "stage", "revalidate", "commit", "sync", "verify"}
  /\ complete \in BOOLEAN /\ stopped \in BOOLEAN
  /\ reported \subseteq Names
  /\ saves \in 0..MaxSaves /\ faults \in 0..MaxFaults
  /\ touched \subseteq Ops /\ met \subseteq Ops
  /\ noticed \subseteq Contents \cup {None}

Undisturbed == Ops \ (touched \cup met)
RollbackComplete == complete /\ reported = {}

(* As far as no other program changed its files, the edit is made in all   *)
(* of them when it is reported as committed, and in none when it has       *)
(* failed with its rollback complete, whichever call failed and whatever   *)
(* another program did to the other files of the edit.                     *)
AllOrNothing ==
  phase = "done" =>
    \A k \in Undisturbed :
      /\ failure = "none" => AsProposed(k)
      /\ failure # "none" /\ RollbackComplete =>
           /\ AsReviewed(k)
           /\ kinds[k] # "create" => dir[From(k)] # None

(* A failure that reports its rollback complete leaves nothing of the      *)
(* Agent's under any name, also beside a program that writes the same      *)
(* files.                                                                  *)
CompleteMeansGone ==
  phase = "done" /\ failure # "none" /\ RollbackComplete =>
    \A k \in Ops : ~Linked(New(k)) /\ ~Exists(Stage(k)) /\ ~Exists(Backup(k))

(* What a file held before the edit is under some name at every moment, so *)
(* also where the process stops, until the whole edit has been verified;   *)
(* unless another program itself wrote over the file or took it away.      *)
Recoverable ==
  \A k \in Ops \ touched :
    \/ kinds[k] = "create"
    \/ Linked(Old(k))
    \/ /\ failure = "none" /\ phase \in {"backups", "done"}
       /\ \A j \in Undisturbed : AsProposed(j)

(* The state of the workspace is sound wherever the process may stop.      *)
WorkspaceIsSound == TypeOK /\ Recoverable

(* Stages and backups left behind are named to the caller.                 *)
LeftoversAreReported ==
  phase = "done" =>
    \A k \in Ops : \A name \in {Stage(k), Backup(k)} : Exists(name) => name \in reported

(* What the transaction reports of its end is so.                          *)
ReportsAreTrue == CompleteMeansGone /\ LeftoversAreReported

(* The transaction never takes the last name from what another program     *)
(* saved once it has looked at it: a save is lost only between the last    *)
(* look at its path and the call that removes it.  (A stage that shares    *)
(* the save is no place to find it in.)                                    *)
Held(n) == \E k \in Ops : \E name \in Paths(k) \cup {Backup(k)} : Content(name) = Other(n)
KnownSavesSurvive ==
  [][transaction' # transaction =>
       \A n \in 1..MaxSaves : Other(n) \in noticed /\ Held(n) => Held(n)']_vars
=============================================================================
