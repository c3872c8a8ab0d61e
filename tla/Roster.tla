------------------------------- MODULE Roster -------------------------------
(* The students of one institute: their documents, their accounts in        *)
(* Firebase Auth with the claims these carry, and the onboarding mails. A   *)
(* bulk upload reads the documents, creates or updates the accounts of its  *)
(* rows beside one another, then writes all documents and mails in one      *)
(* transaction and cuts off the students it deactivates. Other uploads,     *)
(* first logins and soft deletes run in between.                            *)
EXTENDS Integers, FiniteSets

CONSTANTS
    Students,
    Uploads,    \* requests that commit an upload, each made at most once
    Earlier,    \* bound: the documents earlier requests have left, or None
    None

Statuses == {"invited", "active", "inactive"}
Document == [status : Statuses, deleted : BOOLEAN]

ASSUME RosterAssumption ==
    Earlier \in SUBSET (Document \cup {None}) /\ None \notin Document

VARIABLES
    doc,        \* students: a document or None
    account,    \* the Auth account: "absent", without claims, or with a student's
    mailed,     \* students with an onboarding mail in the queue
    cutting,    \* students whose soft delete has yet to clear their claims
    pc,         \* where each upload is
    rows,       \* the students an upload names
    seen,       \* the documents it has read
    missing,    \* the students it deactivates
    row,        \* what it does next to a student's account
    created,    \* createdAuthUsers
    disturbed   \* students two requests were at work on at once, or one was
                \* left half-way by an upload that failed (history variable)

uploadVars == <<pc, rows, seen, missing, row, created>>
vars == <<doc, account, mailed, cutting, uploadVars, disturbed>>

RowSteps == {"none", "get", "update", "create", "claim", "clear"}

TypeOK ==
    /\ doc \in [Students -> Document \cup {None}]
    /\ account \in [Students -> {"absent", "bare", "student"}]
    /\ mailed \in SUBSET Students /\ cutting \in SUBSET Students
    /\ pc \in [Uploads -> {"idle", "accounts", "commit", "audit", "clear",
                           "undo", "done", "failed"}]
    /\ rows \in [Uploads -> SUBSET Students]
    /\ seen \in [Uploads -> [Students -> Document \cup {None}]]
    /\ missing \in [Uploads -> SUBSET Students]
    /\ row \in [Uploads -> [Students -> RowSteps]]
    /\ created \in [Uploads -> SUBSET Students]
    /\ disturbed \in SUBSET Students

(* A roster as earlier requests leave it: each student has been cut off or   *)
(* has a student's claims.                                                  *)
Init ==
    /\ doc \in [Students -> Earlier]
    /\ account = [s \in Students |->
           IF doc[s] = None THEN "absent"
           ELSE IF doc[s].deleted \/ doc[s].status = "inactive" THEN "bare"
           ELSE "student"]
    /\ mailed = {s \in Students : doc[s] # None}
    /\ cutting = {}
    /\ pc = [u \in Uploads |-> "idle"]
    /\ rows = [u \in Uploads |-> {}]
    /\ seen = [u \in Uploads |-> [s \in Students |-> None]]
    /\ missing = [u \in Uploads |-> {}]
    /\ row = [u \in Uploads |-> [s \in Students |-> "none"]]
    /\ created = [u \in Uploads |-> {}]
    /\ disturbed = {}

Goto(u, label) == pc' = [pc EXCEPT ![u] = label]

----------------------------------------------------------------------------
(* An upload whose rows are all valid.                                      *)

(* loadDeactivationCandidates                                               *)
Candidates(named) ==
    {s \in Students \ named : /\ doc[s] # None
                              /\ ~doc[s].deleted /\ doc[s].status # "inactive"}

(* The named students are read one by one and the candidates in a query      *)
(* after them. Here it is one step: no student is read by both, and what is *)
(* done with one student does not depend on what was read of another.       *)
IngestStudents(u, named, deactivateMissing) ==
    /\ pc[u] = "idle"
    /\ rows' = [rows EXCEPT ![u] = named]
    /\ seen' = [seen EXCEPT ![u] =
           [s \in Students |-> IF s \in named THEN doc[s] ELSE None]]
    /\ missing' = [missing EXCEPT ![u] =
           IF deactivateMissing THEN Candidates(named) ELSE {}]
    /\ row' = [row EXCEPT ![u] =
           [s \in Students |-> IF s \in named THEN "get" ELSE "none"]]
    /\ Goto(u, "accounts")
    /\ UNCHANGED <<doc, account, mailed, cutting, created>>

(* upsertAuthUser, row by row: the account is looked up, updated or, if      *)
(* either finds none, created, and then given a student's claims.           *)
RowStep(u, s, next) == row' = [row EXCEPT ![u][s] = next]

GetUser(u, s) ==
    /\ row[u][s] = "get"
    /\ RowStep(u, s, IF account[s] = "absent" THEN "create" ELSE "update")
    /\ UNCHANGED <<doc, account, mailed, cutting, pc, rows, seen, missing,
                   created>>

UpdateUser(u, s) ==
    /\ row[u][s] = "update"
    /\ RowStep(u, s, IF account[s] = "absent" THEN "create" ELSE "claim")
    /\ UNCHANGED <<doc, account, mailed, cutting, pc, rows, seen, missing,
                   created>>

CreateUser(u, s) ==
    /\ row[u][s] = "create" /\ account[s] = "absent"
    /\ account' = [account EXCEPT ![s] = "bare"]
    /\ created' = [created EXCEPT ![u] = @ \cup {s}]
    /\ RowStep(u, s, "claim")
    /\ UNCHANGED <<doc, mailed, cutting, pc, rows, seen, missing>>

SetClaims(u, s) ==
    /\ row[u][s] = "claim" /\ account[s] # "absent"
    /\ account' = [account EXCEPT ![s] = "student"]
    /\ RowStep(u, s, "none")
    /\ UNCHANGED <<doc, mailed, cutting, pc, rows, seen, missing, created>>

(* A row's call fails: because the account has come or gone in the meantime, *)
(* or for reasons of its own. The upload fails, its other rows go on.       *)
RowFails(u, s) ==
    /\ row[u][s] # "none"
    /\ RowStep(u, s, "none")
    /\ pc' = [pc EXCEPT ![u] = CASE @ = "accounts" -> "undo"
                                 [] @ = "clear" -> "failed" [] OTHER -> @]
    /\ UNCHANGED <<doc, account, mailed, cutting, rows, seen, missing, created>>

RowsDone(u) == \A s \in Students : row[u][s] = "none"

AccountsDone(u) ==
    /\ pc[u] = "accounts" /\ RowsDone(u)
    /\ Goto(u, "commit")
    /\ UNCHANGED <<doc, account, mailed, cutting, rows, seen, missing, row,
                   created>>

StatusSeen(u, s) == IF seen[u][s] = None THEN "invited" ELSE seen[u][s].status

\* Mutant: only students found on the roster as invited are mailed.
OnboardedAgain(u) ==
    {s \in rows[u] : seen[u][s] # None /\ StatusSeen(u, s) = "invited"}

Onboarded(u) == {s \in rows[u] : StatusSeen(u, s) = "invited"}

(* commitRows: documents and mails, from what was read at the start.        *)
CommitRows(u) ==
    /\ pc[u] = "commit"
    /\ doc' = [s \in Students |->
           IF s \in missing[u] THEN [doc[s] EXCEPT !.status = "inactive"]
           ELSE IF s \in rows[u]
                THEN [status |-> StatusSeen(u, s), deleted |-> FALSE]
           ELSE doc[s]]
    /\ mailed' = mailed \cup Onboarded(u)
    /\ Goto(u, "audit")
    /\ UNCHANGED <<account, cutting, rows, seen, missing, row, created>>

(* The import is logged, after the transaction but in the same try; then    *)
(* the deactivated students are cut off.                                    *)
LogImport(u) ==
    /\ pc[u] = "audit"
    /\ row' = [row EXCEPT ![u] =
           [s \in Students |-> IF s \in missing[u] THEN "clear" ELSE "none"]]
    /\ Goto(u, "clear")
    /\ UNCHANGED <<doc, account, mailed, cutting, rows, seen, missing, created>>

CommitFails(u) ==
    /\ pc[u] \in {"commit", "audit"}
    /\ Goto(u, "undo")
    /\ UNCHANGED <<doc, account, mailed, cutting, rows, seen, missing, row,
                   created>>

\* Mutant: the accounts of all rows are deleted.
ToUndoOfRows(u) == rows[u]

ToUndo(u) == created[u]

(* The accounts created so far are deleted; a deletion that fails is passed *)
(* over.                                                                    *)
Undo(u) ==
    /\ pc[u] = "undo"
    /\ \E deleted \in SUBSET ToUndo(u) :
           account' = [s \in Students |->
               IF s \in deleted THEN "absent" ELSE account[s]]
    /\ Goto(u, "failed")
    /\ UNCHANGED <<doc, mailed, cutting, rows, seen, missing, row, created>>

\* Mutant: the account is left alone.
NotCutOff(s) == account

CutOff(s) == IF account[s] = "absent" THEN account
             ELSE [account EXCEPT ![s] = "bare"]

ClearClaims(u, s) ==
    /\ row[u][s] = "clear"
    /\ account' = CutOff(s)
    /\ RowStep(u, s, "none")
    /\ UNCHANGED <<doc, mailed, cutting, pc, rows, seen, missing, created>>

UploadDone(u) ==
    /\ pc[u] = "clear" /\ RowsDone(u)
    /\ Goto(u, "done")
    /\ UNCHANGED <<doc, account, mailed, cutting, rows, seen, missing, row,
                   created>>

(* The instance dies, with all its calls.                                   *)
Crash(u) ==
    /\ pc[u] \notin {"idle", "done"}
    /\ Goto(u, "failed")
    /\ row' = [row EXCEPT ![u] = [s \in Students |-> "none"]]
    /\ UNCHANGED <<doc, account, mailed, cutting, rows, seen, missing, created>>

----------------------------------------------------------------------------
(* The other requests. *)

ActivateInvited(s) ==
    /\ account[s] = "student"
    /\ doc[s] # None /\ doc[s].status = "invited"
    /\ doc' = [doc EXCEPT ![s].status = "active"]
    /\ UNCHANGED <<account, mailed, cutting, uploadVars>>

SoftDelete(s) ==
    /\ doc[s] # None
    /\ doc' = [doc EXCEPT ![s].deleted = TRUE]
    /\ cutting' = cutting \cup {s}
    /\ UNCHANGED <<account, mailed, uploadVars>>

FinishDelete(s) ==
    /\ s \in cutting
    /\ account' = CutOff(s)
    /\ cutting' = cutting \ {s}
    /\ UNCHANGED <<doc, mailed, uploadVars>>

Ingest(u) == \E named \in SUBSET Students \ {{}}, d \in BOOLEAN :
                 IngestStudents(u, named, d)
Account(u, s) == GetUser(u, s) \/ UpdateUser(u, s) \/ CreateUser(u, s)
                 \/ SetClaims(u, s) \/ RowFails(u, s) \/ ClearClaims(u, s)
Upload(u) == Ingest(u) \/ AccountsDone(u) \/ CommitRows(u) \/ LogImport(u)
             \/ CommitFails(u) \/ Undo(u) \/ UploadDone(u) \/ Crash(u)
Student(s) == ActivateInvited(s) \/ SoftDelete(s) \/ FinishDelete(s)

Step == \/ \E u \in Uploads : Upload(u) \/ \E s \in Students : Account(u, s)
        \/ \E s \in Students : Student(s)

(* Bookkeeping for the properties: it disables nothing.                     *)
Running(u) == pc[u] \notin {"idle", "done", "failed"} \/ ~RowsDone(u)
AtWork(u) == IF Running(u) THEN rows[u] \cup missing[u] ELSE {}
Contested == {s \in Students :
    \E u \in Uploads : s \in AtWork(u)
                      /\ (s \in cutting \/ \E v \in Uploads \ {u} : s \in AtWork(v))}
Abandoned == UNION {rows[u] \cup missing[u] : u \in {v \in Uploads : pc'[v] = "failed"}}

Next == Step /\ disturbed' = disturbed \cup Contested' \cup Abandoned

Spec == Init /\ [][Next]_vars

Settled(s) == s \notin cutting /\ \A u \in Uploads : s \notin AtWork(u)

(* A student on the roster has an account, through concurrent and failed     *)
(* uploads: only an upload that created it takes it back.                   *)
AccountIsKept ==
    \A s \in Students : doc[s] # None /\ account[s] = "absent" =>
        \E u \in Uploads : s \in created[u] /\ pc[u] = "failed"

(* Documents and accounts are written by different requests and never in    *)
(* one transaction; when these have finished, those of a deleted student    *)
(* carry no claims, and those of an invited or active one do.               *)
AccessFollowsRoster ==
    \A s \in Students \ disturbed : Settled(s) /\ doc[s] # None =>
        /\ doc[s].deleted => account[s] # "student"
        /\ ~doc[s].deleted /\ doc[s].status # "inactive" => account[s] = "student"

(* A student whom uploads, first logins and deletions in whatever order have *)
(* left invited has been sent the mail to log in with.                      *)
InvitedIsMailed ==
    \A s \in Students : doc[s] # None /\ doc[s].status = "invited" => s \in mailed
=============================================================================
