----------------------------- MODULE Licensing -----------------------------
(* The license of one institute and the identities that carry it. Vendor    *)
(* updates and Stripe events change the license in one transaction and then *)
(* project the new version into the custom claims of every user, one user   *)
(* beside another, revoking the user's sessions; staff and student requests *)
(* do the same for one user. The gateway believes the claims alone, so what *)
(* a user may do is what the claims of a valid session say.                 *)
EXTENDS Integers, Sequences, FiniteSets

CONSTANTS
    Staff, Students,    \* identities with an account in Firebase Auth
    Events,             \* Stripe events
    Deliveries, Calls,  \* calls of the webhook, and calls of the vendor or of the
                        \* institute's staff; each is made at most once
    Parallel,           \* bound: how many of them run at a time
    Layers, Unlicensed, \* the license layers, that of no license among them
    None

ASSUME LicensingAssumption ==
    /\ Staff \cap Students = {}
    /\ Unlicensed \in Layers /\ Parallel \in Nat
    /\ None \notin Events \cup Staff \cup Layers
    /\ Deliveries \cap Calls = {}

Users == Staff \cup Students
Requests == Deliveries \cup Calls
Access == {"active", "suspended", "none"}   \* "none": no entry in settingsUsers

VARIABLES
    license,    \* license/current and license/main: the layer; its state, its
                \* prices and its dates are not told apart
    history,    \* licenseHistory; the version everyone refers to is its length
    log,        \* the Stripe event log: None or [version, synced]
    told,       \* the events whose payment status has reached the bill
    access,     \* settingsUsers: the status of each staff member
    deleted,    \* the soft-deleted students
    claims,     \* the managed custom claims of each user, or None
    session,    \* the claims in the tokens of the user's valid session, or None
    pc,         \* where each request is
    job,        \* the event, its version and whether the request applied it; the
                \* staff member whose access it changes and the access it has seen
    step,       \* what a request still has to do to a user's identity
    held,       \* the claims a request has made from what it read of a user
    disturbed   \* users two requests were at work on at once, or one was left
                \* half-way by a request that nobody repeats (history variable)

licenseVars == <<license, history, log>>
accessVars == <<access, deleted>>
authVars == <<claims, session>>
requestVars == <<pc, job, step, held>>
vars == <<licenseVars, told, accessVars, authVars, requestVars, disturbed>>

Version == Len(history)
Claims == [version : Nat, layer : Layers, suspended : BOOLEAN]
Entries == [layer : Layers, by : Events \cup {None}]
Logged == [version : Nat, synced : BOOLEAN]
Jobs == [event : Events \cup {None}, version : Nat, first : BOOLEAN,
         user : Staff \cup {None}, seen : Access]
Steps == {"none", "read", "write", "clear", "revoke"}

ASSUME NoneAssumption == None \notin Claims \cup Logged

NoJob == [event |-> None, version |-> 0, first |-> FALSE, user |-> None,
          seen |-> "none"]

TypeOK ==
    /\ license \in Layers
    /\ history \in Seq(Entries)
    /\ log \in [Events -> Logged \cup {None}]
    /\ told \in SUBSET Events
    /\ access \in [Staff -> Access] /\ deleted \in SUBSET Students
    /\ claims \in [Users -> Claims \cup {None}]
    /\ session \in [Users -> Claims \cup {None}]
    /\ pc \in [Requests -> {"idle", "access", "load", "sync", "mark", "bill",
                            "done", "failed"}]
    /\ job \in [Requests -> Jobs]
    /\ step \in [Requests -> [Users -> Steps]]
    /\ held \in [Requests -> [Users -> Claims \cup {None}]]
    /\ disturbed \in SUBSET Users

\* Mutant: the status of the staff member is left out of the claims.
AuthorityOfLicense(u) == [version |-> Version, layer |-> license,
                          suspended |-> FALSE]

(* What resolveInstituteAuthority makes of the documents. A soft-deleted     *)
(* student still has a document and so still has authority.                 *)
HasAuthority(u) == u \in Staff => access[u] # "none"
Authority(u) == [version |-> Version, layer |-> license,
                 suspended |-> u \in Staff /\ access[u] = "suspended"]

Identities == {u \in Users : HasAuthority(u)}

Init ==
    /\ license = Unlicensed
    /\ history = <<>>
    /\ log = [e \in Events |-> None]
    /\ told = {}
    /\ access = [u \in Staff |-> "active"]
    /\ deleted = {}
    /\ claims = [u \in Users |-> [version |-> 0, layer |-> Unlicensed,
                                  suspended |-> FALSE]]
    /\ session = [u \in Users |-> None]
    /\ pc = [r \in Requests |-> "idle"]
    /\ job = [r \in Requests |-> NoJob]
    /\ step = [r \in Requests |-> [u \in Users |-> "none"]]
    /\ held = [r \in Requests |-> [u \in Users |-> None]]
    /\ disturbed = {}

----------------------------------------------------------------------------
(* Changing the license. *)

Running == {r \in Requests : \/ pc[r] \notin {"idle", "done", "failed"}
                             \/ \E u \in Users : step[r][u] # "none"}
Arrives(r) == pc[r] = "idle" /\ Cardinality(Running) < Parallel

Goto(r, label) == pc' = [pc EXCEPT ![r] = label]

(* One transaction replaces both license documents, creates the history     *)
(* entry that names the new version and puts the version on the institute.  *)
Commit(r, e, layer) ==
    /\ license' = layer
    /\ history' = Append(history, [layer |-> layer, by |-> e])
    /\ job' = [job EXCEPT ![r] = [@ EXCEPT !.event = e, !.version = Version + 1,
                                             !.first = (e # None)]]
    /\ Goto(r, "load")
    /\ UNCHANGED <<told, accessVars, authVars, step, held>>

UpdateLicense(r) ==
    /\ Arrives(r)
    /\ \E layer \in Layers : Commit(r, None, layer)
    /\ UNCHANGED log

\* Mutant: the event log is not looked up.
AlwaysUnprocessed(e) == TRUE

Unprocessed(e) == log[e] = None

(* Paid for, the license is put on the layer the event names; unpaid, it is  *)
(* kept for a while; its subscription ended, it is kept or falls back to    *)
(* Unlicensed. Together, any layer may be the outcome.                      *)
ProcessEvent(r, e) ==
    /\ Arrives(r) /\ Unprocessed(e)
    /\ \E layer \in Layers : Commit(r, e, layer)
    /\ log' = [log EXCEPT ![e] = [version |-> Version + 1, synced |-> FALSE]]

(* A delivery of an event already in the log only takes up the projection,  *)
(* and only if no delivery has completed it.                                *)
DuplicateEvent(r, e) ==
    /\ Arrives(r) /\ log[e] # None
    /\ job' = [job EXCEPT ![r] = [@ EXCEPT !.event = e, !.version = log[e].version]]
    /\ Goto(r, IF log[e].synced THEN "done" ELSE "load")
    /\ UNCHANGED <<licenseVars, told, accessVars, authVars, step, held>>

----------------------------------------------------------------------------
(* Projecting the license into the identities. *)

\* Mutant: the event is not marked as projected.
FinishedUnmarked(r) == "done"

Finished(r) == IF job[r].event = None THEN "done" ELSE "mark"

(* A version that is no longer the current one is left to its successor;    *)
(* otherwise all identities are taken up at once, deleted students too.     *)
Load(r) ==
    /\ pc[r] = "load"
    /\ IF job[r].version = Version
       THEN /\ step' = [step EXCEPT ![r] =
                   [u \in Users |-> IF HasAuthority(u) THEN "read" ELSE "none"]]
            /\ Goto(r, "sync")
       ELSE Goto(r, Finished(r)) /\ UNCHANGED step
    /\ UNCHANGED <<licenseVars, told, accessVars, authVars, job, held>>

(* One user's synchronization reads account and authority; the claims are   *)
(* written, if they differ, and the sessions revoked in later steps.        *)
Prepare(r, u) ==
    LET differ == claims[u] # Authority(u)
    IN  /\ held' = [held EXCEPT ![r][u] = IF differ THEN Authority(u) ELSE None]
        /\ step' = [step EXCEPT ![r][u] = IF differ THEN "write" ELSE "revoke"]

ReadAuthority(r, u) ==
    /\ step[r][u] = "read" /\ HasAuthority(u)
    /\ Prepare(r, u)
    /\ UNCHANGED <<licenseVars, told, accessVars, authVars, pc, job>>

Write(r, u) ==
    /\ claims' = [claims EXCEPT ![u] = held[r][u]]
    /\ held' = [held EXCEPT ![r][u] = None]
    /\ step' = [step EXCEPT ![r][u] = "revoke"]

WriteClaims(r, u) ==
    /\ step[r][u] = "write"
    /\ Write(r, u)
    /\ UNCHANGED <<licenseVars, told, accessVars, session, pc, job>>

ClearClaims(r, u) ==
    /\ step[r][u] = "clear"
    /\ claims' = [claims EXCEPT ![u] = None]
    /\ step' = [step EXCEPT ![r][u] = "revoke"]
    /\ UNCHANGED <<licenseVars, told, accessVars, session, pc, job, held>>

Revoke(r, u) ==
    /\ step[r][u] = "revoke"
    /\ session' = [session EXCEPT ![u] = None]
    /\ step' = [step EXCEPT ![r][u] = "none"]
    /\ UNCHANGED <<licenseVars, told, accessVars, claims, pc, job, held>>

\* Mutant: the projection does not wait for all users.
SynchronizedInPart(r) == \E u \in Users : step[r][u] = "none"

Synchronized(r) == \A u \in Users : step[r][u] = "none"

SyncDone(r) ==
    /\ pc[r] = "sync" /\ Synchronized(r)
    /\ Goto(r, Finished(r))
    /\ UNCHANGED <<licenseVars, told, accessVars, authVars, job, step, held>>

Mark(r) ==
    /\ pc[r] = "mark"
    /\ log' = [log EXCEPT ![job[r].event].synced = TRUE]
    /\ Goto(r, IF job[r].first THEN "bill" ELSE "done")
    /\ UNCHANGED <<license, history, told, accessVars, authVars, job, step, held>>

(* Only the delivery that applied the event passes its status to the bill.  *)
Bill(r) ==
    /\ pc[r] = "bill"
    /\ told' = told \cup {job[r].event}
    /\ Goto(r, "done")
    /\ UNCHANGED <<licenseVars, accessVars, authVars, job, step, held>>

(* An operation fails. What is under way for the other users goes on.       *)
Fail(r) ==
    /\ pc[r] \notin {"idle", "done", "failed"}
    /\ Goto(r, "failed")
    /\ UNCHANGED <<licenseVars, told, accessVars, authVars, job, step, held>>

(* The instance dies, and what was under way with it.                       *)
Crash(r) ==
    /\ pc[r] \notin {"idle", "done"}
    /\ Goto(r, "failed")
    /\ step' = [step EXCEPT ![r] = [u \in Users |-> "none"]]
    /\ held' = [held EXCEPT ![r] = [u \in Users |-> None]]
    /\ UNCHANGED <<licenseVars, told, accessVars, authVars, job>>

----------------------------------------------------------------------------
(* Requests about one user. A request is in "sync" while it works on the    *)
(* user's identity and is then done.                                        *)

Begin(r, u, next) ==
    /\ step' = [step EXCEPT ![r][u] = next]
    /\ Goto(r, "sync")

(* The access a staff member had is read before the new one is written.     *)
ReadAccess(r, u) ==
    /\ Arrives(r)
    /\ job' = [job EXCEPT ![r] = [@ EXCEPT !.user = u, !.seen = access[u]]]
    /\ Goto(r, "access")
    /\ UNCHANGED <<licenseVars, told, accessVars, authVars, step, held>>

UpsertAccess(r, u) ==
    /\ pc[r] = "access" /\ job[r].user = u
    /\ \E status \in {"active", "suspended"} :
           /\ access' = [access EXCEPT ![u] = status]
           /\ IF status = job[r].seen
              THEN Goto(r, "done") /\ UNCHANGED step
              ELSE Begin(r, u, "read")
    /\ UNCHANGED <<licenseVars, told, deleted, authVars, job, held>>

RemoveAccess(r, u) ==
    /\ Arrives(r)
    /\ access' = [access EXCEPT ![u] = "none"]
    /\ Begin(r, u, "clear")
    /\ UNCHANGED <<licenseVars, told, deleted, authVars, job, held>>

SoftDelete(r, u) ==
    /\ Arrives(r)
    /\ deleted' = deleted \cup {u}
    /\ Begin(r, u, "clear")
    /\ UNCHANGED <<licenseVars, told, access, authVars, job, held>>

ResetPassword(r, u) ==
    /\ Arrives(r)
    /\ Begin(r, u, "revoke")
    /\ UNCHANGED <<licenseVars, told, accessVars, authVars, job, held>>

SecuritySettings(r) ==
    /\ Arrives(r)
    /\ step' = [step EXCEPT ![r] = [u \in Users |->
           IF u \in Staff /\ HasAuthority(u) THEN "revoke" ELSE "none"]]
    /\ Goto(r, "sync")
    /\ UNCHANGED <<licenseVars, told, accessVars, authVars, job, held>>

(* A sign-in, or the refresh of a token: the tokens carry today's claims.   *)
SignIn(u) ==
    /\ claims[u] # None
    /\ session' = [session EXCEPT ![u] = claims[u]]
    /\ UNCHANGED <<licenseVars, told, accessVars, claims, requestVars>>

LicenseStep ==
    \/ \E r \in Calls : UpdateLicense(r)
    \/ \E r \in Deliveries, e \in Events : ProcessEvent(r, e) \/ DuplicateEvent(r, e)
UserStep(r, u) ==
    \/ ReadAuthority(r, u) \/ WriteClaims(r, u) \/ ClearClaims(r, u) \/ Revoke(r, u)
AdminStep ==
    \/ \E r \in Calls : SecuritySettings(r)
    \/ \E r \in Calls, u \in Staff :
           ReadAccess(r, u) \/ UpsertAccess(r, u) \/ RemoveAccess(r, u)
    \/ \E r \in Calls, u \in Students : SoftDelete(r, u)
    \/ \E r \in Calls, u \in Users : ResetPassword(r, u)
ServerStep(r) ==
    \/ Load(r) \/ SyncDone(r) \/ Mark(r) \/ Bill(r)
    \/ \E u \in Users : UserStep(r, u)

Step ==
    \/ LicenseStep \/ AdminStep
    \/ \E r \in Requests : ServerStep(r) \/ Fail(r) \/ Crash(r)
    \/ \E u \in Users : SignIn(u)

(* Bookkeeping for the properties: it disables nothing.                     *)
AtWork(r, u) ==
    \/ step[r][u] \in {"write", "clear", "revoke"}
    \/ pc[r] = "access" /\ job[r].user = u
Contested == {u \in Users : \E r, q \in Requests :
                 r # q /\ AtWork(r, u) /\ AtWork(q, u)}
Abandoned == {u \in Users : \E r \in Requests :
                 /\ pc'[r] = "failed" /\ job[r].event = None
                 /\ step[r][u] # "none"}

Next == Step /\ disturbed' = disturbed \cup Contested' \cup Abandoned

Spec == Init /\ [][Next]_vars

Settled(u) == \A r \in Requests : ~AtWork(r, u) /\ step[r][u] # "read"
Undisturbed == {u \in Users \ disturbed : Settled(u)}

(* Redelivered events, beside or after one another, change the license once. *)
AppliedOnce ==
    \A i, j \in DOMAIN history :
        history[i].by = history[j].by /\ history[i].by # None => i = j

(* Stripe is answered with success, and stops to retry, only when the event  *)
(* has been projected, whichever of its deliveries did it.                  *)
AnsweredIsSynced ==
    \A r \in Requests : pc[r] = "done" /\ job[r].event # None =>
        log[job[r].event].synced

(* Once the event behind the current version is marked, no user holds claims *)
(* or a valid session of an earlier version, through failed deliveries,     *)
(* crashes and retries, unless another request got in the way.              *)
SyncedIsFresh ==
    (\E e \in Events : log[e] # None /\ log[e].synced /\ log[e].version = Version) =>
        \A u \in Undisturbed \cap Identities :
            \A c \in {claims[u], session[u]} \ {None} :
                c.version = Version /\ c.layer = license

(* A staff member without access has no claims and no valid session, and a   *)
(* suspended one none that are not suspended: license changes that project  *)
(* into the same users do not undo it.                                      *)
ClaimsFollowAccess ==
    \A u \in Undisturbed \cap Staff : \A c \in {claims[u], session[u]} \ {None} :
        access[u] # "none" /\ c.suspended = (access[u] = "suspended")
=============================================================================
