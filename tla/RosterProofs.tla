----------------------------- MODULE RosterProofs -----------------------------
(* Theorems about Roster, for any students and any uploads: that students on *)
(* the roster keep their accounts, that invited ones have been mailed, and  *)
(* that the accounts nobody disturbed carry the claims the roster gives.    *)
EXTENDS Roster, TLAPS

(* A student has an account, or the upload that created it has failed and    *)
(* taken it back.                                                           *)
Has(s) == account[s] # "absent" \/ \E u \in Uploads : s \in created[u] /\ pc[u] = "failed"

(* What an upload does, it does to its rows and to those it deactivates.     *)
RowsBelong ==
    \A u \in Uploads :
        /\ created[u] \subseteq rows[u]
        /\ pc[u] = "idle" => created[u] = {}
        /\ \A s \in missing[u] : doc[s] # None
        /\ \A s \in Students :
               /\ row[u][s] \in {"get", "update", "create", "claim"} =>
                      s \in rows[u] /\ pc[u] \in {"accounts", "undo", "failed"}
               /\ row[u][s] = "clear" => s \in missing[u] /\ pc[u] \in {"clear", "failed"}

(* The rows an upload is done with have their accounts.                      *)
RowsHaveAccounts ==
    \A u \in Uploads : \A s \in rows[u] :
        pc[u] \in {"accounts", "commit"} /\ row[u][s] = "none" => Has(s)

RosterInv ==
    /\ TypeOK
    /\ RowsBelong
    /\ RowsHaveAccounts
    /\ AccountIsKept
    /\ InvitedIsMailed

(* No upload has begun at first.                                           *)
LEMMA RosterInit == Init => RosterInv
<1> SUFFICES ASSUME Init PROVE RosterInv
  OBVIOUS
<1>1. doc \in [Students -> Document \cup {None}]
  BY RosterAssumption DEF Init
<1>2. TypeOK
  BY <1>1 DEF Init, TypeOK, RowSteps
<1>3. RowsBelong /\ RowsHaveAccounts
  BY DEF Init, RowsBelong, RowsHaveAccounts
<1>4. AccountIsKept /\ InvitedIsMailed
  BY DEF Init, AccountIsKept, InvitedIsMailed
<1> QED
  BY <1>2, <1>3, <1>4 DEF RosterInv

(* A step on a student's account: only the row moves on, and the claims and  *)
(* the existence of the account with it.                                    *)
LEMMA AccountShape ==
    ASSUME TypeOK, NEW u \in Uploads, NEW s \in Students, Account(u, s)
    PROVE  /\ UNCHANGED <<doc, mailed, cutting, rows, seen, missing>>
           /\ row[u][s] # "none"
           /\ \E next \in {"none", "update", "create", "claim"} :
                  row' = [row EXCEPT ![u][s] = next]
           /\ \/ account' = account
              \/ account[s] = "absent" /\ account' = [account EXCEPT ![s] = "bare"]
              \/ /\ row[u][s] = "claim" /\ account[s] # "absent"
                 /\ account' = [account EXCEPT ![s] = "student"]
              \/ /\ row[u][s] = "clear" /\ account[s] # "absent"
                 /\ account' = [account EXCEPT ![s] = "bare"]
           /\ \/ created' = created
              \/ row[u][s] = "create" /\ created' = [created EXCEPT ![u] = @ \cup {s}]
           /\ \/ pc' = pc /\ (row'[u][s] = "none" =>
                     \/ pc[u] \notin {"accounts", "clear"}
                     \/ row[u][s] = "claim" /\ account'[s] = "student"
                     \/ row[u][s] = "clear")
              \/ pc[u] = "accounts" /\ pc' = [pc EXCEPT ![u] = "undo"]
              \/ pc[u] = "clear" /\ pc' = [pc EXCEPT ![u] = "failed"]
           /\ row'[u][s] # "none" => row[u][s] \in {"get", "update", "create"}
<1>1. row \in [Uploads -> [Students -> RowSteps]] /\ account \in [Students -> {"absent", "bare", "student"}]
      /\ pc \in [Uploads -> {"idle", "accounts", "commit", "audit", "clear",
                           "undo", "done", "failed"}]
  BY DEF TypeOK
<1>2. CASE GetUser(u, s)
  BY <1>1, <1>2 DEF GetUser, RowStep
<1>3. CASE UpdateUser(u, s)
  BY <1>1, <1>3 DEF UpdateUser, RowStep
<1>4. CASE CreateUser(u, s)
  BY <1>1, <1>4 DEF CreateUser, RowStep
<1>5. CASE SetClaims(u, s)
  BY <1>1, <1>5 DEF SetClaims, RowStep
<1>6. CASE RowFails(u, s)
  BY <1>1, <1>6 DEF RowFails, RowStep
<1>7. CASE ClearClaims(u, s)
  BY <1>1, <1>7 DEF ClearClaims, RowStep, CutOff
<1> QED
  BY <1>2, <1>3, <1>4, <1>5, <1>6, <1>7 DEF Account

(* The call for one student's account keeps the uploads in order.          *)
LEMMA AccountKeeps ==
    ASSUME RosterInv, NEW u \in Uploads, NEW s \in Students, Account(u, s),
           disturbed' \in SUBSET Students
    PROVE  RosterInv'
<1> USE DEF RosterInv
<1>1. PICK next \in {"none", "update", "create", "claim"} : row' = [row EXCEPT ![u][s] = next]
  BY AccountShape
<1>2. /\ doc' = doc /\ mailed' = mailed /\ cutting' = cutting
      /\ rows' = rows /\ seen' = seen /\ missing' = missing
  BY AccountShape
<1>3. /\ account' \in [Students -> {"absent", "bare", "student"}]
      /\ \A t \in Students : account[t] # "absent" => account'[t] # "absent"
      /\ account'[s] = account[s] \/ account'[s] # "absent"
  <2>1. account \in [Students -> {"absent", "bare", "student"}]
    BY DEF TypeOK
  <2>2. \/ account' = account
        \/ \E a \in {"bare", "student"} : account' = [account EXCEPT ![s] = a]
    BY AccountShape
  <2> QED
    BY <2>1, <2>2
<1>4. /\ pc' \in [Uploads -> {"idle", "accounts", "commit", "audit", "clear",
                              "undo", "done", "failed"}]
      /\ \A v \in Uploads : v # u => pc'[v] = pc[v]
      /\ \/ pc'[u] = pc[u]
         \/ pc[u] = "accounts" /\ pc'[u] = "undo"
         \/ pc[u] = "clear" /\ pc'[u] = "failed"
  <2>1. pc \in [Uploads -> {"idle", "accounts", "commit", "audit", "clear",
                            "undo", "done", "failed"}]
    BY DEF TypeOK
  <2>2. \/ pc' = pc
        \/ pc[u] = "accounts" /\ pc' = [pc EXCEPT ![u] = "undo"]
        \/ pc[u] = "clear" /\ pc' = [pc EXCEPT ![u] = "failed"]
    BY AccountShape
  <2> QED
    BY <2>1, <2>2
<1>5. /\ created' \in [Uploads -> SUBSET Students]
      /\ \A v \in Uploads : created[v] \subseteq created'[v] /\ created'[v] \subseteq rows[v]
      /\ \A v \in Uploads : pc[v] = "idle" => created'[v] = {}
  <2>1. CASE created' = created
    BY <2>1 DEF TypeOK, RowsBelong
  <2>2. CASE row[u][s] = "create" /\ created' = [created EXCEPT ![u] = @ \cup {s}]
    <3>1. s \in rows[u] /\ pc[u] # "idle"
      BY <2>2 DEF RowsBelong
    <3> QED
      BY <2>2, <3>1 DEF TypeOK, RowsBelong
  <2> QED
    BY <2>1, <2>2, AccountShape
<1>6. \A v \in Uploads, t \in Students :
          row'[v][t] = IF v = u /\ t = s THEN next ELSE row[v][t]
  BY <1>1 DEF TypeOK
<1>7. TypeOK'
  <2>1. row' \in [Uploads -> [Students -> RowSteps]]
    BY <1>1 DEF TypeOK, RowSteps
  <2> QED
    BY <1>2, <1>3, <1>4, <1>5, <2>1 DEF TypeOK
<1>8. \A t \in Students : Has(t) => Has(t)'
  <2> SUFFICES ASSUME NEW t \in Students, Has(t) PROVE Has(t)'
    OBVIOUS
  <2> QED
    BY <1>3, <1>4, <1>5 DEF Has
<1>9. next # "none" => row[u][s] \in {"get", "update", "create"}
  BY <1>6, AccountShape
<1>10. RowsBelong'
  <2>1. \A v \in Uploads : pc'[v] = "idle" => pc[v] = "idle"
    BY <1>4
  <2>2. \A v \in Uploads, t \in Students :
            /\ row'[v][t] \in {"get", "update", "create", "claim"} =>
                   t \in rows[v] /\ pc'[v] \in {"accounts", "undo", "failed"}
            /\ row'[v][t] = "clear" => t \in missing[v] /\ pc'[v] \in {"clear", "failed"}
    BY <1>4, <1>6, <1>9 DEF RowsBelong
  <2> QED
    BY <1>2, <1>5, <2>1, <2>2 DEF RowsBelong
<1>11. row'[u][s] = "none" /\ pc'[u] \in {"accounts", "commit"} => Has(s)'
  <2> SUFFICES ASSUME row'[u][s] = "none", pc'[u] \in {"accounts", "commit"} PROVE Has(s)'
    OBVIOUS
  <2>1. row[u][s] # "none"
    BY AccountShape
  <2>2. pc[u] = "accounts"
    BY <1>4, <2>1 DEF RowsBelong, TypeOK, RowSteps
  <2>3. account'[s] = "student"
    BY <1>4, <2>2, AccountShape DEF RowsBelong
  <2> QED
    BY <2>3 DEF Has
<1>12. RowsHaveAccounts'
  <2> SUFFICES ASSUME NEW v \in Uploads, NEW t \in rows[v], row'[v][t] = "none",
                      pc'[v] \in {"accounts", "commit"}
               PROVE  Has(t)'
    BY <1>2 DEF RowsHaveAccounts
  <2>1. t \in Students
    BY DEF TypeOK
  <2>2. CASE v = u /\ t = s
    BY <1>11, <2>2
  <2>3. CASE ~(v = u /\ t = s)
    BY <1>4, <1>6, <1>8, <2>1, <2>3 DEF RowsHaveAccounts
  <2> QED
    BY <2>2, <2>3
<1>13. AccountIsKept'
  BY <1>2, <1>8 DEF AccountIsKept, Has
<1>14. InvitedIsMailed'
  BY <1>2 DEF InvitedIsMailed
<1> QED
  BY <1>7, <1>10, <1>12, <1>13, <1>14

(* An upload goes on as a whole.                                            *)
LEMMA UploadKeeps ==
    ASSUME RosterInv, NEW u \in Uploads, Upload(u), disturbed' \in SUBSET Students
    PROVE  RosterInv'
<1> USE DEF RosterInv
<1> DEFINE Labels == {"idle", "accounts", "commit", "audit", "clear", "undo", "done", "failed"}
<1>1. PICK next \in Labels \ {"idle"} : pc' = [pc EXCEPT ![u] = next]
  BY DEF Upload, Ingest, IngestStudents, AccountsDone, CommitRows, LogImport, CommitFails, Undo,
         UploadDone, Crash, Goto
<1>2. /\ pc' \in [Uploads -> Labels]
      /\ \A v \in Uploads : pc'[v] = IF v = u THEN next ELSE pc[v]
  BY <1>1 DEF TypeOK
<1>3. cutting' = cutting /\ created' = created
  BY DEF Upload, Ingest, IngestStudents, AccountsDone, CommitRows, LogImport, CommitFails, Undo,
         UploadDone, Crash
<1>4. pc[u] = "failed" => next = "failed"
  BY <1>2 DEF Upload, Ingest, IngestStudents, AccountsDone, CommitRows, LogImport, CommitFails,
              Undo, UploadDone, Crash, Goto
<1>5. ASSUME NEW t \in Students, Has(t) PROVE Has(t)'
  <2>1. CASE Undo(u)
    <3>1. PICK gone \in SUBSET created[u] :
              account' = [s \in Students |-> IF s \in gone THEN "absent" ELSE account[s]]
      BY <2>1 DEF Undo, ToUndo
    <3>2. pc'[u] = "failed"
      BY <1>1, <2>1 DEF Undo, Goto, TypeOK
    <3>3. CASE t \in gone
      BY <1>3, <3>1, <3>2, <3>3 DEF Has
    <3>4. CASE t \notin gone
      BY <1>2, <1>3, <1>4, <1>5, <3>1, <3>4 DEF Has
    <3> QED
      BY <3>3, <3>4
  <2>2. CASE account' = account
    BY <1>2, <1>3, <1>4, <1>5, <2>2 DEF Has
  <2> QED
    BY <2>1, <2>2 DEF Upload, Ingest, IngestStudents, AccountsDone, CommitRows, LogImport,
                      CommitFails, UploadDone, Crash
<1>6. CASE Ingest(u)
  <2>1. PICK named \in SUBSET Students \ {{}}, d \in BOOLEAN : IngestStudents(u, named, d)
    BY <1>6 DEF Ingest
  <2> DEFINE cands == IF d THEN Candidates(named) ELSE {}
             reads == [s \in Students |-> IF s \in named THEN doc[s] ELSE None]
             steps == [s \in Students |-> IF s \in named THEN "get" ELSE "none"]
  <2>2. /\ doc' = doc /\ account' = account /\ mailed' = mailed
        /\ pc[u] = "idle" /\ pc'[u] = "accounts"
        /\ rows' = [rows EXCEPT ![u] = named]
        /\ seen' = [seen EXCEPT ![u] = reads]
        /\ missing' = [missing EXCEPT ![u] = cands]
        /\ row' = [row EXCEPT ![u] = steps]
    BY <2>1 DEF IngestStudents, Goto, TypeOK
  <2>3. /\ cands \in SUBSET Students /\ \A s \in cands : doc[s] # None
        /\ reads \in [Students -> Document \cup {None}]
        /\ steps \in [Students -> RowSteps]
        /\ \A s \in Students : steps[s] \in {"get", "none"}
        /\ \A s \in Students : steps[s] = "get" <=> s \in named
    BY DEF Candidates, TypeOK, RowSteps
  <2> HIDE DEF cands, reads, steps
  <2>4. TypeOK'
    BY <1>2, <1>3, <2>2, <2>3 DEF TypeOK
  <2>5. \A v \in Uploads :
            /\ rows'[v] = IF v = u THEN named ELSE rows[v]
            /\ missing'[v] = IF v = u THEN cands ELSE missing[v]
            /\ row'[v] = IF v = u THEN steps ELSE row[v]
    BY <2>2 DEF TypeOK
  <2>6. RowsBelong'
    BY <1>2, <1>3, <2>2, <2>3, <2>5 DEF RowsBelong
  <2>7. RowsHaveAccounts'
    <3> SUFFICES ASSUME NEW v \in Uploads, NEW t \in rows'[v], row'[v][t] = "none",
                        pc'[v] \in {"accounts", "commit"}
                 PROVE  Has(t)'
      BY DEF RowsHaveAccounts
    <3>1. t \in Students
      BY <2>4 DEF TypeOK
    <3>2. v # u
      BY <2>3, <2>5, <3>1
    <3> QED
      BY <1>2, <1>5, <2>5, <3>1, <3>2 DEF RowsHaveAccounts
  <2>8. AccountIsKept'
    BY <1>5, <2>2 DEF AccountIsKept, Has
  <2>9. InvitedIsMailed'
    BY <2>2 DEF InvitedIsMailed
  <2> QED
    BY <2>4, <2>6, <2>7, <2>8, <2>9
<1>7. CASE CommitRows(u)
  <2>1. /\ pc[u] = "commit" /\ next = "audit" /\ account' = account
        /\ rows' = rows /\ seen' = seen /\ missing' = missing /\ row' = row
        /\ doc' = [s \in Students |->
               IF s \in missing[u] THEN [doc[s] EXCEPT !.status = "inactive"]
               ELSE IF s \in rows[u] THEN [status |-> StatusSeen(u, s), deleted |-> FALSE]
               ELSE doc[s]]
        /\ mailed' = mailed \cup Onboarded(u)
    BY <1>1, <1>7 DEF CommitRows, Goto, TypeOK
  <2>2. ASSUME NEW s \in Students
        PROVE  /\ doc'[s] \in Document \cup {None}
               /\ doc[s] # None => doc'[s] # None
               /\ doc'[s] # None => doc[s] # None \/ s \in rows[u]
               /\ doc'[s] # None /\ doc'[s].status = "invited" => s \in mailed'
    <3>1. doc[s] \in Document \cup {None} /\ seen[u][s] \in Document \cup {None}
      BY DEF TypeOK
    <3>2. CASE s \in missing[u]
      <4>1. doc[s] \in Document
        BY <3>1, <3>2 DEF RowsBelong
      <4>2. doc'[s] = [doc[s] EXCEPT !.status = "inactive"]
        BY <2>1, <3>2
      <4>3. doc'[s] \in Document /\ doc'[s].status = "inactive"
        BY <4>1, <4>2 DEF Document, Statuses
      <4> QED
        BY <4>1, <4>3, RosterAssumption
    <3>3. CASE s \notin missing[u] /\ s \in rows[u]
      <4>1. doc'[s] = [status |-> StatusSeen(u, s), deleted |-> FALSE]
        BY <2>1, <3>3
      <4>2. StatusSeen(u, s) \in Statuses
        BY <3>1 DEF StatusSeen, Document, Statuses
      <4>3. doc'[s] \in Document /\ doc'[s].status = StatusSeen(u, s)
        BY <4>1, <4>2 DEF Document
      <4>4. StatusSeen(u, s) = "invited" => s \in mailed'
        BY <2>1, <3>3 DEF Onboarded
      <4> QED
        BY <3>3, <4>3, <4>4, RosterAssumption
    <3>4. CASE s \notin missing[u] /\ s \notin rows[u]
      BY <2>1, <3>1, <3>4 DEF InvitedIsMailed
    <3> QED
      BY <3>2, <3>3, <3>4
  <2>3. mailed' \in SUBSET Students
    BY <2>1 DEF Onboarded, TypeOK
  <2>4. TypeOK'
    <3>1. doc' \in [Students -> Document \cup {None}]
      BY <2>1, <2>2
    <3> QED
      BY <1>2, <1>3, <2>1, <2>3, <3>1 DEF TypeOK
  <2>5. RowsBelong'
    <3>1. \A v \in Uploads : \A s \in missing[v] : doc'[s] # None
      BY <2>2 DEF RowsBelong, TypeOK
    <3> QED
      BY <1>2, <1>3, <2>1, <3>1 DEF RowsBelong
  <2>6. RowsHaveAccounts'
    BY <1>2, <1>5, <2>1 DEF RowsHaveAccounts, TypeOK
  <2>7. AccountIsKept'
    <3> SUFFICES ASSUME NEW s \in Students, doc'[s] # None PROVE Has(s)'
      BY DEF AccountIsKept, Has
    <3>1. CASE doc[s] # None
      BY <1>5, <3>1 DEF AccountIsKept, Has
    <3>2. CASE s \in rows[u]
      <4>1. row[u][s] \in RowSteps
        BY DEF TypeOK
      <4>2. row[u][s] \notin {"get", "update", "create", "claim", "clear"}
        BY <2>1 DEF RowsBelong
      <4>3. row[u][s] = "none"
        BY <4>1, <4>2 DEF RowSteps
      <4> QED
        BY <1>5, <2>1, <3>2, <4>3 DEF RowsHaveAccounts
    <3> QED
      BY <2>2, <3>1, <3>2
  <2>8. InvitedIsMailed'
    BY <2>2 DEF InvitedIsMailed
  <2> QED
    BY <2>4, <2>5, <2>6, <2>7, <2>8
<1>8. CASE LogImport(u) \/ Crash(u)
  <2>1. /\ doc' = doc /\ account' = account /\ mailed' = mailed
        /\ rows' = rows /\ seen' = seen /\ missing' = missing
        /\ next \in {"clear", "failed"}
    BY <1>1, <1>8 DEF LogImport, Crash, Goto, TypeOK
  <2>2. PICK steps \in [Students -> {"clear", "none"}] :
            /\ row' = [row EXCEPT ![u] = steps]
            /\ \A s \in Students : steps[s] = "clear" => s \in missing[u]
    <3>1. CASE LogImport(u)
      <4> DEFINE steps == [s \in Students |-> IF s \in missing[u] THEN "clear" ELSE "none"]
      <4>1. steps \in [Students -> {"clear", "none"}]
        OBVIOUS
      <4>2. row' = [row EXCEPT ![u] = steps]
        BY <3>1 DEF LogImport
      <4> QED
        BY <4>1, <4>2
    <3>2. CASE Crash(u)
      <4> DEFINE steps == [s \in Students |-> "none"]
      <4>1. steps \in [Students -> {"clear", "none"}]
        OBVIOUS
      <4>2. row' = [row EXCEPT ![u] = steps]
        BY <3>2 DEF Crash
      <4> QED
        BY <4>1, <4>2
    <3> QED
      BY <1>8, <3>1, <3>2
  <2>3. \A v \in Uploads : row'[v] = IF v = u THEN steps ELSE row[v]
    BY <2>2 DEF TypeOK
  <2>4. TypeOK'
    <3>1. steps \in [Students -> RowSteps]
      BY DEF RowSteps
    <3> QED
      BY <1>2, <1>3, <2>1, <2>2, <3>1 DEF TypeOK
  <2>5. RowsBelong'
    BY <1>2, <1>3, <2>1, <2>2, <2>3 DEF RowsBelong
  <2>6. RowsHaveAccounts'
    <3> SUFFICES ASSUME NEW v \in Uploads, NEW t \in rows[v], row'[v][t] = "none",
                        pc'[v] \in {"accounts", "commit"}
                 PROVE  Has(t)'
      BY <2>1 DEF RowsHaveAccounts
    <3>1. t \in Students /\ v # u
      BY <1>2, <2>1 DEF TypeOK
    <3> QED
      BY <1>2, <1>5, <2>3, <3>1 DEF RowsHaveAccounts
  <2>7. AccountIsKept' /\ InvitedIsMailed'
    BY <1>5, <2>1 DEF AccountIsKept, Has, InvitedIsMailed
  <2> QED
    BY <2>4, <2>5, <2>6, <2>7
<1>9. CASE AccountsDone(u) \/ CommitFails(u) \/ Undo(u) \/ UploadDone(u)
  <2>1. /\ doc' = doc /\ mailed' = mailed /\ row' = row
        /\ rows' = rows /\ seen' = seen /\ missing' = missing
        /\ pc[u] # "idle"
    BY <1>9 DEF AccountsDone, CommitFails, Undo, UploadDone
  <2>2. account' \in [Students -> {"absent", "bare", "student"}]
    BY <1>9 DEF AccountsDone, CommitFails, Undo, UploadDone, TypeOK
  <2>3. TypeOK'
    BY <1>2, <1>3, <2>1, <2>2 DEF TypeOK
  <2>4. /\ next \in {"accounts", "commit"} => pc[u] = "accounts"
        /\ next \in {"commit", "done"} => RowsDone(u)
        /\ next \notin {"commit", "done"} => next \in {"undo", "failed"} /\ pc[u] # "clear"
    <3>1. pc'[u] = next
      BY <1>2
    <3> QED
      BY <1>9, <3>1 DEF AccountsDone, CommitFails, Undo, UploadDone, Goto, TypeOK
  <2>5. RowsBelong'
    <3> SUFFICES ASSUME NEW v \in Uploads, NEW s \in Students
                 PROVE  /\ row[v][s] \in {"get", "update", "create", "claim"} =>
                               s \in rows[v] /\ pc'[v] \in {"accounts", "undo", "failed"}
                        /\ row[v][s] = "clear" => s \in missing[v] /\ pc'[v] \in {"clear", "failed"}
      BY <1>2, <1>3, <2>1 DEF RowsBelong
    <3>1. CASE v # u
      BY <1>2, <3>1 DEF RowsBelong
    <3>2. CASE v = u /\ row[v][s] = "clear"
      BY <1>2, <1>4, <2>4, <3>2 DEF RowsBelong, RowsDone
    <3>3. CASE v = u /\ row[v][s] # "clear"
      BY <1>2, <2>4, <3>3 DEF RowsBelong, RowsDone
    <3> QED
      BY <3>1, <3>2, <3>3
  <2>6. RowsHaveAccounts'
    <3> SUFFICES ASSUME NEW v \in Uploads, NEW t \in rows[v], row[v][t] = "none",
                        pc'[v] \in {"accounts", "commit"}
                 PROVE  Has(t)'
      BY <2>1 DEF RowsHaveAccounts
    <3>1. t \in Students
      BY DEF TypeOK
    <3>2. pc[v] \in {"accounts", "commit"}
      BY <1>2, <2>4
    <3> QED
      BY <1>5, <3>1, <3>2 DEF RowsHaveAccounts
  <2>7. AccountIsKept' /\ InvitedIsMailed'
    BY <1>5, <2>1 DEF AccountIsKept, Has, InvitedIsMailed
  <2> QED
    BY <2>3, <2>5, <2>6, <2>7
<1> QED
  BY <1>6, <1>7, <1>8, <1>9 DEF Upload

(* A first login, or a soft delete.                                         *)
LEMMA StudentKeeps ==
    ASSUME RosterInv, NEW s \in Students, Student(s), disturbed' \in SUBSET Students
    PROVE  RosterInv'
<1> USE DEF RosterInv
<1>1. /\ mailed' = mailed /\ pc' = pc /\ rows' = rows /\ seen' = seen
      /\ missing' = missing /\ row' = row /\ created' = created
  BY DEF Student, ActivateInvited, SoftDelete, FinishDelete, uploadVars
<1>2. /\ doc' \in [Students -> Document \cup {None}]
      /\ \A t \in Students : doc'[t] # None <=> doc[t] # None
      /\ \A t \in Students : doc'[t] # None /\ doc'[t].status = "invited" =>
                               doc[t].status = "invited"
  <2>1. CASE ActivateInvited(s)
    <3> DEFINE new == [doc[s] EXCEPT !.status = "active"]
    <3>1. doc[s] \in Document /\ doc[s] # None
      BY <2>1 DEF ActivateInvited, TypeOK
    <3>2. new \in Document /\ new.status = "active" /\ new # None
      BY <3>1, RosterAssumption DEF Document, Statuses
    <3>3. doc' = [doc EXCEPT ![s] = new]
      BY <2>1 DEF ActivateInvited
    <3> HIDE DEF new
    <3> QED
      BY <3>1, <3>2, <3>3 DEF TypeOK
  <2>2. CASE SoftDelete(s)
    <3> DEFINE new == [doc[s] EXCEPT !.deleted = TRUE]
    <3>1. doc[s] \in Document /\ doc[s] # None
      BY <2>2 DEF SoftDelete, TypeOK
    <3>2. new \in Document /\ new.status = doc[s].status /\ new # None
      BY <3>1, RosterAssumption DEF Document, Statuses
    <3>3. doc' = [doc EXCEPT ![s] = new]
      BY <2>2 DEF SoftDelete
    <3> HIDE DEF new
    <3> QED
      BY <3>1, <3>2, <3>3 DEF TypeOK
  <2>3. CASE FinishDelete(s)
    BY <2>3 DEF FinishDelete, TypeOK
  <2> QED
    BY <2>1, <2>2, <2>3 DEF Student
<1>3. /\ account' \in [Students -> {"absent", "bare", "student"}]
      /\ \A t \in Students : account'[t] = "absent" <=> account[t] = "absent"
  BY DEF Student, ActivateInvited, SoftDelete, FinishDelete, CutOff, TypeOK
<1>4. cutting' \in SUBSET Students
  BY DEF Student, ActivateInvited, SoftDelete, FinishDelete, TypeOK
<1>5. TypeOK'
  BY <1>1, <1>2, <1>3, <1>4 DEF TypeOK
<1>6. RowsBelong'
  BY <1>1, <1>2 DEF RowsBelong, TypeOK
<1>7. \A t \in Students : Has(t)' <=> Has(t)
  BY <1>1, <1>3 DEF Has
<1>8. RowsHaveAccounts'
  BY <1>1, <1>7 DEF RowsHaveAccounts, TypeOK
<1>9. AccountIsKept'
  BY <1>2, <1>7 DEF AccountIsKept, Has
<1>10. InvitedIsMailed'
  BY <1>1, <1>2 DEF InvitedIsMailed
<1> QED
  BY <1>5, <1>6, <1>8, <1>9, <1>10

(* Every step keeps the invariant of the roster.                           *)
LEMMA RosterStep == RosterInv /\ [Next]_vars => RosterInv'
<1> SUFFICES ASSUME RosterInv, [Next]_vars PROVE RosterInv'
  OBVIOUS
<1>1. CASE UNCHANGED vars
  BY <1>1 DEF vars, uploadVars, RosterInv, TypeOK, RowsBelong, RowsHaveAccounts, Has,
              AccountIsKept, InvitedIsMailed
<1>2. CASE Next
  <2>1. disturbed' \in SUBSET Students
    BY <1>2 DEF Next, Contested, Abandoned, RosterInv, TypeOK
  <2> QED
    BY <1>2, <2>1, AccountKeeps, UploadKeeps, StudentKeeps DEF Next, Step
<1> QED
  BY <1>1, <1>2

(* The inductive invariant of the roster.                                   *)
THEOREM RosterInvariant == Spec => []RosterInv
  BY RosterInit, RosterStep, PTL DEF Spec

(* Roster is type correct for any students and uploads.                     *)
THEOREM TypeCorrect == Spec => []TypeOK
<1>1. RosterInv => TypeOK
  BY DEF RosterInv
<1> QED
  BY <1>1, RosterInvariant, PTL

(* A student on the roster has an account, unless the upload that created it *)
(* has failed and taken it back.                                            *)
THEOREM AccountIsKeptAlways == Spec => []AccountIsKept
<1>1. RosterInv => AccountIsKept
  BY DEF RosterInv
<1> QED
  BY <1>1, RosterInvariant, PTL

(* A student left invited has been sent the mail to log in with.            *)
THEOREM InvitedIsMailedAlways == Spec => []InvitedIsMailed
<1>1. RosterInv => InvitedIsMailed
  BY DEF RosterInv
<1> QED
  BY <1>1, RosterInvariant, PTL

-----------------------------------------------------------------------------
(* The account of one student. Whoever is at work on an undisturbed student   *)
(* is alone; a row the upload is done with has a student's claims, and stays *)
(* on the roster; a student the upload deactivates was not deleted.         *)
Alone(s) == \A u \in Uploads : s \in AtWork(u) =>
                s \notin cutting /\ \A v \in Uploads : s \in AtWork(v) => v = u

Agrees(s) ==
    doc[s] # None =>
        /\ doc[s].deleted => account[s] # "student"
        /\ ~doc[s].deleted /\ doc[s].status # "inactive" => account[s] = "student"

RowIsServed(u, s) ==
    s \in rows[u] \ missing[u] =>
        /\ pc[u] \in {"accounts", "commit"} /\ row[u][s] = "none" => account[s] = "student"
        /\ pc[u] \in {"audit", "clear"} =>
               doc[s] # None /\ ~doc[s].deleted /\ account[s] = "student"

MissingIsCut(u, s) ==
    s \in missing[u] =>
        /\ pc[u] \in {"accounts", "commit", "audit", "clear"} =>
               doc[s] # None /\ ~doc[s].deleted
        /\ pc[u] \in {"audit", "clear"} => doc[s].status = "inactive"

StudentInv(s) ==
    /\ Alone(s)
    /\ \A u \in Uploads : pc[u] = "failed" => s \notin rows[u] \cup missing[u]
    /\ s \in cutting => doc[s] # None /\ doc[s].deleted
    /\ Settled(s) => Agrees(s)
    /\ \A u \in Uploads : RowIsServed(u, s) /\ MissingIsCut(u, s)

AccessInv == \A s \in Students \ disturbed : StudentInv(s)

(* Every student starts with the access of the roster.                     *)
LEMMA AccessInit == Init => AccessInv
<1> SUFFICES ASSUME Init, NEW s \in Students PROVE StudentInv(s)
  BY DEF AccessInv
<1>1. /\ \A u \in Uploads : pc[u] = "idle" /\ rows[u] = {} /\ missing[u] = {}
      /\ cutting = {}
  BY DEF Init
<1>2. Alone(s)
  BY <1>1 DEF Alone, AtWork
<1>3. Agrees(s)
  BY DEF Init, Agrees
<1> QED
  BY <1>1, <1>2, <1>3 DEF StudentInv, RowIsServed, MissingIsCut

(* Who is at work on a student: an upload under way that names the student   *)
(* or deactivates it, or one whose call for the student is under way.       *)
LEMMA AtWorkNow ==
    ASSUME RosterInv, NEW u \in Uploads, NEW s \in Students
    PROVE  /\ pc[u] \in {"accounts", "commit", "audit", "clear", "undo"}
                  /\ s \in rows[u] \cup missing[u] => s \in AtWork(u)
           /\ row[u][s] # "none" => s \in AtWork(u)
           /\ s \in AtWork(u) =>
                  s \in rows[u] \cup missing[u] /\ pc[u] \notin {"idle", "done"}
<1>1. row[u][s] # "none" => s \in rows[u] \cup missing[u] /\ pc[u] \notin {"idle", "done"}
  BY DEF RosterInv, RowsBelong, TypeOK, RowSteps
<1>2. pc[u] \in {"idle", "done"} => RowsDone(u)
  BY DEF RosterInv, RowsBelong, TypeOK, RowSteps, RowsDone
<1> QED
  BY <1>1, <1>2 DEF AtWork, Running, RowsDone

(* Another student's account is worked on, or this one's: by the only upload *)
(* that may.                                                                *)
LEMMA AccessAccount ==
    ASSUME RosterInv, RosterInv', NEW s \in Students, StudentInv(s), Alone(s)',
           NEW u \in Uploads, NEW t \in Students, Account(u, t), s \notin Abandoned
    PROVE  StudentInv(s)'
<1>1. /\ doc' = doc /\ cutting' = cutting /\ rows' = rows /\ missing' = missing
      /\ row[u][t] # "none"
  BY AccountShape DEF RosterInv
<1>2. \A v \in Uploads : pc'[v] = "failed" => s \notin rows[v] \cup missing[v]
  BY DEF Abandoned
<1>3. \A v \in Uploads : /\ v # u => pc'[v] = pc[v]
                         /\ pc'[v] \notin {"undo", "failed"} => pc'[v] = pc[v]
  <2>1. pc \in [Uploads -> {"idle", "accounts", "commit", "audit", "clear",
                            "undo", "done", "failed"}]
    BY DEF RosterInv, TypeOK
  <2>2. \/ pc' = pc \/ pc' = [pc EXCEPT ![u] = "undo"] \/ pc' = [pc EXCEPT ![u] = "failed"]
    BY AccountShape DEF RosterInv
  <2> QED
    BY <2>1, <2>2
<1>4. PICK next \in {"none", "update", "create", "claim"} : row' = [row EXCEPT ![u][t] = next]
  BY AccountShape DEF RosterInv
<1>5. \A v \in Uploads, x \in Students :
          row'[v][x] = IF v = u /\ x = t THEN next ELSE row[v][x]
  BY <1>4 DEF RosterInv, TypeOK
<1>6. /\ \A x \in Students : x # t => account'[x] = account[x]
      /\ \/ account'[t] = account[t]
         \/ account[t] = "absent"
         \/ account'[t] = "student"
         \/ row[u][t] = "clear" /\ account'[t] = "bare"
  <2>1. account \in [Students -> {"absent", "bare", "student"}]
    BY DEF RosterInv, TypeOK
  <2>2. \/ account' = account
        \/ account[t] = "absent" /\ account' = [account EXCEPT ![t] = "bare"]
        \/ account' = [account EXCEPT ![t] = "student"]
        \/ row[u][t] = "clear" /\ account' = [account EXCEPT ![t] = "bare"]
    BY AccountShape DEF RosterInv
  <2> QED
    BY <2>1, <2>2
<1>7. CASE s # t
  <2>1. /\ account'[s] = account[s]
        /\ \A v \in Uploads : row'[v][s] = row[v][s]
    BY <1>5, <1>6, <1>7
  <2>2. \A v \in Uploads : RowIsServed(v, s)' /\ MissingIsCut(v, s)'
    BY <1>1, <1>3, <2>1 DEF StudentInv, RowIsServed, MissingIsCut
  <2>3. Settled(s)' => Agrees(s)'
    <3>1. CASE Settled(s)
      BY <1>1, <2>1, <3>1 DEF StudentInv, Agrees
    <3>2. CASE ~Settled(s) /\ s \in cutting
      BY <1>1, <3>2 DEF Settled
    <3>3. ASSUME NEW v \in Uploads, s \in AtWork(v)
          PROVE  ~Settled(s)'
      <4>1. s \in rows[v] \cup missing[v] /\ pc[v] \notin {"idle", "done"}
        BY <3>3, AtWorkNow
      <4>2. pc[v] # "failed"
        BY <4>1 DEF StudentInv
      <4>3. pc'[v] # "failed"
        BY <1>2, <4>1
      <4>4. pc'[v] \in {"accounts", "commit", "audit", "clear", "undo"}
        BY <1>3, <4>1, <4>2, <4>3 DEF RosterInv, TypeOK
      <4>5. s \in AtWork(v)'
        BY <1>1, <4>1, <4>4 DEF AtWork, Running
      <4> QED
        BY <4>5 DEF Settled
    <3> QED
      BY <3>1, <3>2, <3>3 DEF Settled
  <2> QED
    BY <1>1, <1>2, <2>2, <2>3 DEF StudentInv
<1>8. CASE s = t
  <2>1. s \in AtWork(u)
    BY <1>1, <1>8, AtWorkNow
  <2>2. s \in rows[u] \cup missing[u] /\ pc[u] \notin {"idle", "done", "failed"}
    BY <2>1, AtWorkNow DEF StudentInv
  <2>3. \A v \in Uploads : v # u => s \notin AtWork(v)
    BY <2>1 DEF StudentInv, Alone
  <2>4. \A v \in Uploads : v # u => RowIsServed(v, s)' /\ MissingIsCut(v, s)'
    <3> SUFFICES ASSUME NEW v \in Uploads, v # u
                 PROVE  RowIsServed(v, s)' /\ MissingIsCut(v, s)'
      OBVIOUS
    <3>1. s \in rows[v] \cup missing[v] => pc[v] \notin {"accounts", "commit", "audit", "clear"}
      BY <2>3, AtWorkNow
    <3> QED
      BY <1>1, <1>3, <3>1 DEF RowIsServed, MissingIsCut
  <2>5. MissingIsCut(u, s)'
    BY <1>1, <1>3 DEF StudentInv, MissingIsCut
  <2>6. RowIsServed(u, s)'
    <3> SUFFICES ASSUME s \in rows[u] \ missing[u]
                 PROVE  /\ pc'[u] \in {"accounts", "commit"} /\ row'[u][s] = "none" =>
                               account'[s] = "student"
                        /\ pc'[u] \notin {"audit", "clear"}
      BY <1>1 DEF RowIsServed
    <3>1. row[u][s] \in {"get", "update", "create", "claim"}
      BY <1>1, <1>8 DEF RosterInv, RowsBelong, TypeOK, RowSteps
    <3>2. pc[u] \in {"accounts", "undo"}
      BY <2>2, <3>1 DEF RosterInv, RowsBelong
    <3>3. pc'[u] \notin {"audit", "clear"}
      BY <1>3, <3>2
    <3>4. ASSUME pc'[u] \in {"accounts", "commit"}, row'[u][s] = "none"
          PROVE  account'[s] = "student"
      <4>1. pc[u] = "accounts" /\ pc'[u] = pc[u]
        BY <1>3, <3>2, <3>4
      <4>2. row'[u][t] = "none"
        BY <1>8, <3>4
      <4>3. pc' # [pc EXCEPT ![u] = "undo"] /\ pc' # [pc EXCEPT ![u] = "failed"]
        BY <4>1 DEF RosterInv, TypeOK
      <4>4. account'[t] = "student" \/ row[u][t] = "clear"
        BY <4>1, <4>2, <4>3, AccountShape DEF RosterInv
      <4> QED
        BY <1>8, <3>1, <4>4
    <3> QED
      BY <3>3, <3>4
  <2>7. ~Settled(s)'
    <3>1. pc'[u] # "failed"
      BY <1>2, <2>2
    <3>2. pc'[u] \in {"accounts", "commit", "audit", "clear", "undo"}
      BY <1>3, <2>2, <3>1 DEF RosterInv, TypeOK
    <3>3. s \in AtWork(u)'
      BY <1>1, <2>2, <3>2 DEF AtWork, Running
    <3> QED
      BY <3>3 DEF Settled
  <2> QED
    BY <1>1, <1>2, <2>4, <2>5, <2>6, <2>7 DEF StudentInv
<1> QED
  BY <1>7, <1>8

(* An upload goes on as a whole, for a student it is not about: nothing      *)
(* changes.                                                                 *)
LEMMA AccessUnnamed ==
    ASSUME RosterInv, NEW s \in Students, StudentInv(s), Alone(s)',
           NEW u \in Uploads, s \notin AtWork(u), s \notin rows'[u] \cup missing'[u],
           doc'[s] = doc[s], account'[s] = account[s], cutting' = cutting,
           \A v \in Uploads : v # u =>
               /\ pc'[v] = pc[v] /\ row'[v] = row[v]
               /\ rows'[v] = rows[v] /\ missing'[v] = missing[v]
    PROVE  StudentInv(s)'
<1>1. \A v \in Uploads : v # u => (s \in AtWork(v)' <=> s \in AtWork(v))
  BY DEF AtWork, Running, RowsDone
<1>2. Settled(s)' => Settled(s)
  BY <1>1 DEF Settled
<1>3. Settled(s)' => Agrees(s)'
  BY <1>2 DEF StudentInv, Agrees
<1>4. \A v \in Uploads : RowIsServed(v, s)' /\ MissingIsCut(v, s)'
  BY DEF StudentInv, RowIsServed, MissingIsCut
<1>5. \A v \in Uploads : pc'[v] = "failed" => s \notin rows'[v] \cup missing'[v]
  BY DEF StudentInv
<1> QED
  BY <1>3, <1>4, <1>5 DEF StudentInv

(* An upload goes on as a whole, for a student it is about: nobody else is.  *)
LEMMA AccessNamed ==
    ASSUME RosterInv, NEW s \in Students, StudentInv(s), Alone(s)',
           NEW u \in Uploads, s \in rows'[u] \cup missing'[u],
           s \in AtWork(u) \/ s \in AtWork(u)',
           pc'[u] # "failed",
           RowIsServed(u, s)', MissingIsCut(u, s)',
           s \in AtWork(u)' \/ Agrees(s)',
           cutting' = cutting,
           \A v \in Uploads : v # u =>
               /\ pc'[v] = pc[v] /\ row'[v] = row[v]
               /\ rows'[v] = rows[v] /\ missing'[v] = missing[v]
    PROVE  StudentInv(s)'
<1>1. \A v \in Uploads : v # u => (s \in AtWork(v)' <=> s \in AtWork(v))
  BY DEF AtWork, Running, RowsDone
<1>2. s \notin cutting /\ \A v \in Uploads : v # u => s \notin AtWork(v)
  BY <1>1 DEF StudentInv, Alone
<1>3. \A v \in Uploads : v # u /\ s \in rows[v] \cup missing[v] =>
          pc[v] \notin {"accounts", "commit", "audit", "clear"}
  BY <1>2, AtWorkNow
<1>4. \A v \in Uploads : v # u => RowIsServed(v, s)' /\ MissingIsCut(v, s)'
  BY <1>3 DEF RowIsServed, MissingIsCut
<1>5. \A v \in Uploads : pc'[v] = "failed" => s \notin rows'[v] \cup missing'[v]
  BY DEF StudentInv
<1>6. Settled(s)' => Agrees(s)'
  BY DEF Settled
<1> QED
  BY <1>2, <1>4, <1>5, <1>6 DEF StudentInv

(* A step of an upload keeps the access of a student it is alone with.     *)
LEMMA AccessUpload ==
    ASSUME RosterInv, NEW s \in Students, StudentInv(s), Alone(s)',
           NEW u \in Uploads, Upload(u), s \notin Abandoned
    PROVE  StudentInv(s)'
<1> DEFINE Others == \A v \in Uploads : v # u =>
               /\ pc'[v] = pc[v] /\ row'[v] = row[v]
               /\ rows'[v] = rows[v] /\ missing'[v] = missing[v]
           Named == rows[u] \cup missing[u]
<1>1. CASE Ingest(u)
  <2>1. PICK named \in SUBSET Students \ {{}}, d \in BOOLEAN : IngestStudents(u, named, d)
    BY <1>1 DEF Ingest
  <2> DEFINE cands == IF d THEN Candidates(named) ELSE {}
  <2>2. /\ doc' = doc /\ account' = account /\ cutting' = cutting
        /\ pc[u] = "idle" /\ pc'[u] = "accounts"
        /\ rows'[u] = named /\ missing'[u] = cands
        /\ row'[u][s] = IF s \in named THEN "get" ELSE "none"
        /\ Others
    BY <2>1 DEF IngestStudents, Goto, RosterInv, TypeOK
  <2>3. s \notin AtWork(u)
    BY <2>2, AtWorkNow
  <2>4. CASE s \in named \cup cands
    <3>1. s \in AtWork(u)'
      BY <2>2, <2>4 DEF AtWork, Running
    <3>2. RowIsServed(u, s)'
      BY <2>2 DEF RowIsServed
    <3>3. s \in cands => doc[s] # None /\ ~doc[s].deleted
      BY DEF Candidates
    <3>4. MissingIsCut(u, s)'
      BY <2>2, <3>3 DEF MissingIsCut
    <3> QED
      BY <2>2, <2>4, <3>1, <3>2, <3>4, AccessNamed
  <2>5. CASE s \notin named \cup cands
    BY <2>2, <2>3, <2>5, AccessUnnamed
  <2> QED
    BY <2>4, <2>5
<1>2. CASE ~Ingest(u)
  <2>1. /\ cutting' = cutting /\ rows' = rows /\ missing' = missing
        /\ pc[u] \notin {"idle", "done"}
        /\ Others
    BY <1>2 DEF Upload, AccountsDone, CommitRows, LogImport, CommitFails, Undo, UploadDone, Crash,
                Goto, RosterInv, TypeOK
  <2>2. pc'[u] = "failed" => s \notin Named
    BY DEF Abandoned
  <2>3. CASE s \notin Named
    <3>1. doc'[s] = doc[s]
      BY <1>2, <2>3 DEF Upload, AccountsDone, CommitRows, LogImport, CommitFails, Undo,
                        UploadDone, Crash
    <3>2. account'[s] = account[s]
      <4>1. CASE Undo(u)
        <5>1. s \notin created[u]
          BY <2>3 DEF RosterInv, RowsBelong
        <5> QED
          BY <4>1, <5>1 DEF Undo, ToUndo
      <4>2. CASE account' = account
        BY <4>2
      <4> QED
        BY <1>2, <4>1, <4>2 DEF Upload, AccountsDone, CommitRows, LogImport, CommitFails,
                                UploadDone, Crash
    <3>3. s \notin AtWork(u)
      BY <2>3, AtWorkNow
    <3> QED
      BY <2>1, <2>3, <3>1, <3>2, <3>3, AccessUnnamed
  <2>4. CASE s \in Named
    <3>1. pc'[u] # "failed" /\ pc[u] # "failed"
      BY <2>2, <2>4 DEF StudentInv
    <3>2. pc[u] \in {"accounts", "commit", "audit", "clear", "undo"}
      BY <2>1, <3>1 DEF RosterInv, TypeOK
    <3>3. s \in AtWork(u)
      BY <2>4, <3>2, AtWorkNow
    <3>4. RowIsServed(u, s) /\ MissingIsCut(u, s)
      BY DEF StudentInv
    <3>5. CASE AccountsDone(u)
      <4>1. /\ pc[u] = "accounts" /\ pc'[u] = "commit" /\ doc' = doc /\ account' = account
            /\ row[u][s] = "none" /\ row' = row
        BY <3>5 DEF AccountsDone, RowsDone, Goto, RosterInv, TypeOK
      <4>2. s \in AtWork(u)'
        BY <2>1, <2>4, <4>1 DEF AtWork, Running
      <4>3. RowIsServed(u, s)' /\ MissingIsCut(u, s)'
        BY <2>1, <3>4, <4>1 DEF RowIsServed, MissingIsCut
      <4> QED
        BY <2>1, <2>4, <3>1, <4>2, <4>3, AccessNamed
    <3>6. CASE CommitRows(u)
      <4>1. /\ pc[u] = "commit" /\ pc'[u] = "audit" /\ account' = account /\ row' = row
            /\ s \in missing[u] => doc'[s] = [doc[s] EXCEPT !.status = "inactive"]
            /\ s \in rows[u] \ missing[u] =>
                   doc'[s] = [status |-> StatusSeen(u, s), deleted |-> FALSE]
        BY <3>6 DEF CommitRows, Goto, RosterInv, TypeOK
      <4>2. s \in AtWork(u)'
        BY <2>1, <2>4, <4>1 DEF AtWork, Running
      <4>3. row[u][s] = "none"
        <5>1. row[u][s] \in RowSteps
          BY DEF RosterInv, TypeOK
        <5>2. pc[u] = "commit"
          BY <4>1
        <5> QED
          BY <5>1, <5>2 DEF RosterInv, RowsBelong, RowSteps
      <4>4. RowIsServed(u, s)'
        <5> SUFFICES ASSUME s \in rows[u] \ missing[u]
                     PROVE  doc'[s] # None /\ ~doc'[s].deleted /\ account[s] = "student"
          BY <2>1, <4>1 DEF RowIsServed
        <5>1. StatusSeen(u, s) \in Statuses
          <6>1. seen[u][s] \in Document \cup {None}
            BY DEF RosterInv, TypeOK
          <6> QED
            BY <6>1 DEF StatusSeen, Document, Statuses
        <5>2. doc'[s] \in Document /\ ~doc'[s].deleted
          <6>1. doc'[s] = [status |-> StatusSeen(u, s), deleted |-> FALSE]
            BY <4>1
          <6> QED
            BY <5>1, <6>1 DEF Document
        <5> QED
          BY <3>4, <4>1, <4>3, <5>2, RosterAssumption DEF RowIsServed
      <4>5. MissingIsCut(u, s)'
        <5> SUFFICES ASSUME s \in missing[u]
                     PROVE  doc'[s] # None /\ ~doc'[s].deleted /\ doc'[s].status = "inactive"
          BY <2>1, <4>1 DEF MissingIsCut
        <5>1. doc[s] # None /\ ~doc[s].deleted /\ doc[s] \in Document
          BY <3>4, <4>1 DEF MissingIsCut, RosterInv, TypeOK
        <5>2. doc'[s] \in Document /\ ~doc'[s].deleted /\ doc'[s].status = "inactive"
          BY <4>1, <5>1 DEF Document, Statuses
        <5> QED
          BY <5>2, RosterAssumption
      <4> QED
        BY <2>1, <2>4, <3>1, <4>2, <4>4, <4>5, AccessNamed
    <3>7. CASE LogImport(u)
      <4>1. pc[u] = "audit" /\ pc'[u] = "clear" /\ doc' = doc /\ account' = account
        BY <3>7 DEF LogImport, Goto, RosterInv, TypeOK
      <4>2. s \in AtWork(u)'
        BY <2>1, <2>4, <4>1 DEF AtWork, Running
      <4>3. RowIsServed(u, s)' /\ MissingIsCut(u, s)'
        BY <2>1, <3>4, <4>1 DEF RowIsServed, MissingIsCut
      <4> QED
        BY <2>1, <2>4, <3>1, <4>2, <4>3, AccessNamed
    <3>8. CASE CommitFails(u)
      <4>1. pc'[u] = "undo" /\ doc' = doc /\ account' = account
        BY <3>8 DEF CommitFails, Goto, RosterInv, TypeOK
      <4>2. s \in AtWork(u)'
        BY <2>1, <2>4, <4>1 DEF AtWork, Running
      <4>3. RowIsServed(u, s)' /\ MissingIsCut(u, s)'
        BY <4>1 DEF RowIsServed, MissingIsCut
      <4> QED
        BY <2>1, <2>4, <3>1, <4>2, <4>3, AccessNamed
    <3>9. CASE UploadDone(u)
      <4>1. /\ pc[u] = "clear" /\ pc'[u] = "done" /\ doc' = doc /\ account' = account
        BY <3>9 DEF UploadDone, Goto, RosterInv, TypeOK
      <4>2. RowIsServed(u, s)' /\ MissingIsCut(u, s)'
        BY <4>1 DEF RowIsServed, MissingIsCut
      <4>3. Agrees(s)'
        BY <2>4, <3>4, <4>1 DEF RowIsServed, MissingIsCut, Agrees
      <4> QED
        BY <2>1, <2>4, <3>1, <3>3, <4>2, <4>3, AccessNamed
    <3>10. ~Undo(u) /\ ~Crash(u)
      BY <3>1 DEF Undo, Crash, Goto, RosterInv, TypeOK
    <3> QED
      BY <1>2, <3>5, <3>6, <3>7, <3>8, <3>9, <3>10 DEF Upload
  <2> QED
    BY <2>3, <2>4
<1> QED
  BY <1>1, <1>2

(* A student logs in for the first time, or is deleted.                     *)
LEMMA AccessStudent ==
    ASSUME RosterInv, NEW s \in Students, StudentInv(s), Alone(s)',
           NEW t \in Students, Student(t)
    PROVE  StudentInv(s)'
<1>1. pc' = pc /\ rows' = rows /\ missing' = missing /\ row' = row
  BY DEF Student, ActivateInvited, SoftDelete, FinishDelete, uploadVars
<1>2. \A u \in Uploads : s \in AtWork(u)' <=> s \in AtWork(u)
  BY <1>1 DEF AtWork, Running, RowsDone
<1>3. \A u \in Uploads : pc'[u] = "failed" => s \notin rows'[u] \cup missing'[u]
  BY <1>1 DEF StudentInv
<1>4. CASE t # s
  <2>1. /\ doc'[s] = doc[s] /\ account'[s] = account[s]
        /\ s \in cutting' <=> s \in cutting
    BY <1>4 DEF Student, ActivateInvited, SoftDelete, FinishDelete, CutOff, RosterInv, TypeOK
  <2>2. Settled(s)' => Agrees(s)'
    BY <1>2, <2>1 DEF Settled, Agrees, StudentInv
  <2>3. \A u \in Uploads : RowIsServed(u, s)' /\ MissingIsCut(u, s)'
    BY <1>1, <2>1 DEF StudentInv, RowIsServed, MissingIsCut
  <2> QED
    BY <1>3, <2>1, <2>2, <2>3 DEF StudentInv
<1>5. CASE ActivateInvited(s)
  <2>1. /\ account' = account /\ cutting' = cutting /\ account[s] = "student"
        /\ doc[s] # None /\ doc[s] \in Document /\ doc[s].status = "invited"
        /\ doc'[s] = [doc[s] EXCEPT !.status = "active"]
    BY <1>5 DEF ActivateInvited, RosterInv, TypeOK
  <2>2. doc'[s] \in Document /\ doc'[s].deleted = doc[s].deleted
    BY <2>1 DEF Document, Statuses
  <2>3. doc'[s] # None
    BY <2>2, RosterAssumption
  <2>4. Settled(s)' => Agrees(s)'
    BY <1>2, <2>1, <2>2 DEF Settled, Agrees, StudentInv
  <2>5. \A u \in Uploads : RowIsServed(u, s)' /\ MissingIsCut(u, s)'
    BY <1>1, <2>1, <2>2, <2>3 DEF StudentInv, RowIsServed, MissingIsCut
  <2> QED
    BY <1>3, <2>1, <2>2, <2>3, <2>4, <2>5 DEF StudentInv
<1>6. CASE SoftDelete(s)
  <2>1. /\ s \in cutting' /\ doc[s] \in Document
        /\ doc'[s] = [doc[s] EXCEPT !.deleted = TRUE]
    BY <1>6 DEF SoftDelete, RosterInv, TypeOK
  <2>2. doc'[s] \in Document /\ doc'[s].deleted
    BY <2>1 DEF Document
  <2>3. doc'[s] # None
    BY <2>2, RosterAssumption
  <2>4. \A u \in Uploads : s \notin AtWork(u)
    BY <1>2, <2>1 DEF Alone
  <2>5. \A u \in Uploads : s \in rows[u] \cup missing[u] =>
            pc[u] \notin {"accounts", "commit", "audit", "clear"}
    BY <2>4, AtWorkNow
  <2>6. \A u \in Uploads : RowIsServed(u, s)' /\ MissingIsCut(u, s)'
    BY <1>1, <2>5 DEF RowIsServed, MissingIsCut
  <2> QED
    BY <1>3, <2>1, <2>2, <2>3, <2>6 DEF StudentInv, Settled
<1>7. CASE FinishDelete(s)
  <2>1. /\ s \in cutting /\ doc' = doc /\ s \notin cutting'
        /\ account'[s] # "student"
    BY <1>7 DEF FinishDelete, CutOff, RosterInv, TypeOK
  <2>2. doc[s] # None /\ doc[s].deleted
    BY <2>1 DEF StudentInv
  <2>3. \A u \in Uploads : s \notin AtWork(u)
    BY <2>1 DEF StudentInv, Alone
  <2>4. \A u \in Uploads : s \in rows[u] \cup missing[u] =>
            pc[u] \notin {"accounts", "commit", "audit", "clear"}
    BY <2>3, AtWorkNow
  <2>5. \A u \in Uploads : RowIsServed(u, s)' /\ MissingIsCut(u, s)'
    BY <1>1, <2>4 DEF RowIsServed, MissingIsCut
  <2>6. Agrees(s)'
    BY <2>1, <2>2 DEF Agrees
  <2> QED
    BY <1>3, <2>1, <2>5, <2>6 DEF StudentInv
<1> QED
  BY <1>4, <1>5, <1>6, <1>7 DEF Student

(* Every step keeps the access of the students nobody disturbed.           *)
LEMMA AccessStep == RosterInv /\ RosterInv' /\ AccessInv /\ [Next]_vars => AccessInv'
<1> SUFFICES ASSUME RosterInv, RosterInv', AccessInv, [Next]_vars,
                    NEW s \in Students, s \notin disturbed'
             PROVE  StudentInv(s)'
  BY DEF AccessInv
<1>1. CASE UNCHANGED vars
  <2>1. StudentInv(s)
    BY <1>1 DEF vars, AccessInv
  <2> QED
    BY <1>1, <2>1 DEF vars, uploadVars, StudentInv, Alone, AtWork, Running, RowsDone, Settled, Agrees,
                      RowIsServed, MissingIsCut
<1>2. CASE Next
  <2>1. s \notin disturbed /\ s \notin Contested' /\ s \notin Abandoned
    BY <1>2 DEF Next
  <2>2. StudentInv(s)
    BY <2>1 DEF AccessInv
  <2>3. Alone(s)'
    BY <2>1 DEF Contested, Alone
  <2> QED
    BY <1>2, <2>1, <2>2, <2>3, AccessAccount, AccessUpload, AccessStudent DEF Next, Step
<1> QED
  BY <1>1, <1>2

(* The inductive invariant of the accounts of undisturbed students.          *)
THEOREM AccessInvariant == Spec => []AccessInv
  BY RosterInvariant, AccessInit, AccessStep, PTL DEF Spec

(* When uploads and deletions have finished, deleted students have lost a    *)
(* student's claims and invited and active ones have them.                  *)
THEOREM AccessFollowsRosterAlways == Spec => []AccessFollowsRoster
<1>1. AccessInv => AccessFollowsRoster
  BY DEF AccessInv, StudentInv, Agrees, AccessFollowsRoster
<1> QED
  BY <1>1, AccessInvariant, PTL
===============================================================================
