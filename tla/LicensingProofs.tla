--------------------------- MODULE LicensingProofs ---------------------------
(* Theorems about Licensing, for any users, events, deliveries and calls:   *)
(* that events are applied once, that an answer means a projection, and     *)
(* what the projection and the requests about one user leave in the claims. *)
EXTENDS Licensing, TLAPS

(* The event log, the license history and the requests name the same        *)
(* versions: an event stands in the history where the log says.             *)
LogMatchesHistory ==
    /\ \A i \in DOMAIN history : history[i].by # None =>
           log[history[i].by] # None /\ log[history[i].by].version = i
    /\ \A e \in Events : log[e] # None =>
           log[e].version \in DOMAIN history /\ history[log[e].version].by = e

JobsMatchLog ==
    \A r \in Requests :
        /\ job[r].event # None =>
               /\ log[job[r].event] # None
               /\ job[r].version = log[job[r].event].version
        /\ pc[r] \in {"idle", "access"} => job[r].event = None
        /\ pc[r] \in {"mark", "bill"} => job[r].event # None
        /\ pc[r] = "bill" => log[job[r].event].synced

(* Work on an identity belongs to a request that synchronizes, or has failed. *)
StepsBelong ==
    \A r \in Requests, u \in Users :
        /\ step[r][u] # "none" => pc[r] \in {"sync", "failed"}
        /\ step[r][u] = "write" => held[r][u] # None

LicenseInv ==
    /\ TypeOK
    /\ LogMatchesHistory
    /\ JobsMatchLog
    /\ StepsBelong
    /\ AnsweredIsSynced

(* The claims the authority would give a user are claims.                  *)
LEMMA AuthorityType ==
    ASSUME TypeOK, NEW u \in Users
    PROVE  Authority(u) \in Claims /\ Authority(u) # None
<1>1. Authority(u) \in Claims
  BY DEF Authority, Version, Claims, TypeOK, Access
<1> QED
  BY <1>1, NoneAssumption

(* Nothing has been asked of a license at first.                           *)
LEMMA LicenseInit == Init => LicenseInv
<1> SUFFICES ASSUME Init PROVE LicenseInv
  OBVIOUS
<1>1. TypeOK
  BY LicensingAssumption DEF Init, TypeOK, Claims, Steps, Access, NoJob, Requests, Users, Jobs
<1>2. LogMatchesHistory /\ JobsMatchLog /\ StepsBelong /\ AnsweredIsSynced
  BY DEF Init, LogMatchesHistory, JobsMatchLog, StepsBelong, AnsweredIsSynced, NoJob
<1> QED
  BY <1>1, <1>2 DEF LicenseInv

(* A transaction adds a version to the history.                             *)
LEMMA CommitKeeps ==
    ASSUME LicenseInv, NEW r \in Requests, NEW e \in Events \cup {None},
           NEW layer \in Layers, pc[r] = "idle", Commit(r, e, layer),
           IF e = None THEN log' = log
           ELSE log[e] = None /\ log' = [log EXCEPT ![e] =
                                     [version |-> Version + 1, synced |-> FALSE]],
           disturbed' \in SUBSET Users
    PROVE  LicenseInv'
<1> USE LicensingAssumption DEF LicenseInv
<1> DEFINE entry == [layer |-> layer, by |-> e]
           new == [job[r] EXCEPT !.event = e, !.version = Version + 1, !.first = (e # None)]
<1>1. /\ license' = layer /\ history' = Append(history, entry)
      /\ job' = [job EXCEPT ![r] = new]
      /\ pc' = [pc EXCEPT ![r] = "load"]
      /\ told' = told /\ access' = access /\ deleted' = deleted
      /\ claims' = claims /\ session' = session /\ step' = step /\ held' = held
  BY DEF Commit, Goto, accessVars, authVars
<1>2. history \in Seq(Entries) /\ entry \in Entries /\ Version \in Nat
  BY DEF TypeOK, Entries, Version
<1>3. /\ history' \in Seq(Entries)
      /\ DOMAIN history = 1 .. Version /\ DOMAIN history' = 1 .. (Version + 1)
      /\ \A i \in 1 .. Version : history'[i] = history[i]
      /\ history'[Version + 1] = entry
  BY <1>1, <1>2 DEF Version
<1>4. log' \in [Events -> Logged \cup {None}]
  <2>1. CASE e = None
    BY <2>1 DEF TypeOK
  <2>2. CASE e # None
    <3>1. [version |-> Version + 1, synced |-> FALSE] \in Logged
      BY <1>2 DEF Logged
    <3> QED
      BY <2>2, <3>1 DEF TypeOK
  <2> QED
    BY <2>1, <2>2
<1>5. /\ job' \in [Requests -> Jobs]
      /\ job'[r].event = e /\ job'[r].version = Version + 1
      /\ \A q \in Requests : q # r => job'[q] = job[q]
  <2>1. job[r] \in Jobs
    BY DEF TypeOK
  <2>2. \A b \in BOOLEAN : LET n == [job[r] EXCEPT !.event = e, !.version = Version + 1,
                                               !.first = b]
                           IN  n \in Jobs /\ n.event = e /\ n.version = Version + 1
    <3> SUFFICES ASSUME NEW b \in BOOLEAN
                 PROVE  LET n == [job[r] EXCEPT !.event = e, !.version = Version + 1,
                                                !.first = b]
                        IN  n \in Jobs /\ n.event = e /\ n.version = Version + 1
      OBVIOUS
    <3>1. Version + 1 \in Nat
      BY <1>2
    <3> QED
      BY <2>1, <3>1 DEF Jobs
  <2>3. new \in Jobs /\ new.event = e /\ new.version = Version + 1
    <3>1. (e # None) \in BOOLEAN
      OBVIOUS
    <3>2. PICK b \in BOOLEAN : b = (e # None)
      BY <3>1, Zenon
    <3>3. new = [job[r] EXCEPT !.event = e, !.version = Version + 1, !.first = b]
      BY <3>2, Zenon
    <3> QED
      BY <2>2, <3>3
  <2> HIDE DEF new
  <2> QED
    BY <1>1, <2>3 DEF TypeOK
<1>6. pc' \in [Requests -> {"idle", "access", "load", "sync", "mark", "bill",
                            "done", "failed"}]
  BY <1>1 DEF TypeOK
<1>7. TypeOK'
  BY <1>1, <1>3, <1>4, <1>5, <1>6 DEF TypeOK
<1>8. /\ \A f \in Events : f # e => log'[f] = log[f]
      /\ e # None => /\ log[e] = None /\ log'[e] # None
                     /\ log'[e].version = Version + 1 /\ ~log'[e].synced
  <2>1. CASE e = None
    BY <2>1, LicensingAssumption
  <2>2. CASE e # None
    <3> DEFINE marker == [version |-> Version + 1, synced |-> FALSE]
    <3>1. marker \in Logged
      BY <1>2 DEF Logged
    <3>2. marker # None
      BY <3>1, NoneAssumption
    <3> HIDE DEF marker
    <3>3. log[e] = None /\ log' = [log EXCEPT ![e] = marker] /\ e \in Events
      BY <2>2 DEF marker
    <3>4. log'[e] = marker /\ \A f \in Events : f # e => log'[f] = log[f]
      BY <3>3 DEF TypeOK
    <3> QED
      BY <3>2, <3>3, <3>4 DEF new
  <2> QED
    BY <2>1, <2>2
<1>9. LogMatchesHistory'
  <2>1. ASSUME NEW i \in DOMAIN history', history'[i].by # None
        PROVE  log'[history'[i].by] # None /\ log'[history'[i].by].version = i
    <3>1. CASE i = Version + 1
      BY <1>3, <1>8, <2>1, <3>1
    <3>2. CASE i \in 1 .. Version
      <4>1. history'[i] = history[i] /\ history[i] \in Entries
        BY <1>2, <1>3, <3>2
      <4>2. /\ log[history[i].by] # None /\ log[history[i].by].version = i
            /\ history[i].by \in Events
        BY <1>3, <2>1, <3>2, <4>1 DEF LogMatchesHistory, Entries
      <4> QED
        BY <1>8, <4>1, <4>2
    <3> QED
      BY <1>2, <1>3, <2>1, <3>1, <3>2
  <2>2. ASSUME NEW f \in Events, log'[f] # None
        PROVE  log'[f].version \in DOMAIN history' /\ history'[log'[f].version].by = f
    <3>1. CASE f = e
      BY <1>2, <1>3, <1>8, <2>2, <3>1, LicensingAssumption
    <3>2. CASE f # e
      <4>1. log'[f] = log[f]
        BY <1>8, <3>2
      <4>2. log[f].version \in 1 .. Version /\ history[log[f].version].by = f
        BY <1>3, <2>2, <4>1 DEF LogMatchesHistory
      <4> QED
        BY <1>2, <1>3, <4>1, <4>2
    <3> QED
      BY <3>1, <3>2
  <2> QED
    BY <2>1, <2>2 DEF LogMatchesHistory
<1>10. \A q \in Requests : pc'[q] = IF q = r THEN "load" ELSE pc[q]
  BY <1>1 DEF TypeOK
<1>11. \A q \in Requests : q # r /\ job[q].event # None =>
           log'[job[q].event] = log[job[q].event]
  <2> SUFFICES ASSUME NEW q \in Requests, q # r, job[q].event # None
               PROVE  log'[job[q].event] = log[job[q].event]
    OBVIOUS
  <2>1. job[q].event \in Events /\ log[job[q].event] # None
    BY DEF TypeOK, JobsMatchLog, Jobs
  <2> QED
    BY <1>8, <2>1
<1>12. JobsMatchLog'
  BY <1>5, <1>8, <1>10, <1>11 DEF JobsMatchLog
<1>13. StepsBelong'
  BY <1>1, <1>10 DEF StepsBelong
<1>14. AnsweredIsSynced'
  BY <1>5, <1>10, <1>11 DEF AnsweredIsSynced
<1> QED
  BY <1>7, <1>9, <1>12, <1>13, <1>14

(* A request for an event already in the log.                               *)
LEMMA DuplicateKeeps ==
    ASSUME LicenseInv, NEW r \in Requests, NEW e \in Events, DuplicateEvent(r, e),
           disturbed' \in SUBSET Users
    PROVE  LicenseInv'
<1> USE LicensingAssumption DEF LicenseInv
<1> DEFINE new == [job[r] EXCEPT !.event = e, !.version = log[e].version]
           next == IF log[e].synced THEN "done" ELSE "load"
<1>1. /\ pc[r] = "idle" /\ log[e] # None
      /\ job' = [job EXCEPT ![r] = new]
      /\ pc' = [pc EXCEPT ![r] = next]
      /\ license' = license /\ history' = history /\ log' = log
      /\ told' = told /\ access' = access /\ deleted' = deleted
      /\ claims' = claims /\ session' = session /\ step' = step /\ held' = held
  BY DEF DuplicateEvent, Arrives, Goto, licenseVars, accessVars, authVars
<1>2. new \in Jobs /\ new.event = e /\ new.version = log[e].version
  <2>1. job[r] \in Jobs /\ log[e] \in Logged
    BY <1>1 DEF TypeOK
  <2>2. log[e].version \in Nat
    BY <2>1 DEF Logged
  <2> QED
    BY <2>1, <2>2 DEF Jobs
<1> HIDE DEF new
<1>3. next \in {"done", "load"} /\ (next = "done" => log[e].synced)
  OBVIOUS
<1> HIDE DEF next
<1>4. /\ \A q \in Requests : job'[q] = IF q = r THEN new ELSE job[q]
      /\ \A q \in Requests : pc'[q] = IF q = r THEN next ELSE pc[q]
  BY <1>1 DEF TypeOK
<1>5. TypeOK'
  BY <1>1, <1>2, <1>3 DEF TypeOK
<1>6. LogMatchesHistory'
  BY <1>1 DEF LogMatchesHistory
<1>7. JobsMatchLog'
  BY <1>1, <1>2, <1>3, <1>4 DEF JobsMatchLog
<1>8. StepsBelong'
  BY <1>1, <1>4 DEF StepsBelong
<1>9. AnsweredIsSynced'
  BY <1>1, <1>2, <1>3, <1>4 DEF AnsweredIsSynced
<1> QED
  BY <1>5, <1>6, <1>7, <1>8, <1>9

(* One user's identity is worked on, or a user signs in.                    *)
LEMMA IdentityKeeps ==
    ASSUME LicenseInv, NEW u \in Users,
           SignIn(u) \/ \E r \in Requests : UserStep(r, u),
           disturbed' \in SUBSET Users
    PROVE  LicenseInv'
<1> USE LicensingAssumption DEF LicenseInv
<1>1. /\ license' = license /\ history' = history /\ log' = log
      /\ told' = told /\ access' = access /\ deleted' = deleted
      /\ pc' = pc /\ job' = job
  BY DEF SignIn, UserStep, ReadAuthority, WriteClaims, ClearClaims, Revoke, licenseVars,
         accessVars, requestVars
<1>2. /\ claims' \in [Users -> Claims \cup {None}]
      /\ session' \in [Users -> Claims \cup {None}]
      /\ step' \in [Requests -> [Users -> Steps]]
      /\ held' \in [Requests -> [Users -> Claims \cup {None}]]
      /\ StepsBelong'
  <2>1. CASE SignIn(u)
    BY <1>1, <2>1 DEF SignIn, requestVars, TypeOK, StepsBelong
  <2>2. ASSUME NEW r \in Requests, ReadAuthority(r, u)
        PROVE  /\ claims' \in [Users -> Claims \cup {None}]
               /\ session' \in [Users -> Claims \cup {None}]
               /\ step' \in [Requests -> [Users -> Steps]]
               /\ held' \in [Requests -> [Users -> Claims \cup {None}]]
               /\ StepsBelong'
    <3>1. PICK h \in Claims \cup {None}, next \in {"write", "revoke"} :
              /\ held' = [held EXCEPT ![r][u] = h] /\ step' = [step EXCEPT ![r][u] = next]
              /\ next = "write" => h # None
      BY <2>2, AuthorityType DEF ReadAuthority, Prepare
    <3>2. step[r][u] = "read" /\ claims' = claims /\ session' = session
      BY <2>2 DEF ReadAuthority, authVars
    <3>3. /\ step' \in [Requests -> [Users -> Steps]]
          /\ held' \in [Requests -> [Users -> Claims \cup {None}]]
      BY <3>1 DEF TypeOK, Steps
    <3>4. \A q \in Requests, v \in Users :
              /\ step'[q][v] = IF q = r /\ v = u THEN next ELSE step[q][v]
              /\ held'[q][v] = IF q = r /\ v = u THEN h ELSE held[q][v]
      BY <3>1 DEF TypeOK
    <3>5. StepsBelong'
      BY <1>1, <3>1, <3>2, <3>4 DEF StepsBelong
    <3> QED
      BY <3>2, <3>3, <3>5 DEF TypeOK
  <2>3. ASSUME NEW r \in Requests, WriteClaims(r, u) \/ ClearClaims(r, u) \/ Revoke(r, u)
        PROVE  /\ claims' \in [Users -> Claims \cup {None}]
               /\ session' \in [Users -> Claims \cup {None}]
               /\ step' \in [Requests -> [Users -> Steps]]
               /\ held' \in [Requests -> [Users -> Claims \cup {None}]]
               /\ StepsBelong'
    <3>1. PICK next \in {"none", "revoke"} : step' = [step EXCEPT ![r][u] = next]
      BY <2>3 DEF WriteClaims, Write, ClearClaims, Revoke
    <3>2. held' = held \/ held' = [held EXCEPT ![r][u] = None]
      BY <2>3 DEF WriteClaims, Write, ClearClaims, Revoke
    <3>3. /\ claims' \in [Users -> Claims \cup {None}]
          /\ session' \in [Users -> Claims \cup {None}]
      <4>1. held[r][u] \in Claims \cup {None}
        BY DEF TypeOK
      <4>2. \/ claims' = claims \/ claims' = [claims EXCEPT ![u] = held[r][u]]
            \/ claims' = [claims EXCEPT ![u] = None]
        BY <2>3 DEF WriteClaims, Write, ClearClaims, Revoke
      <4>3. session' = session \/ session' = [session EXCEPT ![u] = None]
        BY <2>3 DEF WriteClaims, ClearClaims, Revoke
      <4> QED
        BY <4>1, <4>2, <4>3 DEF TypeOK
    <3>4. /\ step' \in [Requests -> [Users -> Steps]]
          /\ held' \in [Requests -> [Users -> Claims \cup {None}]]
      <4>1. step' \in [Requests -> [Users -> Steps]]
        BY <3>1 DEF TypeOK, Steps
      <4>2. \A f \in [Users -> Claims \cup {None}] :
                [f EXCEPT ![u] = None] \in [Users -> Claims \cup {None}]
        OBVIOUS
      <4>3. held' = held \/ held' = [held EXCEPT ![r] = [held[r] EXCEPT ![u] = None]]
        BY <3>2
      <4>4. held[r] \in [Users -> Claims \cup {None}]
        BY DEF TypeOK
      <4>5. held \in [Requests -> [Users -> Claims \cup {None}]]
        BY DEF TypeOK
      <4>6. [held[r] EXCEPT ![u] = None] \in [Users -> Claims \cup {None}]
        BY ONLY <4>2, <4>4
      <4> DEFINE cut == [held[r] EXCEPT ![u] = None]
      <4> HIDE DEF cut
      <4>7. held' \in [Requests -> [Users -> Claims \cup {None}]]
        <5>1. cut \in [Users -> Claims \cup {None}]
          BY <4>6 DEF cut
        <5>2. held' = held \/ held' = [held EXCEPT ![r] = cut]
          BY <4>3 DEF cut
        <5> QED
          BY ONLY <4>5, <5>1, <5>2
      <4> QED
        BY <4>1, <4>7
    <3>5. \A q \in Requests, v \in Users :
              /\ step'[q][v] = IF q = r /\ v = u THEN next ELSE step[q][v]
              /\ (q # r \/ v # u) => held'[q][v] = held[q][v]
      BY <3>1, <3>2 DEF TypeOK
    <3>6. step[r][u] # "none"
      BY <2>3 DEF WriteClaims, ClearClaims, Revoke
    <3>7. StepsBelong'
      BY <1>1, <3>1, <3>5, <3>6 DEF StepsBelong
    <3> QED
      BY <3>3, <3>4, <3>7
  <2> QED
    BY <2>1, <2>2, <2>3 DEF UserStep
<1>3. TypeOK'
  BY <1>1, <1>2 DEF TypeOK
<1>4. LogMatchesHistory' /\ JobsMatchLog' /\ AnsweredIsSynced'
  BY <1>1 DEF LogMatchesHistory, JobsMatchLog, AnsweredIsSynced
<1> QED
  BY <1>2, <1>3, <1>4

(* A request goes on to its next part, fails or dies.                       *)
LEMMA ProgressKeeps ==
    ASSUME LicenseInv, NEW r \in Requests,
           \/ Load(r) \/ SyncDone(r) \/ Mark(r) \/ Bill(r) \/ Fail(r) \/ Crash(r),
           disturbed' \in SUBSET Users
    PROVE  LicenseInv'
<1> USE LicensingAssumption DEF LicenseInv
<1>1. /\ license' = license /\ history' = history /\ access' = access /\ deleted' = deleted
      /\ claims' = claims /\ session' = session /\ job' = job
      /\ pc[r] # "idle"
  BY DEF Load, SyncDone, Mark, Bill, Fail, Crash, licenseVars, accessVars, authVars
<1>2. PICK next \in {"sync", "mark", "bill", "done", "failed"} : pc' = [pc EXCEPT ![r] = next]
  BY DEF Load, SyncDone, Mark, Bill, Fail, Crash, Goto, Finished
<1>3. \A q \in Requests : pc'[q] = IF q = r THEN next ELSE pc[q]
  BY <1>2 DEF TypeOK
<1>4. job[r] \in Jobs
  BY DEF TypeOK
<1>5. /\ log' \in [Events -> Logged \cup {None}]
      /\ \A e \in Events : log[e] # None =>
             /\ log'[e] # None /\ log'[e].version = log[e].version
             /\ log[e].synced => log'[e].synced
      /\ \A e \in Events : log[e] = None => log'[e] = None
      /\ pc[r] = "mark" /\ next # "failed" => log'[job[r].event].synced
  <2>1. CASE Mark(r)
    <3> DEFINE e == job[r].event
               new == [log[e] EXCEPT !.synced = TRUE]
    <3>1. e \in Events /\ log[e] \in Logged
      BY <1>4, <2>1 DEF Mark, JobsMatchLog, TypeOK, Jobs
    <3>2. new \in Logged /\ new.version = log[e].version /\ new.synced
      BY <3>1 DEF Logged
    <3>3. new # None
      BY <3>2, NoneAssumption
    <3> HIDE DEF new
    <3>4. log' = [log EXCEPT ![e] = new]
      BY <2>1 DEF Mark, new
    <3>5. log' \in [Events -> Logged \cup {None}]
      BY <3>1, <3>2, <3>4 DEF TypeOK
    <3>6. \A f \in Events : log'[f] = IF f = e THEN new ELSE log[f]
      BY <3>1, <3>4 DEF TypeOK
    <3>7. log[e] # None
      BY <3>1, NoneAssumption
    <3> HIDE DEF e
    <3>8. log'[e].synced
      BY <3>1, <3>2, <3>6
    <3> QED
      BY <3>1, <3>2, <3>3, <3>5, <3>6, <3>7, <3>8 DEF e
  <2>2. CASE log' = log /\ pc[r] # "mark"
    BY <2>2 DEF TypeOK
  <2>3. CASE log' = log /\ next = "failed"
    BY <2>3 DEF TypeOK
  <2>4. pc'[r] = next
    BY <1>3
  <2> QED
    BY <2>1, <2>2, <2>3, <2>4
       DEF Load, SyncDone, Bill, Fail, Crash, licenseVars, Goto, TypeOK
<1>6. /\ next = "mark" => job[r].event # None
      /\ next = "bill" => job[r].event # None /\ pc[r] = "mark"
      /\ next = "done" => job[r].event = None \/ pc[r] \in {"mark", "bill"}
  <2>1. pc'[r] = next
    BY <1>3
  <2> QED
    BY <2>1 DEF Load, SyncDone, Mark, Bill, Fail, Crash, Goto, Finished, JobsMatchLog, TypeOK
<1>7. step' \in [Requests -> [Users -> Steps]] /\ held' \in [Requests -> [Users -> Claims \cup {None}]]
  <2>1. \/ step' = step
        \/ \E f \in [Users -> Steps] : step' = [step EXCEPT ![r] = f]
    <3>1. /\ [u \in Users |-> IF HasAuthority(u) THEN "read" ELSE "none"] \in [Users -> Steps]
          /\ [u \in Users |-> "none"] \in [Users -> Steps]
      BY DEF Steps
    <3> QED
      BY <3>1 DEF Load, SyncDone, Mark, Bill, Fail, Crash
  <2>2. \/ held' = held
        \/ \E f \in [Users -> Claims \cup {None}] : held' = [held EXCEPT ![r] = f]
    <3>1. [u \in Users |-> None] \in [Users -> Claims \cup {None}]
      OBVIOUS
    <3> QED
      BY <3>1 DEF Load, SyncDone, Mark, Bill, Fail, Crash
  <2>3. step' \in [Requests -> [Users -> Steps]]
    BY <2>1 DEF TypeOK
  <2>4. held' \in [Requests -> [Users -> Claims \cup {None}]]
    BY <2>2 DEF TypeOK
  <2> QED
    BY <2>3, <2>4
<1>8. told' \in SUBSET Events
  BY <1>4 DEF Load, SyncDone, Mark, Bill, Fail, Crash, TypeOK, JobsMatchLog, Jobs
<1>9. TypeOK'
  <2>1. pc' \in [Requests -> {"idle", "access", "load", "sync", "mark", "bill", "done", "failed"}]
    BY <1>2 DEF TypeOK
  <2> QED
    BY <1>1, <1>5, <1>7, <1>8, <2>1 DEF TypeOK
<1>10. LogMatchesHistory'
  <2>1. \A i \in DOMAIN history : history[i].by \in Events \cup {None}
    <3> SUFFICES ASSUME NEW i \in DOMAIN history PROVE history[i].by \in Events \cup {None}
      OBVIOUS
    <3>1. history[i] \in Entries
      BY DEF TypeOK
    <3> QED
      BY <3>1 DEF Entries
  <2> QED
    BY <1>1, <1>5, <2>1 DEF LogMatchesHistory
<1>11. \A q \in Requests : job[q].event \in Events \cup {None}
  BY DEF TypeOK, Jobs
<1>12. JobsMatchLog'
  BY <1>1, <1>3, <1>5, <1>6, <1>11 DEF JobsMatchLog
<1>13. AnsweredIsSynced'
  BY <1>1, <1>3, <1>5, <1>6, <1>11 DEF AnsweredIsSynced, JobsMatchLog
<1>14. StepsBelong'
  <2>1. \A q \in Requests, u \in Users : q # r =>
            step'[q][u] = step[q][u] /\ held'[q][u] = held[q][u]
    BY DEF Load, SyncDone, Mark, Bill, Fail, Crash, TypeOK
  <2>2. \A u \in Users :
            /\ step'[r][u] # "none" => next \in {"sync", "failed"}
            /\ step'[r][u] = "write" => held'[r][u] # None
    <3>1. pc'[r] = next
      BY <1>3
    <3>2. CASE Load(r)
      BY <1>1, <3>1, <3>2 DEF Load, Goto, StepsBelong, TypeOK
    <3>3. CASE SyncDone(r)
      BY <3>3 DEF SyncDone, Synchronized
    <3>4. CASE Mark(r) \/ Bill(r)
      BY <3>4 DEF Mark, Bill, StepsBelong
    <3>5. CASE Fail(r)
      BY <1>2, <3>1, <3>5 DEF Fail, Goto, StepsBelong, TypeOK
    <3>6. CASE Crash(r)
      BY <3>6 DEF Crash, TypeOK
    <3> QED
      BY <3>2, <3>3, <3>4, <3>5, <3>6
  <2> SUFFICES ASSUME NEW q \in Requests, NEW u \in Users
               PROVE  /\ step'[q][u] # "none" => pc'[q] \in {"sync", "failed"}
                      /\ step'[q][u] = "write" => held'[q][u] # None
    BY DEF StepsBelong
  <2>3. CASE q = r
    BY <1>3, <2>2, <2>3
  <2>4. CASE q # r
    BY <1>3, <2>1, <2>4 DEF StepsBelong
  <2> QED
    BY <2>3, <2>4
<1> QED
  BY <1>9, <1>10, <1>12, <1>13, <1>14

(* Requests about users arrive, and staff access is written.                *)
LEMMA AdminKeeps ==
    ASSUME LicenseInv, AdminStep, disturbed' \in SUBSET Users
    PROVE  LicenseInv'
<1> USE LicensingAssumption DEF LicenseInv
<1>1. /\ license' = license /\ history' = history /\ log' = log
      /\ told' = told /\ claims' = claims /\ session' = session /\ held' = held
  BY DEF AdminStep, SecuritySettings, ReadAccess, UpsertAccess, RemoveAccess, SoftDelete,
         ResetPassword, licenseVars, authVars
<1>2. PICK r \in Calls : \/ SecuritySettings(r)
                         \/ \E u \in Staff : ReadAccess(r, u) \/ UpsertAccess(r, u)
                                               \/ RemoveAccess(r, u)
                         \/ \E u \in Students : SoftDelete(r, u)
                         \/ \E u \in Users : ResetPassword(r, u)
  BY DEF AdminStep
<1>3. r \in Requests
  BY DEF Requests
<1>4. PICK next \in {"access", "sync", "done"} : pc' = [pc EXCEPT ![r] = next]
  BY <1>2 DEF SecuritySettings, ReadAccess, UpsertAccess, RemoveAccess, SoftDelete,
              ResetPassword, Begin, Goto
<1>5. job[r].event = None
  <2>1. pc[r] = "idle" \/ pc[r] = "access"
    BY <1>2 DEF SecuritySettings, ReadAccess, UpsertAccess, RemoveAccess, SoftDelete,
                ResetPassword, Arrives
  <2> QED
    BY <1>3, <2>1 DEF JobsMatchLog
<1>6. /\ job' \in [Requests -> Jobs]
      /\ \A q \in Requests : /\ job'[q].event = job[q].event
                              /\ job'[q].version = job[q].version
  <2>1. CASE job' = job
    BY <2>1 DEF TypeOK
  <2>2. ASSUME NEW u \in Staff, ReadAccess(r, u)
        PROVE  /\ job' \in [Requests -> Jobs]
               /\ \A q \in Requests : /\ job'[q].event = job[q].event
                                       /\ job'[q].version = job[q].version
    <3> DEFINE new == [job[r] EXCEPT !.user = u, !.seen = access[u]]
    <3>1. job[r] \in Jobs /\ access[u] \in Access
      BY <1>3 DEF TypeOK
    <3>2. new \in Jobs /\ new.event = job[r].event /\ new.version = job[r].version
      BY <3>1 DEF Jobs
    <3>3. job' = [job EXCEPT ![r] = new]
      BY <2>2 DEF ReadAccess
    <3> HIDE DEF new
    <3> QED
      BY <1>3, <3>2, <3>3 DEF TypeOK
  <2> QED
    BY <1>2, <2>1, <2>2 DEF SecuritySettings, UpsertAccess, RemoveAccess, SoftDelete,
                            ResetPassword
<1>7. access' \in [Staff -> Access] /\ deleted' \in SUBSET Students
  <2>1. access \in [Staff -> Access] /\ deleted \in SUBSET Students
    BY DEF TypeOK
  <2>2. \/ access' = access
        \/ \E u \in Staff : \E a \in Access : access' = [access EXCEPT ![u] = a]
    BY <1>2 DEF SecuritySettings, ReadAccess, UpsertAccess, RemoveAccess, SoftDelete,
                ResetPassword, accessVars, Access
  <2>3. deleted' = deleted \/ \E u \in Students : deleted' = deleted \cup {u}
    BY <1>2 DEF SecuritySettings, ReadAccess, UpsertAccess, RemoveAccess, SoftDelete,
                ResetPassword, accessVars
  <2> QED
    BY ONLY <2>1, <2>2, <2>3
<1>8. \/ step' = step
      \/ next = "sync" /\ \E f \in [Users -> Steps \ {"write"}] : step' = [step EXCEPT ![r] = f]
  <2>1. pc'[r] = next /\ step[r] \in [Users -> Steps]
    BY <1>3, <1>4 DEF TypeOK
  <2>2. ASSUME NEW u \in Users, NEW n \in {"read", "clear", "revoke"}, Begin(r, u, n),
               pc[r] \in {"idle", "access"}
        PROVE  next = "sync" /\ \E f \in [Users -> Steps \ {"write"}] :
                   step' = [step EXCEPT ![r] = f]
    <3> DEFINE f == [step[r] EXCEPT ![u] = n]
    <3>1. \A v \in Users : step[r][v] = "none"
      BY <1>3, <2>2 DEF StepsBelong
    <3>2. f \in [Users -> Steps \ {"write"}]
      BY <2>1, <3>1 DEF Steps
    <3>3. step' = [step EXCEPT ![r] = f] /\ pc' = [pc EXCEPT ![r] = "sync"]
      BY <2>2 DEF Begin, Goto
    <3> QED
      BY <1>3, <2>1, <3>2, <3>3 DEF TypeOK
  <2>3. CASE SecuritySettings(r)
    <3> DEFINE f == [u \in Users |-> IF u \in Staff /\ HasAuthority(u) THEN "revoke" ELSE "none"]
    <3>1. f \in [Users -> Steps \ {"write"}]
      BY DEF Steps
    <3>2. step' = [step EXCEPT ![r] = f] /\ pc' = [pc EXCEPT ![r] = "sync"]
      BY <2>3 DEF SecuritySettings, Goto
    <3> QED
      BY <1>3, <2>1, <3>1, <3>2 DEF TypeOK
  <2>4. Staff \subseteq Users /\ Students \subseteq Users
    BY DEF Users
  <2> QED
    BY <1>2, <2>2, <2>3, <2>4
       DEF ReadAccess, UpsertAccess, RemoveAccess, SoftDelete, ResetPassword, Arrives
<1>9. \A q \in Requests : pc'[q] = IF q = r THEN next ELSE pc[q]
  BY <1>3, <1>4 DEF TypeOK
<1>10. TypeOK'
  <2>1. step' \in [Requests -> [Users -> Steps]]
    BY <1>8 DEF TypeOK, Steps
  <2>2. pc' \in [Requests -> {"idle", "access", "load", "sync", "mark", "bill", "done", "failed"}]
    BY <1>4 DEF TypeOK
  <2> QED
    BY <1>1, <1>6, <1>7, <2>1, <2>2 DEF TypeOK
<1>11. LogMatchesHistory'
  BY <1>1 DEF LogMatchesHistory
<1>12. JobsMatchLog' /\ AnsweredIsSynced'
  BY <1>1, <1>3, <1>5, <1>6, <1>9 DEF JobsMatchLog, AnsweredIsSynced
<1>13. StepsBelong'
  <2> SUFFICES ASSUME NEW q \in Requests, NEW u \in Users
               PROVE  /\ step'[q][u] # "none" => pc'[q] \in {"sync", "failed"}
                      /\ step'[q][u] = "write" => held[q][u] # None
    BY <1>1 DEF StepsBelong
  <2>1. CASE q # r
    BY <1>8, <1>9, <2>1 DEF StepsBelong, TypeOK
  <2>2. CASE q = r /\ step' = step
    <3>1. step[r][u] = "none"
      <4>1. pc[r] \in {"idle", "access"}
        BY <1>2 DEF SecuritySettings, ReadAccess, UpsertAccess, RemoveAccess, SoftDelete,
                    ResetPassword, Arrives
      <4> QED
        BY <1>3, <4>1 DEF StepsBelong
    <3> QED
      BY <2>2, <3>1
  <2>3. CASE q = r /\ next = "sync" /\ \E f \in [Users -> Steps \ {"write"}] :
                 step' = [step EXCEPT ![r] = f]
    <3>1. step'[r][u] # "write"
      BY <1>3, <2>3 DEF TypeOK
    <3> QED
      BY <1>9, <2>3, <3>1
  <2> QED
    BY <1>8, <2>1, <2>2, <2>3
<1> QED
  BY <1>10, <1>11, <1>12, <1>13

(* Every step keeps the invariant of the licenses.                         *)
LEMMA LicenseStepKeeps == LicenseInv /\ [Next]_vars => LicenseInv'
<1> SUFFICES ASSUME LicenseInv, [Next]_vars PROVE LicenseInv'
  OBVIOUS
<1>1. CASE UNCHANGED vars
  BY <1>1 DEF vars, licenseVars, accessVars, authVars, requestVars, LicenseInv, TypeOK,
              LogMatchesHistory, JobsMatchLog, StepsBelong, AnsweredIsSynced
<1>2. CASE Next
  <2>1. disturbed' \in SUBSET Users
    BY <1>2 DEF Next, LicenseInv, TypeOK, Contested, Abandoned
  <2>2. ASSUME NEW r \in Calls, UpdateLicense(r) PROVE LicenseInv'
    <3>1. PICK layer \in Layers : Commit(r, None, layer)
      BY <2>2 DEF UpdateLicense
    <3>2. r \in Requests /\ pc[r] = "idle" /\ log' = log
      BY <2>2 DEF UpdateLicense, Arrives, Requests
    <3> QED
      BY <2>1, <3>1, <3>2, CommitKeeps
  <2>3. ASSUME NEW r \in Deliveries, NEW e \in Events, ProcessEvent(r, e) PROVE LicenseInv'
    <3>1. PICK layer \in Layers : Commit(r, e, layer)
      BY <2>3 DEF ProcessEvent
    <3>2. /\ r \in Requests /\ pc[r] = "idle" /\ log[e] = None /\ e # None
          /\ log' = [log EXCEPT ![e] = [version |-> Version + 1, synced |-> FALSE]]
      BY <2>3, LicensingAssumption DEF ProcessEvent, Arrives, Unprocessed, Requests
    <3> QED
      BY <2>1, <3>1, <3>2, CommitKeeps
  <2>4. ASSUME NEW r \in Deliveries, NEW e \in Events, DuplicateEvent(r, e) PROVE LicenseInv'
    <3>1. r \in Requests
      BY DEF Requests
    <3> QED
      BY <2>1, <2>4, <3>1, DuplicateKeeps
  <2>5. ASSUME NEW r \in Requests, ServerStep(r) \/ Fail(r) \/ Crash(r) PROVE LicenseInv'
    BY <2>1, <2>5, ProgressKeeps, IdentityKeeps DEF ServerStep
  <2>6. ASSUME NEW u \in Users, SignIn(u) PROVE LicenseInv'
    BY <2>1, <2>6, IdentityKeeps
  <2>7. CASE AdminStep
    BY <2>1, <2>7, AdminKeeps
  <2> QED
    BY <1>2, <2>2, <2>3, <2>4, <2>5, <2>6, <2>7 DEF Next, Step, LicenseStep
<1> QED
  BY <1>1, <1>2

(* The inductive invariant of the license, its history and the event log.   *)
THEOREM LicenseInvariant == Spec => []LicenseInv
  BY LicenseInit, LicenseStepKeeps, PTL DEF Spec

(* Licensing is type correct for any users, events and requests.            *)
THEOREM TypeCorrect == Spec => []TypeOK
<1>1. LicenseInv => TypeOK
  BY DEF LicenseInv
<1> QED
  BY <1>1, LicenseInvariant, PTL

(* However often an event is delivered, it changes the license once.        *)
THEOREM AppliedOnceAlways == Spec => []AppliedOnce
<1>1. LicenseInv => AppliedOnce
  BY DEF LicenseInv, LogMatchesHistory, AppliedOnce
<1> QED
  BY <1>1, LicenseInvariant, PTL

(* Stripe is answered with success only when the event has been projected.   *)
THEOREM AnsweredIsSyncedAlways == Spec => []AnsweredIsSynced
<1>1. LicenseInv => AnsweredIsSynced
  BY DEF LicenseInv
<1> QED
  BY <1>1, LicenseInvariant, PTL

-----------------------------------------------------------------------------
(* The identity of one user. A call that works on it has it read, written or *)
(* cleared, and at last revoked; a delivery does so without having changed  *)
(* anything but the license.                                                *)
Calling(r, u, steps) == job[r].event = None /\ step[r][u] \in steps
Reading(u) == \E r \in Requests : Calling(r, u, {"read"})
Writing(u) == \E r \in Requests : Calling(r, u, {"write", "clear"})
Revoking(u) == \E r \in Requests : Calling(r, u, {"revoke"})

Follows(u, c) ==
    c # None => HasAuthority(u) /\ c.suspended = (u \in Staff /\ access[u] = "suspended")
Fresh(c) == c # None => c.version = Version /\ c.layer = license

(* A delivery of the event behind the current version, and whether one has   *)
(* finished with the user.                                                  *)
Current(r) == job[r].event # None /\ job[r].version = Version

Synced(u) ==
    \/ \E e \in Events : log[e] # None /\ log[e].synced /\ log[e].version = Version
    \/ \E r \in Requests :
           Current(r) /\ (pc[r] = "mark" \/ (pc[r] = "sync" /\ step[r][u] = "none"))

WorksAlone(u) == \A r, q \in Requests : AtWork(r, u) /\ AtWork(q, u) => r = q

FollowsAccess(u) ==
    /\ ~Reading(u) /\ ~Writing(u) => Follows(u, claims[u])
    /\ ~Reading(u) /\ ~Writing(u) /\ ~Revoking(u) => Follows(u, session[u])
    /\ \A r \in Requests :
           /\ step[r][u] = "write" => Follows(u, held[r][u])
           /\ u \in Staff /\ pc[r] = "access" /\ job[r].user = u =>
                  job[r].seen = access[u]

FollowsLicense(u) ==
    /\ Synced(u) /\ ~Reading(u) /\ ~Writing(u) => Fresh(claims[u])
    /\ Synced(u) /\ ~Reading(u) /\ ~Writing(u) /\ ~Revoking(u) => Fresh(session[u])
    /\ \A r \in Requests :
           /\ Synced(u) /\ step[r][u] = "write" => Fresh(held[r][u])
           /\ Current(r) /\ pc[r] = "sync" /\ step[r][u] = "write" => Fresh(held[r][u])
           /\ Current(r) /\ pc[r] = "sync" /\ step[r][u] = "revoke" => Fresh(claims[u])

IdentityInv == \A u \in Users \ disturbed :
                   WorksAlone(u) /\ FollowsAccess(u) /\ FollowsLicense(u)

(* Every identity starts with the claims of its access.                    *)
LEMMA IdentityInit == Init => IdentityInv
<1> SUFFICES ASSUME Init, NEW u \in Users
             PROVE  WorksAlone(u) /\ FollowsAccess(u) /\ FollowsLicense(u)
  BY DEF IdentityInv
<1>1. /\ \A r \in Requests : step[r][u] = "none" /\ pc[r] = "idle" /\ job[r] = NoJob
      /\ claims[u] = [version |-> 0, layer |-> Unlicensed, suspended |-> FALSE]
      /\ session[u] = None /\ HasAuthority(u) /\ (u \in Staff => access[u] = "active")
      /\ \A e \in Events : log[e] = None
  BY DEF Init, HasAuthority
<1>2. ~Synced(u)
  BY <1>1 DEF Synced, Current, NoJob
<1>3. claims[u].suspended = (u \in Staff /\ access[u] = "suspended")
  <2>1. ~(u \in Staff /\ access[u] = "suspended")
    BY <1>1
  <2>2. claims[u].suspended = FALSE
    BY <1>1
  <2> QED
    BY <2>1, <2>2, Zenon
<1>4. Follows(u, claims[u])
  BY <1>1, <1>3 DEF Follows
<1>5. Follows(u, session[u])
  BY <1>1 DEF Follows
<1>6. WorksAlone(u)
  BY <1>1 DEF WorksAlone, AtWork
<1>7. FollowsAccess(u)
  BY <1>1, <1>4, <1>5 DEF FollowsAccess
<1>8. FollowsLicense(u)
  BY <1>1, <1>2 DEF FollowsLicense
<1> QED
  BY <1>6, <1>7, <1>8

(* What leaves the user alone keeps everything: license and access of the    *)
(* user stay, and the work on the identity does, but that of a delivery may *)
(* end.                                                                     *)
LEMMA IdentityFrame ==
    ASSUME LicenseInv, NEW u \in Users, FollowsAccess(u), FollowsLicense(u),
           license' = license, history' = history,
           claims'[u] = claims[u], session'[u] = session[u],
           u \in Staff => access'[u] = access[u],
           \A r \in Requests :
               /\ job'[r].event = job[r].event /\ job'[r].version = job[r].version
               /\ \/ /\ step'[r][u] = step[r][u]
                     /\ step[r][u] = "write" => held'[r][u] = held[r][u]
                  \/ job[r].event # None /\ step'[r][u] = "none"
               /\ u \in Staff /\ pc'[r] = "access" /\ job'[r].user = u => job'[r].seen = access'[u]
               /\ pc'[r] = "sync" /\ job[r].event # None => pc[r] = "sync",
           Synced(u)' => Synced(u)
    PROVE  FollowsAccess(u)' /\ FollowsLicense(u)'
<1>1. /\ Reading(u)' <=> Reading(u)
      /\ Writing(u)' <=> Writing(u)
      /\ Revoking(u)' <=> Revoking(u)
  BY DEF Reading, Writing, Revoking, Calling
<1>2. \A c : (Follows(u, c) => Follows(u, c)') /\ (Fresh(c) => Fresh(c)')
  BY DEF Follows, HasAuthority, Fresh, Version
<1>3. FollowsAccess(u)'
  BY <1>1, <1>2 DEF FollowsAccess
<1>4. \A r \in Requests : Current(r)' => Current(r)
  BY DEF Current, Version
<1>5. FollowsLicense(u)'
  BY <1>1, <1>2, <1>4 DEF FollowsLicense, Current
<1> QED
  BY <1>3, <1>5

(* A new version: nobody is synchronized with it.                           *)
LEMMA IdentityCommit ==
    ASSUME LicenseInv, LicenseInv', NEW u \in Users, FollowsAccess(u), FollowsLicense(u),
           NEW r \in Requests, NEW e \in Events \cup {None}, NEW layer \in Layers,
           pc[r] = "idle", Commit(r, e, layer),
           IF e = None THEN log' = log
           ELSE log' = [log EXCEPT ![e] = [version |-> Version + 1, synced |-> FALSE]]
    PROVE  FollowsAccess(u)' /\ FollowsLicense(u)'
<1>1. /\ history' = Append(history, [layer |-> layer, by |-> e])
      /\ pc' = [pc EXCEPT ![r] = "load"]
      /\ job' = [job EXCEPT ![r] = [@ EXCEPT !.event = e, !.version = Version + 1,
                                             !.first = (e # None)]]
      /\ access' = access /\ claims' = claims /\ session' = session
      /\ step' = step /\ held' = held
  BY DEF Commit, Goto, accessVars, authVars
<1>2. Version \in Nat /\ Version' = Version + 1 /\ DOMAIN history = 1 .. Version
  BY <1>1 DEF LicenseInv, TypeOK, Version
<1>3. /\ \A q \in Requests : q # r => job'[q] = job[q] /\ pc'[q] = pc[q]
      /\ pc'[r] = "load" /\ job[r].event = None /\ job'[r].user = job[r].user
  BY <1>1 DEF LicenseInv, TypeOK, JobsMatchLog, Jobs
<1>4. step[r][u] = "none"
  BY DEF LicenseInv, StepsBelong
<1>5. /\ Reading(u)' <=> Reading(u)
      /\ Writing(u)' <=> Writing(u)
      /\ Revoking(u)' <=> Revoking(u)
  BY <1>1, <1>3, <1>4 DEF Reading, Writing, Revoking, Calling
<1>6. \A c : Follows(u, c) => Follows(u, c)'
  BY <1>1 DEF Follows, HasAuthority
<1>7. FollowsAccess(u)'
  BY <1>1, <1>3, <1>5, <1>6 DEF FollowsAccess
<1>8. \A f \in Events : log[f] # None => log[f].version \in 1 .. Version
  BY <1>2 DEF LicenseInv, LogMatchesHistory
<1>9. \A q \in Requests : q # r => ~Current(q)'
  <2> SUFFICES ASSUME NEW q \in Requests, q # r, job[q].event # None
               PROVE  job[q].version # Version + 1
    BY <1>2, <1>3 DEF Current
  <2>1. job[q].event \in Events /\ log[job[q].event] # None
        /\ job[q].version = log[job[q].event].version
    BY DEF LicenseInv, TypeOK, Jobs, JobsMatchLog
  <2> QED
    BY <1>2, <1>8, <2>1
<1>10. \A f \in Events : log'[f] # None /\ log'[f].version = Version + 1 => ~log'[f].synced
  <2> SUFFICES ASSUME NEW f \in Events, log'[f] # None, log'[f].version = Version + 1
               PROVE  ~log'[f].synced
    OBVIOUS
  <2>1. log'[f] # log[f]
    BY <1>2, <1>8
  <2>2. e # None /\ e \in Events
    BY <2>1
  <2>3. log'[f] = [version |-> Version + 1, synced |-> FALSE]
    BY <2>1, <2>2 DEF LicenseInv, TypeOK
  <2> QED
    BY <2>3
<1>11. ~Synced(u)'
  BY <1>2, <1>3, <1>9, <1>10 DEF Synced
<1>12. FollowsLicense(u)'
  BY <1>3, <1>9, <1>11 DEF FollowsLicense
<1> QED
  BY <1>7, <1>12

(* A request takes up all identities. Users without authority are passed     *)
(* over: they have no claims to write.                                      *)
LEMMA IdentityLoad ==
    ASSUME LicenseInv, NEW u \in Users, FollowsAccess(u), FollowsLicense(u),
           NEW r \in Requests, Load(r)
    PROVE  FollowsAccess(u)' /\ FollowsLicense(u)'
<1>1. /\ license' = license /\ history' = history /\ log' = log /\ access' = access
      /\ claims' = claims /\ session' = session /\ job' = job /\ held' = held
      /\ pc[r] = "load"
  BY DEF Load, licenseVars, accessVars, authVars
<1>2. \A q \in Requests : q # r => step'[q] = step[q] /\ pc'[q] = pc[q]
  BY DEF Load, Goto, LicenseInv, TypeOK
<1>3. \A v \in Users : step[r][v] = "none"
  BY <1>1 DEF LicenseInv, StepsBelong
<1>4. CASE job[r].version # Version
  <2>1. step' = step /\ pc'[r] = Finished(r)
    BY <1>4 DEF Load, Goto, LicenseInv, TypeOK
  <2>2. pc'[r] \in {"done", "mark"}
    BY <2>1 DEF Finished
  <2>3. \A q \in Requests : Current(q)' <=> Current(q)
    BY <1>1 DEF Current, Version
  <2>4. Synced(u)' => Synced(u)
    BY <1>1, <1>2, <1>4, <2>1, <2>2, <2>3 DEF Synced, Current, Version
  <2>5. \A q \in Requests :
            /\ u \in Staff /\ pc'[q] = "access" /\ job'[q].user = u => job'[q].seen = access'[u]
            /\ pc'[q] = "sync" => pc[q] = "sync"
    BY <1>1, <1>2, <2>1, <2>2 DEF FollowsAccess
  <2> QED
    BY <1>1, <2>1, <2>4, <2>5, IdentityFrame
<1>5. CASE job[r].version = Version
  <2>1. pc'[r] = "sync" /\ step'[r][u] = IF HasAuthority(u) THEN "read" ELSE "none"
    BY <1>5 DEF Load, Goto, LicenseInv, TypeOK
  <2>2. \A c : (Follows(u, c)' <=> Follows(u, c)) /\ (Fresh(c)' <=> Fresh(c))
    BY <1>1 DEF Follows, HasAuthority, Fresh, Version
  <2>3. \A q \in Requests : Current(q)' <=> Current(q)
    BY <1>1 DEF Current, Version
  <2>4. /\ Reading(u) => Reading(u)'
        /\ Writing(u) <=> Writing(u)'
        /\ Revoking(u) <=> Revoking(u)'
    BY <1>1, <1>2, <1>3, <2>1 DEF Reading, Writing, Revoking, Calling
  <2>5. FollowsAccess(u)'
    BY <1>1, <1>2, <1>3, <2>1, <2>2, <2>4 DEF FollowsAccess
  <2>6. CASE HasAuthority(u)
    <3>1. Synced(u)' => Synced(u)
      BY <1>1, <1>2, <2>1, <2>3, <2>6 DEF Synced, Version
    <3> QED
      BY <1>1, <1>2, <2>1, <2>2, <2>3, <2>4, <2>5, <2>6, <3>1 DEF FollowsLicense
  <2>7. CASE ~HasAuthority(u)
    <3>1. /\ ~Reading(u) /\ ~Writing(u) => claims[u] = None
          /\ ~Reading(u) /\ ~Writing(u) /\ ~Revoking(u) => session[u] = None
          /\ \A q \in Requests : step[q][u] # "write"
      BY <2>7 DEF FollowsAccess, Follows, LicenseInv, StepsBelong
    <3>2. Fresh(None)'
      BY DEF Fresh
    <3>3. step'[r][u] = "none" /\ step[r][u] = "none"
      BY <1>3, <2>1, <2>7
    <3>4. \A q \in Requests : step'[q][u] = step[q][u]
      BY <1>2, <3>3
    <3>5. \A q \in Requests : Current(q)' /\ pc'[q] = "sync" /\ step'[q][u] = "revoke" =>
              Current(q) /\ pc[q] = "sync" /\ step[q][u] = "revoke"
      BY <1>2, <2>3, <3>3
    <3>6. \A q \in Requests :
              Current(q) /\ pc[q] = "sync" /\ step[q][u] = "revoke" => Fresh(claims[u])
      BY DEF FollowsLicense
    <3> QED
      BY <1>1, <2>2, <2>4, <2>5, <3>1, <3>2, <3>4, <3>5, <3>6 DEF FollowsLicense
  <2> QED
    BY <2>6, <2>7
<1> QED
  BY <1>4, <1>5

(* A request reads the user's account and authority.                        *)
LEMMA IdentityRead ==
    ASSUME LicenseInv, NEW u \in Users, FollowsAccess(u), FollowsLicense(u),
           NEW r \in Requests, ReadAuthority(r, u)
    PROVE  FollowsAccess(u)' /\ FollowsLicense(u)'
<1>1. /\ license' = license /\ history' = history /\ log' = log /\ access' = access
      /\ claims' = claims /\ session' = session /\ job' = job /\ pc' = pc
      /\ step[r][u] = "read" /\ HasAuthority(u)
  BY DEF ReadAuthority, licenseVars, accessVars, authVars
<1>2. \A q \in Requests : q # r => step'[q] = step[q] /\ held'[q] = held[q]
  BY DEF ReadAuthority, Prepare, LicenseInv, TypeOK
<1>3. \/ /\ claims[u] = Authority(u) /\ step'[r][u] = "revoke"
      \/ /\ held'[r][u] = Authority(u) /\ step'[r][u] = "write"
  BY DEF ReadAuthority, Prepare, LicenseInv, TypeOK
<1>4. Follows(u, Authority(u)) /\ Fresh(Authority(u))
  BY <1>1 DEF Follows, Fresh, Authority
<1>5. \A c : (Follows(u, c)' <=> Follows(u, c)) /\ (Fresh(c)' <=> Fresh(c))
  BY <1>1 DEF Follows, HasAuthority, Fresh, Version
<1>6. \A q \in Requests : Current(q)' <=> Current(q)
  BY <1>1 DEF Current, Version
<1>7. Synced(u)' => Synced(u)
  <2>1. step'[r][u] # "none"
    BY <1>3
  <2> QED
    BY <1>1, <1>2, <1>6, <2>1 DEF Synced, Version
<1>8. CASE claims[u] = Authority(u) /\ step'[r][u] = "revoke"
  <2>1. Follows(u, claims[u])' /\ Fresh(claims[u])'
    BY <1>1, <1>4, <1>5, <1>8
  <2>2. job[r].event # None =>
            /\ (Reading(u)' <=> Reading(u)) /\ (Writing(u)' <=> Writing(u))
            /\ (Revoking(u)' <=> Revoking(u))
    BY <1>1, <1>2 DEF Reading, Writing, Revoking, Calling
  <2>3. job[r].event = None => Revoking(u)'
    BY <1>1, <1>8 DEF Revoking, Calling
  <2>4. FollowsAccess(u)'
    BY <1>1, <1>2, <1>5, <1>8, <2>1, <2>2, <2>3 DEF FollowsAccess
  <2>5. FollowsLicense(u)'
    BY <1>1, <1>2, <1>5, <1>6, <1>7, <1>8, <2>1, <2>2, <2>3 DEF FollowsLicense
  <2> QED
    BY <2>4, <2>5
<1>9. CASE held'[r][u] = Authority(u) /\ step'[r][u] = "write"
  <2>1. Follows(u, held[r][u])' /\ Fresh(held[r][u])'
    BY <1>4, <1>5, <1>9
  <2>2. job[r].event # None =>
            /\ (Reading(u)' <=> Reading(u)) /\ (Writing(u)' <=> Writing(u))
            /\ (Revoking(u)' <=> Revoking(u))
    BY <1>1, <1>2, <1>9 DEF Reading, Writing, Revoking, Calling
  <2>3. job[r].event = None => Writing(u)'
    BY <1>1, <1>9 DEF Writing, Calling
  <2>4. FollowsAccess(u)'
    BY <1>1, <1>2, <1>5, <1>9, <2>1, <2>2, <2>3 DEF FollowsAccess
  <2>5. FollowsLicense(u)'
    BY <1>1, <1>2, <1>5, <1>6, <1>7, <1>9, <2>1, <2>2, <2>3 DEF FollowsLicense
  <2> QED
    BY <2>4, <2>5
<1> QED
  BY <1>3, <1>8, <1>9

(* A request writes or clears the claims: nobody else is at work on them.    *)
LEMMA IdentityWrite ==
    ASSUME LicenseInv, NEW u \in Users, WorksAlone(u), FollowsAccess(u), FollowsLicense(u),
           NEW r \in Requests, WriteClaims(r, u) \/ ClearClaims(r, u)
    PROVE  FollowsAccess(u)' /\ FollowsLicense(u)'
<1>1. /\ license' = license /\ history' = history /\ log' = log /\ access' = access
      /\ session' = session /\ job' = job /\ pc' = pc
      /\ step[r][u] \in {"write", "clear"}
  BY DEF WriteClaims, ClearClaims, licenseVars, accessVars
<1>2. /\ \A q \in Requests : q # r => step'[q] = step[q] /\ held'[q] = held[q]
      /\ step'[r][u] = "revoke"
      /\ claims'[u] = IF step[r][u] = "write" THEN held[r][u] ELSE None
  BY DEF WriteClaims, Write, ClearClaims, LicenseInv, TypeOK
<1>3. \A q \in Requests : q # r => step[q][u] \notin {"write", "clear", "revoke"}
  BY <1>1 DEF WorksAlone, AtWork
<1>4. \A c : (Follows(u, c)' <=> Follows(u, c)) /\ (Fresh(c)' <=> Fresh(c))
  BY <1>1 DEF Follows, HasAuthority, Fresh, Version
<1>5. \A q \in Requests : Current(q)' <=> Current(q)
  BY <1>1 DEF Current, Version
<1>6. Synced(u)' => Synced(u)
  BY <1>1, <1>2, <1>5 DEF Synced, Version
<1>7. Follows(u, claims'[u])
  BY <1>1, <1>2 DEF FollowsAccess, Follows
<1>8. Synced(u) \/ (Current(r) /\ pc[r] = "sync") => Fresh(claims'[u])
  BY <1>1, <1>2 DEF FollowsLicense, Fresh
<1>9. /\ Reading(u)' <=> Reading(u)
      /\ job[r].event = None => Revoking(u)'
      /\ job[r].event # None =>
             (Writing(u)' <=> Writing(u)) /\ (Revoking(u)' <=> Revoking(u))
  BY <1>1, <1>2 DEF Reading, Writing, Revoking, Calling
<1>10. \A q \in Requests : step'[q][u] # "write" /\ (step'[q][u] = "revoke" => q = r)
  BY <1>2, <1>3
<1>11. FollowsAccess(u)'
  BY <1>1, <1>4, <1>7, <1>9, <1>10 DEF FollowsAccess
<1>12. FollowsLicense(u)'
  BY <1>1, <1>4, <1>5, <1>6, <1>8, <1>9, <1>10 DEF FollowsLicense
<1> QED
  BY <1>11, <1>12

(* The sessions of the user are revoked.                                    *)
LEMMA IdentityRevoke ==
    ASSUME LicenseInv, NEW u \in Users, WorksAlone(u), FollowsAccess(u), FollowsLicense(u),
           NEW r \in Requests, Revoke(r, u)
    PROVE  FollowsAccess(u)' /\ FollowsLicense(u)'
<1>1. /\ license' = license /\ history' = history /\ log' = log /\ access' = access
      /\ claims' = claims /\ held' = held /\ job' = job /\ pc' = pc
      /\ step[r][u] = "revoke"
  BY DEF Revoke, licenseVars, accessVars
<1>2. /\ \A q \in Requests : q # r => step'[q] = step[q]
      /\ step'[r][u] = "none" /\ session'[u] = None
  BY DEF Revoke, LicenseInv, TypeOK
<1>3. \A q \in Requests : q # r => step[q][u] \notin {"write", "clear", "revoke"}
  BY <1>1 DEF WorksAlone, AtWork
<1>4. \A c : (Follows(u, c)' <=> Follows(u, c)) /\ (Fresh(c)' <=> Fresh(c))
  BY <1>1 DEF Follows, HasAuthority, Fresh, Version
<1>5. \A q \in Requests : Current(q)' <=> Current(q)
  BY <1>1 DEF Current, Version
<1>6. Synced(u)' => Synced(u) \/ (Current(r) /\ pc[r] = "sync")
  BY <1>1, <1>2, <1>5 DEF Synced, Version
<1>7. Current(r) /\ pc[r] = "sync" => Fresh(claims[u])
  BY <1>1 DEF FollowsLicense
<1>8. Follows(u, None) /\ Fresh(None)
  BY DEF Follows, Fresh
<1>9. (Reading(u)' <=> Reading(u)) /\ (Writing(u)' <=> Writing(u))
  BY <1>1, <1>2 DEF Reading, Writing, Calling
<1>10. \A q \in Requests : step'[q][u] \notin {"write", "revoke"}
  BY <1>2, <1>3
<1>11. FollowsAccess(u)'
  BY <1>1, <1>2, <1>4, <1>8, <1>9, <1>10 DEF FollowsAccess
<1>12. FollowsLicense(u)'
  BY <1>1, <1>2, <1>4, <1>6, <1>7, <1>8, <1>9, <1>10 DEF FollowsLicense
<1> QED
  BY <1>11, <1>12

(* The user signs in.                                                       *)
LEMMA IdentitySignIn ==
    ASSUME LicenseInv, NEW u \in Users, FollowsAccess(u), FollowsLicense(u), SignIn(u)
    PROVE  FollowsAccess(u)' /\ FollowsLicense(u)'
<1>1. /\ license' = license /\ history' = history /\ log' = log /\ access' = access
      /\ claims' = claims /\ held' = held /\ job' = job /\ pc' = pc /\ step' = step
  BY DEF SignIn, licenseVars, accessVars, requestVars
<1>2. session'[u] = claims[u]
  BY DEF SignIn, LicenseInv, TypeOK
<1>3. \A c : (Follows(u, c)' <=> Follows(u, c)) /\ (Fresh(c)' <=> Fresh(c))
  BY <1>1 DEF Follows, HasAuthority, Fresh, Version
<1>4. /\ Reading(u)' <=> Reading(u)
      /\ Writing(u)' <=> Writing(u)
      /\ Synced(u)' <=> Synced(u)
      /\ \A q \in Requests : Current(q)' <=> Current(q)
  BY <1>1 DEF Reading, Writing, Calling, Synced, Current, Version
<1>5. FollowsAccess(u)'
  BY <1>1, <1>2, <1>3, <1>4 DEF FollowsAccess
<1>6. FollowsLicense(u)'
  BY <1>1, <1>2, <1>3, <1>4 DEF FollowsLicense
<1> QED
  BY <1>5, <1>6

(* A request goes on without touching an identity, or is cut off. What a call *)
(* leaves half-way disturbs the user.                                       *)
LEMMA IdentityProgress ==
    ASSUME LicenseInv, NEW u \in Users, FollowsAccess(u), FollowsLicense(u),
           NEW r \in Requests, u \notin Abandoned,
           SyncDone(r) \/ Mark(r) \/ Bill(r) \/ Fail(r) \/ Crash(r)
    PROVE  FollowsAccess(u)' /\ FollowsLicense(u)'
<1>1. /\ license' = license /\ history' = history /\ access' = access
      /\ claims' = claims /\ session' = session /\ job' = job
  BY DEF SyncDone, Mark, Bill, Fail, Crash, licenseVars, accessVars, authVars
<1>2. PICK next \in {"mark", "bill", "done", "failed"} : pc' = [pc EXCEPT ![r] = next]
  BY DEF SyncDone, Mark, Bill, Fail, Crash, Goto, Finished
<1>3. \A q \in Requests : pc'[q] = IF q = r THEN next ELSE pc[q]
  BY <1>2 DEF LicenseInv, TypeOK
<1>4. \A q \in Requests :
          \/ /\ step'[q][u] = step[q][u]
             /\ step[q][u] = "write" => held'[q][u] = held[q][u]
          \/ job[q].event # None /\ step'[q][u] = "none"
  <2>1. CASE step' = step /\ held' = held
    BY <2>1
  <2>2. CASE Crash(r)
    <3>1. \A q \in Requests : q # r => step'[q] = step[q] /\ held'[q] = held[q]
      BY <2>2 DEF Crash, LicenseInv, TypeOK
    <3>2. step'[r][u] = "none" /\ pc'[r] = "failed"
      BY <2>2 DEF Crash, Goto, LicenseInv, TypeOK
    <3>3. job[r].event = None => step[r][u] = "none"
      BY <3>2 DEF Abandoned
    <3> QED
      BY <3>1, <3>2, <3>3
  <2> QED
    BY <2>1, <2>2 DEF SyncDone, Mark, Bill, Fail
<1>5. \A q \in Requests : Current(q)' <=> Current(q)
  BY <1>1 DEF Current, Version
<1>6. Synced(u)' => Synced(u)
  <2>1. ASSUME NEW e \in Events, log'[e] # None, log'[e].synced, log'[e].version = Version
        PROVE  Synced(u)
    <3>1. CASE log'[e] = log[e]
      BY <2>1, <3>1 DEF Synced
    <3>2. CASE log'[e] # log[e]
      <4>1. Mark(r) /\ e = job[r].event
        BY <3>2 DEF SyncDone, Mark, Bill, Fail, Crash, licenseVars, LicenseInv, TypeOK
      <4>2. log[e] \in Logged /\ log[e].version = job[r].version /\ job[r].event # None
        BY <4>1 DEF Mark, LicenseInv, JobsMatchLog, TypeOK
      <4>3. log'[e].version = log[e].version
        BY <4>1, <4>2 DEF Mark, Logged, LicenseInv, TypeOK
      <4> QED
        BY <2>1, <4>1, <4>2, <4>3 DEF Synced, Current, Mark
    <3> QED
      BY <3>1, <3>2
  <2>2. ASSUME NEW q \in Requests, Current(q), pc'[q] = "mark" \/ (pc'[q] = "sync" /\ step'[q][u] = "none")
        PROVE  Synced(u)
    <3>1. CASE q # r
      <4>1. step'[q] = step[q]
        BY <3>1 DEF SyncDone, Mark, Bill, Fail, Crash, LicenseInv, TypeOK
      <4> QED
        BY <1>3, <2>2, <3>1, <4>1 DEF Synced
    <3>2. CASE q = r
      <4>1. pc'[r] = "mark"
        BY <1>3, <2>2, <3>2
      <4>2. SyncDone(r)
        BY <4>1 DEF Mark, Bill, Fail, Crash, Goto, LicenseInv, TypeOK
      <4>3. pc[r] = "sync" /\ step[r][u] = "none"
        BY <4>2 DEF SyncDone, Synchronized
      <4> QED
        BY <2>2, <3>2, <4>3 DEF Synced
    <3> QED
      BY <3>1, <3>2
  <2> QED
    BY <1>1, <1>5, <2>1, <2>2 DEF Synced, Version
<1>7. \A q \in Requests :
          /\ u \in Staff /\ pc'[q] = "access" /\ job'[q].user = u => job'[q].seen = access'[u]
          /\ pc'[q] = "sync" => pc[q] = "sync"
  BY <1>1, <1>3 DEF FollowsAccess
<1> QED
  BY <1>1, <1>4, <1>6, <1>7, IdentityFrame

(* Another user's identity is worked on, or another user signs in.          *)
LEMMA IdentityOther ==
    ASSUME LicenseInv, NEW u \in Users, FollowsAccess(u), FollowsLicense(u),
           NEW v \in Users, v # u, SignIn(v) \/ \E r \in Requests : UserStep(r, v)
    PROVE  FollowsAccess(u)' /\ FollowsLicense(u)'
<1>1. /\ license' = license /\ history' = history /\ log' = log /\ access' = access
      /\ pc' = pc /\ job' = job
  BY DEF SignIn, UserStep, ReadAuthority, WriteClaims, ClearClaims, Revoke, licenseVars,
         accessVars, requestVars
<1>2. claims'[u] = claims[u] /\ session'[u] = session[u]
  BY DEF SignIn, UserStep, ReadAuthority, WriteClaims, Write, ClearClaims, Revoke, authVars,
         LicenseInv, TypeOK
<1>3. \A q \in Requests : step'[q][u] = step[q][u] /\ held'[q][u] = held[q][u]
  <2>1. CASE SignIn(v)
    BY <2>1 DEF SignIn, requestVars
  <2>2. ASSUME NEW r \in Requests, UserStep(r, v)
        PROVE  \A q \in Requests : step'[q][u] = step[q][u] /\ held'[q][u] = held[q][u]
    <3>1. \E s \in {"none", "write", "revoke"} : step' = [step EXCEPT ![r][v] = s]
      BY <2>2 DEF UserStep, ReadAuthority, Prepare, WriteClaims, Write, ClearClaims, Revoke
    <3>2. held' = held \/ \E h : held' = [held EXCEPT ![r][v] = h]
      BY <2>2 DEF UserStep, ReadAuthority, Prepare, WriteClaims, Write, ClearClaims, Revoke
    <3> QED
      BY <3>1, <3>2 DEF LicenseInv, TypeOK
  <2> QED
    BY <2>1, <2>2
<1>4. Synced(u)' <=> Synced(u)
  BY <1>1, <1>3 DEF Synced, Current, Version
<1>5. \A q \in Requests :
          u \in Staff /\ pc'[q] = "access" /\ job'[q].user = u => job'[q].seen = access'[u]
  BY <1>1 DEF FollowsAccess
<1> QED
  BY <1>1, <1>2, <1>3, <1>4, <1>5, IdentityFrame

(* A delivery takes up an event again: it has nobody's identity at hand yet. *)
LEMMA IdentityDuplicate ==
    ASSUME LicenseInv, NEW u \in Users, FollowsAccess(u), FollowsLicense(u),
           NEW r \in Requests, NEW e \in Events, DuplicateEvent(r, e)
    PROVE  FollowsAccess(u)' /\ FollowsLicense(u)'
<1>1. /\ license' = license /\ history' = history /\ log' = log /\ access' = access
      /\ claims' = claims /\ session' = session /\ step' = step /\ held' = held
      /\ pc[r] = "idle"
      /\ job' = [job EXCEPT ![r] = [@ EXCEPT !.event = e, !.version = log[e].version]]
      /\ pc' = [pc EXCEPT ![r] = IF log[e].synced THEN "done" ELSE "load"]
  BY DEF DuplicateEvent, Arrives, Goto, licenseVars, accessVars, authVars
<1>2. /\ \A q \in Requests : q # r => job'[q] = job[q] /\ pc'[q] = pc[q]
      /\ pc'[r] \in {"done", "load"}
  BY <1>1 DEF LicenseInv, TypeOK
<1>3. \A v \in Users : step[r][v] = "none"
  BY <1>1 DEF LicenseInv, StepsBelong
<1>4. /\ Reading(u)' <=> Reading(u)
      /\ Writing(u)' <=> Writing(u)
      /\ Revoking(u)' <=> Revoking(u)
  BY <1>1, <1>2, <1>3 DEF Reading, Writing, Revoking, Calling
<1>5. \A c : (Follows(u, c)' <=> Follows(u, c)) /\ (Fresh(c)' <=> Fresh(c))
  BY <1>1 DEF Follows, HasAuthority, Fresh, Version
<1>6. \A q \in Requests : q # r => (Current(q)' <=> Current(q))
  BY <1>1, <1>2 DEF Current, Version
<1>7. Synced(u)' => Synced(u)
  BY <1>1, <1>2, <1>6 DEF Synced, Version
<1>8. FollowsAccess(u)'
  BY <1>1, <1>2, <1>4, <1>5 DEF FollowsAccess
<1>9. FollowsLicense(u)'
  BY <1>1, <1>2, <1>4, <1>5, <1>6, <1>7 DEF FollowsLicense
<1> QED
  BY <1>8, <1>9

(* A call takes up a user's identity, or leaves it; the access of the user   *)
(* stays.                                                                   *)
LEMMA IdentityBegin ==
    ASSUME LicenseInv, NEW u \in Users, FollowsAccess(u), FollowsLicense(u),
           NEW r \in Requests, pc[r] \in {"idle", "access"},
           license' = license, history' = history, log' = log,
           claims' = claims, session' = session, held' = held,
           u \in Staff => access'[u] = access[u],
           \A q \in Requests :
               /\ job'[q].event = job[q].event /\ job'[q].version = job[q].version
               /\ q # r => pc'[q] = pc[q] /\ step'[q] = step[q] /\ job'[q] = job[q],
           step'[r][u] # "write",
           pc'[r] \notin {"mark"},
           u \in Staff /\ pc'[r] = "access" /\ job'[r].user = u => job'[r].seen = access'[u]
    PROVE  FollowsAccess(u)' /\ FollowsLicense(u)'
<1>1. job[r].event = None /\ step[r][u] = "none"
  BY DEF LicenseInv, JobsMatchLog, StepsBelong
<1>2. /\ Reading(u) => Reading(u)'
      /\ Writing(u) => Writing(u)'
      /\ Revoking(u) => Revoking(u)'
  BY <1>1 DEF Reading, Writing, Revoking, Calling
<1>3. \A c : (Follows(u, c)' <=> Follows(u, c)) /\ (Fresh(c)' <=> Fresh(c))
  BY DEF Follows, HasAuthority, Fresh, Version
<1>4. \A q \in Requests : (Current(q)' <=> Current(q)) /\ (Current(q) => q # r)
  BY <1>1 DEF Current, Version
<1>5. Synced(u)' => Synced(u)
  BY <1>4 DEF Synced, Version
<1>6. FollowsAccess(u)'
  BY <1>1, <1>2, <1>3 DEF FollowsAccess
<1>7. FollowsLicense(u)'
  BY <1>1, <1>2, <1>3, <1>4, <1>5 DEF FollowsLicense
<1> QED
  BY <1>6, <1>7

(* The access of a user is changed: nobody else is at work on the identity.  *)
LEMMA IdentityChange ==
    ASSUME LicenseInv, NEW u \in Users,
           NEW r \in Requests, job[r].event = None, job' = job,
           \A q \in Requests : q # r => pc'[q] = pc[q] /\ step'[q] = step[q] /\ ~AtWork(q, u),
           step'[r][u] \in {"read", "clear"},
           pc'[r] = "sync"
    PROVE  FollowsAccess(u)' /\ FollowsLicense(u)'
<1>1. Reading(u)' \/ Writing(u)'
  BY DEF Reading, Writing, Calling
<1>2. \A q \in Requests :
          /\ step'[q][u] \notin {"write", "revoke"}
          /\ ~(pc'[q] = "access" /\ job'[q].user = u)
  <2> SUFFICES ASSUME NEW q \in Requests
               PROVE  /\ step'[q][u] \notin {"write", "revoke"}
                      /\ ~(pc'[q] = "access" /\ job'[q].user = u)
    OBVIOUS
  <2> QED
    BY DEF AtWork
<1>3. FollowsAccess(u)'
  BY <1>1, <1>2 DEF FollowsAccess
<1>4. FollowsLicense(u)'
  BY <1>1, <1>2 DEF FollowsLicense
<1> QED
  BY <1>3, <1>4

(* A request about a user arrives, or writes the access it has decided on.   *)
LEMMA IdentityAdmin ==
    ASSUME LicenseInv, NEW u \in Users, WorksAlone(u), WorksAlone(u)',
           FollowsAccess(u), FollowsLicense(u), AdminStep
    PROVE  FollowsAccess(u)' /\ FollowsLicense(u)'
<1>1. /\ license' = license /\ history' = history /\ log' = log
      /\ claims' = claims /\ session' = session /\ held' = held
  BY DEF AdminStep, SecuritySettings, ReadAccess, UpsertAccess, RemoveAccess, SoftDelete,
         ResetPassword, licenseVars, authVars
<1>2. Staff \subseteq Users /\ Students \subseteq Users /\ Calls \subseteq Requests
  BY DEF Users, Requests
<1>3. ASSUME NEW r \in Calls, SecuritySettings(r)
      PROVE  FollowsAccess(u)' /\ FollowsLicense(u)'
  <2>1. /\ pc[r] = "idle" /\ access' = access /\ job' = job
        /\ \A q \in Requests : q # r => pc'[q] = pc[q] /\ step'[q] = step[q]
        /\ pc'[r] = "sync" /\ step'[r][u] \in {"revoke", "none"}
    BY <1>2, <1>3 DEF SecuritySettings, Arrives, Goto, accessVars, LicenseInv, TypeOK
  <2> QED
    BY <1>1, <1>2, <2>1, IdentityBegin
<1>4. ASSUME NEW r \in Calls, NEW v \in Staff, ReadAccess(r, v)
      PROVE  FollowsAccess(u)' /\ FollowsLicense(u)'
  <2>1. /\ pc[r] = "idle" /\ access' = access /\ step' = step
        /\ pc' = [pc EXCEPT ![r] = "access"]
        /\ job' = [job EXCEPT ![r] = [@ EXCEPT !.user = v, !.seen = access[v]]]
    BY <1>4 DEF ReadAccess, Arrives, Goto, accessVars
  <2>2. /\ \A q \in Requests : q # r => pc'[q] = pc[q] /\ job'[q] = job[q]
        /\ pc'[r] = "access"
        /\ job'[r].event = job[r].event /\ job'[r].version = job[r].version
        /\ job'[r].user = v /\ job'[r].seen = access[v]
    BY <1>2, <2>1 DEF LicenseInv, TypeOK, Jobs
  <2>3. step'[r][u] = "none"
    BY <1>2, <2>1 DEF LicenseInv, StepsBelong
  <2> QED
    BY <1>1, <1>2, <2>1, <2>2, <2>3, IdentityBegin
<1>5. ASSUME NEW r \in Calls, NEW v \in Users, NEW next \in {"read", "clear", "revoke"},
             Begin(r, v, next), pc[r] \in {"idle", "access"}, job' = job,
             u \in Staff => access'[u] = access[u]
      PROVE  FollowsAccess(u)' /\ FollowsLicense(u)'
  <2>1. /\ \A q \in Requests : q # r => pc'[q] = pc[q] /\ step'[q] = step[q]
        /\ pc'[r] = "sync" /\ step'[r][u] \in {next, step[r][u]}
    BY <1>2, <1>5 DEF Begin, Goto, LicenseInv, TypeOK
  <2>2. step[r][u] = "none"
    BY <1>2, <1>5 DEF LicenseInv, StepsBelong
  <2> QED
    BY <1>1, <1>2, <1>5, <2>1, <2>2, IdentityBegin
<1>6. ASSUME NEW r \in Calls, NEW next \in {"read", "clear"}, Begin(r, u, next), job' = job,
             pc[r] \in {"idle", "access"},
             \A q \in Requests : q # r => ~AtWork(q, u)
      PROVE  FollowsAccess(u)' /\ FollowsLicense(u)'
  <2>1. /\ \A q \in Requests : q # r => pc'[q] = pc[q] /\ step'[q] = step[q]
        /\ pc'[r] = "sync" /\ step'[r][u] = next
    BY <1>2, <1>6 DEF Begin, Goto, LicenseInv, TypeOK
  <2>2. job[r].event = None
    BY <1>2, <1>6 DEF LicenseInv, JobsMatchLog
  <2> QED
    BY <1>2, <1>6, <2>1, <2>2, IdentityChange
<1>7. ASSUME NEW r \in Calls, NEW v \in Staff, UpsertAccess(r, v)
      PROVE  FollowsAccess(u)' /\ FollowsLicense(u)'
  <2>1. PICK status \in {"active", "suspended"} :
            /\ access' = [access EXCEPT ![v] = status]
            /\ IF status = job[r].seen THEN Goto(r, "done") /\ step' = step
               ELSE Begin(r, v, "read")
    BY <1>7 DEF UpsertAccess
  <2>2. pc[r] = "access" /\ job[r].user = v /\ job' = job
    BY <1>7 DEF UpsertAccess
  <2>3. v = u => job[r].seen = access[u]
    BY <1>2, <2>2 DEF FollowsAccess
  <2>4. CASE status = job[r].seen
    <3>1. u \in Staff => access'[u] = access[u]
      BY <2>1, <2>2, <2>3, <2>4 DEF LicenseInv, TypeOK
    <3>2. step' = step /\ pc'[r] = "done" /\ \A q \in Requests : q # r => pc'[q] = pc[q]
      BY <1>2, <2>1, <2>4 DEF Goto, LicenseInv, TypeOK
    <3>3. step[r][u] = "none"
      BY <1>2, <2>2 DEF LicenseInv, StepsBelong
    <3> QED
      BY <1>1, <1>2, <2>2, <3>1, <3>2, <3>3, IdentityBegin
  <2>5. CASE status # job[r].seen /\ v # u
    <3>1. u \in Staff => access'[u] = access[u]
      BY <2>1, <2>5 DEF LicenseInv, TypeOK
    <3> QED
      BY <1>2, <1>5, <2>1, <2>2, <2>5, <3>1
  <2>6. CASE status # job[r].seen /\ v = u
    <3>1. AtWork(r, u)
      BY <2>2, <2>6 DEF AtWork
    <3>2. \A q \in Requests : q # r => ~AtWork(q, u)
      BY <1>2, <3>1 DEF WorksAlone
    <3> QED
      BY <1>6, <2>1, <2>2, <2>6, <3>2
  <2> QED
    BY <2>4, <2>5, <2>6
<1>8. ASSUME NEW r \in Calls, NEW v \in Staff, RemoveAccess(r, v)
      PROVE  FollowsAccess(u)' /\ FollowsLicense(u)'
  <2>1. /\ access' = [access EXCEPT ![v] = "none"] /\ job' = job /\ pc[r] = "idle"
        /\ Begin(r, v, "clear")
    BY <1>8 DEF RemoveAccess, Arrives
  <2>2. CASE v # u
    <3>1. u \in Staff => access'[u] = access[u]
      BY <2>1, <2>2 DEF LicenseInv, TypeOK
    <3> QED
      BY <1>2, <1>5, <2>1, <3>1
  <2>3. CASE v = u
    <3>1. /\ \A q \in Requests : q # r => pc'[q] = pc[q] /\ step'[q] = step[q]
          /\ step'[r][u] = "clear"
      BY <1>2, <2>1, <2>3 DEF Begin, Goto, LicenseInv, TypeOK
    <3>2. AtWork(r, u)'
      BY <3>1 DEF AtWork
    <3>3. \A q \in Requests : q # r => ~AtWork(q, u)'
      BY <1>2, <3>2 DEF WorksAlone
    <3>4. \A q \in Requests : q # r => ~AtWork(q, u)
      BY <2>1, <3>1, <3>3 DEF AtWork
    <3> QED
      BY <1>6, <2>1, <2>3, <3>4
  <2> QED
    BY <2>2, <2>3
<1>9. ASSUME NEW r \in Calls, NEW v \in Students, SoftDelete(r, v)
      PROVE  FollowsAccess(u)' /\ FollowsLicense(u)'
  <2>1. /\ access' = access /\ job' = job /\ pc[r] = "idle" /\ Begin(r, v, "clear")
    BY <1>9 DEF SoftDelete, Arrives
  <2> QED
    BY <1>2, <1>5, <2>1
<1>10. ASSUME NEW r \in Calls, NEW v \in Users, ResetPassword(r, v)
       PROVE  FollowsAccess(u)' /\ FollowsLicense(u)'
  <2>1. /\ access' = access /\ job' = job /\ pc[r] = "idle" /\ Begin(r, v, "revoke")
    BY <1>10 DEF ResetPassword, Arrives, accessVars
  <2> QED
    BY <1>2, <1>5, <2>1
<1> QED
  BY <1>3, <1>4, <1>7, <1>8, <1>9, <1>10 DEF AdminStep

(* Every step leaves the identities nobody disturbed as they should be.    *)
LEMMA IdentityStep == LicenseInv /\ LicenseInv' /\ IdentityInv /\ [Next]_vars => IdentityInv'
<1> SUFFICES ASSUME LicenseInv, LicenseInv', IdentityInv, [Next]_vars,
                    NEW u \in Users, u \notin disturbed'
             PROVE  WorksAlone(u)' /\ FollowsAccess(u)' /\ FollowsLicense(u)'
  BY DEF IdentityInv
<1>1. CASE UNCHANGED vars
  <2>1. WorksAlone(u) /\ FollowsAccess(u) /\ FollowsLicense(u)
    BY <1>1 DEF vars, IdentityInv
  <2>2. /\ license' = license /\ history' = history /\ log' = log /\ access' = access
        /\ claims' = claims /\ session' = session /\ step' = step /\ held' = held
        /\ job' = job /\ pc' = pc
    BY <1>1 DEF vars, licenseVars, accessVars, authVars, requestVars
  <2>3. WorksAlone(u)'
    BY <2>1, <2>2 DEF WorksAlone, AtWork
  <2>4. Synced(u)' <=> Synced(u)
    BY <2>2 DEF Synced, Current, Version
  <2>5. \A q \in Requests :
            u \in Staff /\ pc'[q] = "access" /\ job'[q].user = u => job'[q].seen = access'[u]
    BY <2>1, <2>2 DEF FollowsAccess
  <2> QED
    BY <2>1, <2>2, <2>3, <2>4, <2>5, IdentityFrame
<1>2. CASE Next
  <2>1. u \notin disturbed /\ u \notin Contested' /\ u \notin Abandoned
    BY <1>2 DEF Next
  <2>2. WorksAlone(u) /\ FollowsAccess(u) /\ FollowsLicense(u)
    BY <2>1 DEF IdentityInv
  <2>3. WorksAlone(u)'
    BY <2>1 DEF WorksAlone, Contested
  <2>4. ASSUME NEW r \in Calls, UpdateLicense(r)
        PROVE  FollowsAccess(u)' /\ FollowsLicense(u)'
    <3>1. PICK layer \in Layers : Commit(r, None, layer)
      BY <2>4 DEF UpdateLicense
    <3>2. r \in Requests /\ pc[r] = "idle" /\ log' = log
      BY <2>4 DEF UpdateLicense, Arrives, Requests
    <3> QED
      BY <2>2, <3>1, <3>2, IdentityCommit
  <2>5. ASSUME NEW r \in Deliveries, NEW e \in Events, ProcessEvent(r, e)
        PROVE  FollowsAccess(u)' /\ FollowsLicense(u)'
    <3>1. PICK layer \in Layers : Commit(r, e, layer)
      BY <2>5 DEF ProcessEvent
    <3>2. /\ r \in Requests /\ pc[r] = "idle" /\ e # None
          /\ log' = [log EXCEPT ![e] = [version |-> Version + 1, synced |-> FALSE]]
      BY <2>5, LicensingAssumption DEF ProcessEvent, Arrives, Requests
    <3> QED
      BY <2>2, <3>1, <3>2, IdentityCommit
  <2>6. ASSUME NEW r \in Deliveries, NEW e \in Events, DuplicateEvent(r, e)
        PROVE  FollowsAccess(u)' /\ FollowsLicense(u)'
    <3>1. r \in Requests
      BY DEF Requests
    <3> QED
      BY <2>2, <2>6, <3>1, IdentityDuplicate
  <2>7. CASE AdminStep
    BY <2>2, <2>3, <2>7, IdentityAdmin
  <2>8. ASSUME NEW r \in Requests, ServerStep(r) \/ Fail(r) \/ Crash(r)
        PROVE  FollowsAccess(u)' /\ FollowsLicense(u)'
    <3>1. CASE Load(r)
      BY <2>2, <3>1, IdentityLoad
    <3>2. CASE SyncDone(r) \/ Mark(r) \/ Bill(r) \/ Fail(r) \/ Crash(r)
      BY <2>1, <2>2, <3>2, IdentityProgress
    <3>3. CASE UserStep(r, u)
      BY <2>2, <3>3, IdentityRead, IdentityWrite, IdentityRevoke DEF UserStep
    <3>4. ASSUME NEW v \in Users, v # u, UserStep(r, v)
          PROVE  FollowsAccess(u)' /\ FollowsLicense(u)'
      BY <2>2, <3>4, IdentityOther
    <3> QED
      BY <2>8, <3>1, <3>2, <3>3, <3>4 DEF ServerStep
  <2>9. ASSUME NEW v \in Users, SignIn(v)
        PROVE  FollowsAccess(u)' /\ FollowsLicense(u)'
    BY <2>2, <2>9, IdentitySignIn, IdentityOther
  <2> QED
    BY <1>2, <2>3, <2>4, <2>5, <2>6, <2>7, <2>8, <2>9 DEF Next, Step, LicenseStep
<1> QED
  BY <1>1, <1>2

(* The inductive invariant of the identities: an undisturbed user's claims    *)
(* and session follow access and license, but for what a request still has  *)
(* to do.                                                                   *)
THEOREM IdentityInvariant == Spec => []IdentityInv
  BY LicenseInvariant, IdentityInit, IdentityStep, PTL DEF Spec

(* A settled, undisturbed user is read, written and revoked by nobody.      *)
LEMMA SettledIdentity ==
    ASSUME NEW u \in Undisturbed
    PROVE  u \in Users \ disturbed /\ ~Reading(u) /\ ~Writing(u) /\ ~Revoking(u)
  BY DEF Undisturbed, Settled, AtWork, Reading, Writing, Revoking, Calling

(* Staff without access keep no claims and no session, suspended staff only   *)
(* suspended ones.                                                          *)
THEOREM ClaimsFollowAccessAlways == Spec => []ClaimsFollowAccess
<1>1. IdentityInv => ClaimsFollowAccess
  <2> SUFFICES ASSUME IdentityInv, NEW u \in Undisturbed \cap Staff,
                      NEW c \in {claims[u], session[u]} \ {None}
               PROVE  access[u] # "none" /\ c.suspended = (access[u] = "suspended")
    BY DEF ClaimsFollowAccess
  <2>1. Follows(u, claims[u]) /\ Follows(u, session[u])
    BY SettledIdentity DEF IdentityInv, FollowsAccess
  <2>2. Follows(u, c) /\ c # None
    BY <2>1
  <2>3. HasAuthority(u) /\ c.suspended = (u \in Staff /\ access[u] = "suspended")
    BY <2>2 DEF Follows
  <2>4. access[u] # "none"
    BY <2>3 DEF HasAuthority
  <2>5. (u \in Staff /\ access[u] = "suspended") = (access[u] = "suspended")
    OBVIOUS
  <2> QED
    BY <2>3, <2>4, <2>5, Zenon
<1> QED
  BY <1>1, IdentityInvariant, PTL

(* Once the event behind the current version is marked as projected, no      *)
(* undisturbed user holds claims or a session of an earlier version.        *)
THEOREM SyncedIsFreshAlways == Spec => []SyncedIsFresh
<1>1. IdentityInv => SyncedIsFresh
  <2> SUFFICES ASSUME IdentityInv,
                      \E e \in Events : log[e] # None /\ log[e].synced /\ log[e].version = Version,
                      NEW u \in Undisturbed \cap Identities,
                      NEW c \in {claims[u], session[u]} \ {None}
               PROVE  c.version = Version /\ c.layer = license
    BY DEF SyncedIsFresh
  <2>1. Synced(u)
    BY DEF Synced
  <2>2. Fresh(claims[u]) /\ Fresh(session[u])
    BY <2>1, SettledIdentity DEF IdentityInv, FollowsLicense
  <2> QED
    BY <2>2 DEF Fresh
<1> QED
  BY <1>1, IdentityInvariant, PTL
==============================================================================
