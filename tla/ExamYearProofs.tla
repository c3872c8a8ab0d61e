--------------------------- MODULE ExamYearProofs ---------------------------
(***************************************************************************)
(* Theorems about ExamYear, for any number of runs, sessions, students,    *)
(* archive requests and lock requests.                                     *)
(***************************************************************************)
EXTENDS ExamYear, FiniteSetTheorems, TLAPS

Resting == {"idle", "done", "failed"}

\* Archive requests past the lock, and those that have listed the runs.
Behind == {"count", "insert", "snapshot", "archive"}
Listed == {"sessions", "lock"} \cup Behind

\* A request is past the lock, or has found the year locked, only in a year
\* that is not active any more.
LockedBehind ==
  \A a \in Attempts : pc[a] \in Behind \/ found[a] = "locked" => yearStatus # "active"

\* Nothing is deleted before the year is archived, nor while requests that may
\* change its status are at work.
DeletedLast ==
  In(Deleted) # {} =>
    /\ yearStatus = "archived"
    /\ \A a \in Attempts : pc[a] \in Resting
    /\ \A k \in Lockers : lock[k] \in {"idle", "done"}

\* What a request has seen stays submitted until it is deleted.
SeenIsSubmitted == \A a \in Attempts : seen[a] \subseteq In("submitted") \cup In(Deleted)

\* A session's run has been created before it.
CreatedInRun ==
  /\ \A r \in open : run[r] # "none"
  /\ \A s \in Sessions : session[s] # "none" => run[RunOf[s]] # "none"

\* A request that found the year locked has seen every submitted session, or
\* has still to read its run.
FinalRead ==
  \A a \in Attempts : found[a] = "locked" /\ pc[a] \in Listed =>
    \A s \in In("submitted") :
      s \in seen[a] \/ (pc[a] = "sessions" /\ RunOf[s] \in unread[a])

YearInv ==
  /\ TypeOK
  /\ LockedBehind
  /\ DeletedLast
  /\ SeenIsSubmitted
  /\ CreatedInRun
  /\ FinalRead
  /\ RowsAreSubmitted
  /\ RetryIsComplete
-----------------------------------------------------------------------------
\* A request's step leaves the others where they are, and what they have read;
\* the request itself keeps what it has read unless it fails.
LEMMA Moved ==
  ASSUME TypeOK, NEW a \in Attempts, NEW step \in Steps, Move(a, step)
  PROVE  /\ pc' \in [Attempts -> Steps]
         /\ \A b \in Attempts : pc'[b] = IF b = a THEN step ELSE pc[b]
         /\ found' \in [Attempts -> YearStatuses \cup {"none"}]
         /\ unread' \in [Attempts -> SUBSET Runs]
         /\ fit' \in [Attempts -> BOOLEAN]
         /\ seen' \in [Attempts -> SUBSET Sessions]
         /\ \A b \in Attempts : b # a \/ step # "failed" =>
              found'[b] = found[b] /\ unread'[b] = unread[b] /\ seen'[b] = seen[b]
         /\ step = "failed" => found'[a] = "none" /\ seen'[a] = {}
<1>1. /\ pc' \in [Attempts -> Steps]
      /\ \A b \in Attempts : pc'[b] = IF b = a THEN step ELSE pc[b]
  BY DEF TypeOK, Move, Goto
<1>2. CASE step # "failed"
  BY <1>1, <1>2 DEF TypeOK, Move, reads
<1>3. CASE step = "failed"
  BY <1>1, <1>3 DEF TypeOK, Move
<1> QED
  BY <1>2, <1>3

\* At first nothing has been created, seen, exported or deleted.
LEMMA InitYear == Init => YearInv
<1> SUFFICES ASSUME Init PROVE YearInv
  OBVIOUS
<1>1. TypeOK
  BY DEF Init, TypeOK, Steps, YearStatuses
<1>2. In(Deleted) = {}
  BY ExamYearAssumption DEF Init, In
<1> QED
  BY <1>1, <1>2 DEF Init, YearInv, LockedBehind, DeletedLast, SeenIsSubmitted,
       CreatedInRun, FinalRead, RowsAreSubmitted, RetryIsComplete, Past, Behind, Listed

\* The effect of a session's step: the requests are left alone, what is over
\* stays over, nothing but DeleteSession deletes, and nothing becomes submitted
\* in a year that is not active.
LEMMA SessionStep ==
  ASSUME TypeOK, CreatedInRun, NEW s \in Sessions, Taking(s)
  PROVE  /\ session' \in [Sessions -> Statuses \cup {"none", Deleted}]
         /\ UNCHANGED <<school, pc, reads, rows, lock>>
         /\ In(Deleted)' = In(Deleted)
         /\ In("submitted") \subseteq In("submitted")'
         /\ yearStatus # "active" => In("submitted")' = In("submitted")
         /\ CreatedInRun'
<1>1. ASSUME NEW to \in Statuses, session[s] \notin {"submitted", Deleted},
             session' = [session EXCEPT ![s] = to],
             session[s] = "none" => RunOf[s] \in open,
             yearStatus # "active" => to # "submitted",
             UNCHANGED school
      PROVE  /\ session' \in [Sessions -> Statuses \cup {"none", Deleted}]
             /\ In(Deleted)' = In(Deleted)
             /\ In("submitted") \subseteq In("submitted")'
             /\ yearStatus # "active" => In("submitted")' = In("submitted")
             /\ CreatedInRun'
  <2>1. to # Deleted
    BY ExamYearAssumption
  <2>2. /\ session' \in [Sessions -> Statuses \cup {"none", Deleted}]
        /\ In(Deleted)' = In(Deleted)
        /\ In("submitted") \subseteq In("submitted")'
        /\ yearStatus # "active" => In("submitted")' = In("submitted")
    BY <1>1, <2>1 DEF TypeOK, In
  <2>3. CreatedInRun'
    BY <1>1 DEF TypeOK, CreatedInRun, school
  <2> QED
    BY <2>2, <2>3
<1>2. CASE StartSession(s)
  <2>1. "created" \in Statuses /\ "none" # Deleted
    BY ExamYearAssumption DEF Statuses
  <2> QED
    BY <1>1, <1>2, <2>1 DEF StartSession
<1>3. CASE SubmitSession(s)
  <2>1. "submitted" \in Statuses /\ "active" # Deleted
    BY ExamYearAssumption DEF Statuses
  <2> QED
    BY <1>1, <1>3, <2>1 DEF SubmitSession
<1>4. ASSUME NEW to \in Statuses, TransitionSession(s, to)
      PROVE  /\ session[s] \notin {"none", "submitted", Deleted}
             /\ to # "submitted"
             /\ session' = [session EXCEPT ![s] = to]
             /\ UNCHANGED <<school, pc, reads, rows, lock>>
  <2>1. PICK actor \in Actors \ {"backend"} : TransitionAllowed(actor, session[s], to)
    BY <1>4 DEF TransitionSession
  <2>2. session[s] \in Statuses /\ to \in AllowedNext[session[s]]
    BY <1>4, <2>1 DEF TransitionSession, TransitionAllowed
  <2>3. session[s] # "submitted"
    BY <2>2 DEF AllowedNext
  <2>4. to # "submitted"
    BY <2>1 DEF TransitionAllowed, Actors
  <2>5. session[s] # "none"
    BY <2>2 DEF Statuses
  <2> QED
    BY <1>4, <2>2, <2>3, <2>4, <2>5, ExamYearAssumption DEF TransitionSession
<1> QED
  BY <1>1, <1>2, <1>3, <1>4 DEF Taking, StartSession, SubmitSession

\* A step of a session keeps the invariant.
LEMMA SessionKeeps ==
  ASSUME YearInv, NEW s \in Sessions, Taking(s)
  PROVE  YearInv'
<1>1. /\ session' \in [Sessions -> Statuses \cup {"none", Deleted}]
      /\ UNCHANGED <<school, pc, reads, rows, lock>>
      /\ In(Deleted)' = In(Deleted)
      /\ In("submitted") \subseteq In("submitted")'
      /\ yearStatus # "active" => In("submitted")' = In("submitted")
      /\ CreatedInRun'
  BY SessionStep DEF YearInv
<1>2. TypeOK'
  BY <1>1 DEF YearInv, TypeOK, school, reads
<1>3. LockedBehind' /\ DeletedLast'
  BY <1>1 DEF YearInv, LockedBehind, DeletedLast, school, reads
<1>4. SeenIsSubmitted'
  BY <1>1 DEF YearInv, SeenIsSubmitted, reads
<1>5. \A a \in Attempts : found[a] = "locked" => In("submitted")' = In("submitted")
  BY <1>1 DEF YearInv, LockedBehind
<1>6. FinalRead' /\ RetryIsComplete'
  BY <1>1, <1>5 DEF YearInv, FinalRead, RetryIsComplete, Past, reads
<1>7. RowsAreSubmitted'
  <2>1. \A t \in rows : t \in In("submitted") \/ t \in In(Deleted)
    BY DEF YearInv, RowsAreSubmitted, TypeOK, In
  <2>2. \A t \in rows : t \in In("submitted")' \/ t \in In(Deleted)'
    BY <1>1, <2>1
  <2> QED
    BY <1>1, <2>2 DEF RowsAreSubmitted, In
<1> QED
  BY <1>1, <1>2, <1>3, <1>4, <1>6, <1>7 DEF YearInv

\* Retention keeps the invariant: it deletes when no request is at work.
LEMMA DeleteKeeps ==
  ASSUME YearInv, NEW s \in Sessions, DeleteSession(s)
  PROVE  YearInv'
<1>1. /\ yearStatus = "archived" /\ \A a \in Attempts : pc[a] \in Resting
      /\ \A k \in Lockers : lock[k] \in {"idle", "done"}
      /\ session[s] # "none"
      /\ session' = [session EXCEPT ![s] = Deleted]
      /\ UNCHANGED <<school, pc, reads, rows, lock>>
  BY DEF DeleteSession, Resting
<1>2. TypeOK'
  BY <1>1 DEF YearInv, TypeOK, school, reads
<1>3. \A t \in Sessions : session'[t] = IF t = s THEN Deleted ELSE session[t]
  BY <1>1 DEF YearInv, TypeOK
<1>4. Deleted # "submitted"
  BY ExamYearAssumption DEF Statuses
<1>5. In("submitted")' \subseteq In("submitted")
  BY <1>3, <1>4 DEF In
<1>6. LockedBehind' /\ DeletedLast' /\ CreatedInRun'
  BY <1>1, <1>3 DEF YearInv, LockedBehind, DeletedLast, CreatedInRun, school, reads
<1>7. SeenIsSubmitted'
  BY <1>1, <1>3 DEF YearInv, SeenIsSubmitted, In, reads
<1>8. FinalRead' /\ RetryIsComplete'
  BY <1>1, <1>5 DEF YearInv, FinalRead, RetryIsComplete, Past, reads
<1>9. RowsAreSubmitted'
  BY <1>1, <1>3 DEF YearInv, RowsAreSubmitted, TypeOK
<1> QED
  BY <1>2, <1>6, <1>7, <1>8, <1>9 DEF YearInv

\* While a request is at work nothing has been deleted.
LEMMA StillThere ==
  ASSUME YearInv, \/ \E a \in Attempts : pc[a] \notin Resting
                  \/ \E k \in Lockers : lock[k] \notin {"idle", "done"}
  PROVE  /\ In(Deleted) = {}
         /\ \A b \in Attempts : seen[b] \subseteq In("submitted")
         /\ rows \subseteq In("submitted")
<1>1. In(Deleted) = {}
  BY DEF YearInv, DeletedLast
<1>2. \A b \in Attempts : seen[b] \subseteq In("submitted")
  BY <1>1 DEF YearInv, SeenIsSubmitted
<1>3. rows \subseteq In("submitted")
  BY <1>1 DEF YearInv, RowsAreSubmitted, TypeOK, In
<1> QED
  BY <1>1, <1>2, <1>3

\* A set of sessions within another of the same size is the same.
LEMMA SameSize ==
  ASSUME NEW S \in SUBSET Sessions, NEW T \in SUBSET Sessions,
         S \subseteq T, Cardinality(S) = Cardinality(T)
  PROVE  S = T
<1>1. IsFiniteSet(T)
  BY ExamYearAssumption, FS_Subset
<1> QED
  BY <1>1, FS_Subset

\* A request's step that moves on, or gives up, and perhaps the year with it.
LEMMA MoveKeeps ==
  ASSUME YearInv, NEW a \in Attempts, NEW step \in Steps, Move(a, step),
         UNCHANGED <<run, open, session, rows, lock>>,
         yearStatus' \in YearStatuses,
         In(Deleted) # {} => yearStatus' = "archived" /\ step \in Resting,
         yearStatus # "active" => yearStatus' # "active",
         step \in Behind => yearStatus' # "active",
         step # "sessions",
         found[a] = "locked" /\ step \in Listed => In("submitted") \subseteq seen[a],
         found[a] = "locked" /\ step \in {"snapshot", "archive", "done"} =>
           In("submitted") \subseteq rows
  PROVE  YearInv'
<1>1. /\ pc' \in [Attempts -> Steps]
      /\ \A b \in Attempts : pc'[b] = IF b = a THEN step ELSE pc[b]
      /\ found' \in [Attempts -> YearStatuses \cup {"none"}]
      /\ unread' \in [Attempts -> SUBSET Runs]
      /\ fit' \in [Attempts -> BOOLEAN]
      /\ seen' \in [Attempts -> SUBSET Sessions]
      /\ \A b \in Attempts : b # a \/ step # "failed" =>
           found'[b] = found[b] /\ unread'[b] = unread[b] /\ seen'[b] = seen[b]
      /\ step = "failed" => found'[a] = "none" /\ seen'[a] = {}
  BY Moved DEF YearInv
<1>2. In("submitted")' = In("submitted") /\ In(Deleted)' = In(Deleted)
  BY DEF In
<1>3. TypeOK'
  BY <1>1 DEF YearInv, TypeOK
<1>4. LockedBehind'
  BY <1>1 DEF YearInv, LockedBehind
<1>5. DeletedLast'
  BY <1>1, <1>2 DEF YearInv, DeletedLast
<1>6. SeenIsSubmitted'
  BY <1>1, <1>2 DEF YearInv, SeenIsSubmitted
<1>7. CreatedInRun' /\ RowsAreSubmitted'
  BY DEF YearInv, CreatedInRun, RowsAreSubmitted
<1>8. FinalRead'
  BY <1>1, <1>2 DEF YearInv, FinalRead
<1>9. RetryIsComplete'
  BY <1>1, <1>2 DEF YearInv, RetryIsComplete, Past
<1> QED
  BY <1>3, <1>4, <1>5, <1>6, <1>7, <1>8, <1>9 DEF YearInv

\* Reading the year: what is found is what it is.
LEMMA ReadYearKeeps ==
  ASSUME YearInv, NEW a \in Attempts, ReadYear(a)
  PROVE  YearInv'
<1> DEFINE step == IF yearStatus = "archived" THEN "done" ELSE "runs"
<1>1. /\ pc[a] = "idle" /\ pc' = [pc EXCEPT ![a] = step]
      /\ found' = [found EXCEPT ![a] = yearStatus]
      /\ UNCHANGED <<school, session, unread, fit, seen, rows, lock>>
  BY DEF ReadYear, Goto
<1>2. step \in {"done", "runs"} /\ step \in Steps
  BY DEF Steps
<1>3. step = "done" => yearStatus # "locked"
  OBVIOUS
<1>4. yearStatus = "archived" => step = "done"
  OBVIOUS
<1> HIDE DEF step
<1>5. /\ \A b \in Attempts : pc'[b] = IF b = a THEN step ELSE pc[b]
      /\ \A b \in Attempts : found'[b] = IF b = a THEN yearStatus ELSE found[b]
  BY <1>1 DEF YearInv, TypeOK
<1>6. In("submitted")' = In("submitted") /\ In(Deleted)' = In(Deleted)
  BY <1>1 DEF In
<1>7. TypeOK'
  BY <1>1, <1>2 DEF YearInv, TypeOK, school
<1>8. LockedBehind'
  BY <1>1, <1>2, <1>5 DEF YearInv, LockedBehind, Behind, school
<1>9. DeletedLast'
  BY <1>1, <1>4, <1>5, <1>6 DEF YearInv, DeletedLast, Resting, school
<1>10. SeenIsSubmitted' /\ CreatedInRun' /\ RowsAreSubmitted'
  BY <1>1, <1>6 DEF YearInv, SeenIsSubmitted, CreatedInRun, RowsAreSubmitted, school
<1>11. FinalRead'
  <2>1. \A b \in Attempts : pc'[b] \in Listed => b # a
    BY <1>2, <1>5 DEF Listed, Behind
  <2> QED
    BY <1>1, <1>5, <1>6, <2>1 DEF YearInv, FinalRead
<1>12. RetryIsComplete'
  <2>1. \A b \in Attempts : found'[b] = "locked" /\ Past(b)' =>
          found[b] = "locked" /\ Past(b)
    BY <1>2, <1>3, <1>5 DEF Past
  <2> QED
    BY <1>1, <1>6, <2>1 DEF YearInv, RetryIsComplete
<1> QED
  BY <1>7, <1>8, <1>9, <1>10, <1>11, <1>12 DEF YearInv

\* Listing the runs: a submitted session's run is among them.
LEMMA ReadRunsKeeps ==
  ASSUME YearInv, NEW a \in Attempts, ReadRuns(a)
  PROVE  YearInv'
<1>1. /\ pc[a] = "runs" /\ pc' = [pc EXCEPT ![a] = "sessions"]
      /\ unread' = [unread EXCEPT ![a] = {r \in Runs : run[r] # "none"}]
      /\ fit' = [fit EXCEPT ![a] = \A r \in Runs : run[r] # "scheduled"]
      /\ UNCHANGED <<school, session, found, seen, rows, lock>>
  BY DEF ReadRuns, Goto
<1>2. "sessions" \in Steps
  BY DEF Steps
<1>3. TypeOK'
  BY <1>1, <1>2 DEF YearInv, TypeOK, school
<1>4. /\ \A b \in Attempts : pc'[b] = IF b = a THEN "sessions" ELSE pc[b]
      /\ unread'[a] = {r \in Runs : run[r] # "none"}
      /\ \A b \in Attempts : b # a => unread'[b] = unread[b]
  BY <1>1 DEF YearInv, TypeOK
<1>5. In("submitted")' = In("submitted") /\ In(Deleted)' = In(Deleted)
  BY <1>1 DEF In
<1>6. In(Deleted) = {}
  BY <1>1, StillThere DEF Resting
<1>7. LockedBehind'
  BY <1>1, <1>4 DEF YearInv, LockedBehind, Behind, school
<1>8. DeletedLast'
  BY <1>5, <1>6 DEF DeletedLast
<1>9. SeenIsSubmitted' /\ CreatedInRun' /\ RowsAreSubmitted'
  BY <1>1, <1>5 DEF YearInv, SeenIsSubmitted, CreatedInRun, RowsAreSubmitted, school
<1>10. FinalRead'
  <2>1. \A s \in In("submitted") : RunOf[s] \in unread'[a]
    BY <1>4, ExamYearAssumption DEF YearInv, CreatedInRun, In
  <2> QED
    BY <1>1, <1>4, <1>5, <2>1 DEF YearInv, FinalRead
<1>11. RetryIsComplete'
  BY <1>1, <1>4, <1>5 DEF YearInv, RetryIsComplete, Past
<1> QED
  BY <1>3, <1>7, <1>8, <1>9, <1>10, <1>11 DEF YearInv

\* Reading a run: its submitted sessions are seen from then on.
LEMMA ReadSessionsKeeps ==
  ASSUME YearInv, NEW a \in Attempts, NEW r \in Runs, ReadSessions(a, r)
  PROVE  YearInv'
<1>1. /\ pc[a] = "sessions"
      /\ unread' = [unread EXCEPT ![a] = @ \ {r}]
      /\ seen' = [seen EXCEPT ![a] = @ \cup (Of(r) \cap In("submitted"))]
      /\ fit' = [fit EXCEPT ![a] = @ /\ Of(r) \cap Live = {}]
      /\ UNCHANGED <<school, session, pc, found, rows, lock>>
  BY DEF ReadSessions
<1>2. TypeOK'
  <2>1. Of(r) \cap In("submitted") \subseteq Sessions
    BY DEF In
  <2>2. seen' \in [Attempts -> SUBSET Sessions] /\ unread' \in [Attempts -> SUBSET Runs]
    BY <1>1, <2>1 DEF YearInv, TypeOK
  <2>3. fit' \in [Attempts -> BOOLEAN]
    BY <1>1 DEF YearInv, TypeOK
  <2> QED
    BY <1>1, <2>2, <2>3 DEF YearInv, TypeOK, school
<1>3. /\ seen'[a] = seen[a] \cup (Of(r) \cap In("submitted"))
      /\ unread'[a] = unread[a] \ {r}
      /\ \A b \in Attempts : b # a => seen'[b] = seen[b] /\ unread'[b] = unread[b]
  BY <1>1 DEF YearInv, TypeOK
<1>4. In("submitted")' = In("submitted") /\ In(Deleted)' = In(Deleted)
  BY <1>1 DEF In
<1>5. LockedBehind' /\ DeletedLast' /\ CreatedInRun' /\ RowsAreSubmitted'
  BY <1>1, <1>4 DEF YearInv, LockedBehind, DeletedLast, CreatedInRun, RowsAreSubmitted,
       school
<1>6. SeenIsSubmitted'
  BY <1>3, <1>4 DEF YearInv, SeenIsSubmitted
<1>7. FinalRead'
  <2>1. ASSUME NEW s \in In("submitted"), s \in seen[a] \/ RunOf[s] \in unread[a]
        PROVE  s \in seen'[a] \/ RunOf[s] \in unread'[a]
    BY <1>3, <2>1 DEF Of, In
  <2> QED
    BY <1>1, <1>3, <1>4, <2>1 DEF YearInv, FinalRead
<1>8. RetryIsComplete'
  BY <1>1, <1>4 DEF YearInv, RetryIsComplete, Past
<1> QED
  BY <1>2, <1>5, <1>6, <1>7, <1>8 DEF YearInv

\* The insertion leaves the table with all that the request has seen.
LEMMA InsertKeeps ==
  ASSUME YearInv, NEW a \in Attempts, InsertRows(a)
  PROVE  YearInv'
<1>1. /\ pc[a] = "insert" /\ Move(a, "snapshot") /\ rows' = rows \cup seen[a]
      /\ UNCHANGED <<school, session, lock>>
  BY DEF InsertRows
<1>2. "snapshot" \in Steps /\ "snapshot" # "failed"
  BY DEF Steps
<1>3. pc' = [pc EXCEPT ![a] = "snapshot"] /\ UNCHANGED <<found, unread, fit, seen>>
  BY <1>1 DEF Move, Goto, reads
<1>4. \A b \in Attempts : pc'[b] = IF b = a THEN "snapshot" ELSE pc[b]
  BY <1>3 DEF YearInv, TypeOK
<1>5. /\ In(Deleted) = {}
      /\ \A b \in Attempts : seen[b] \subseteq In("submitted")
      /\ rows \subseteq In("submitted")
  BY <1>1, StillThere DEF Resting
<1>6. In("submitted")' = In("submitted") /\ In(Deleted)' = In(Deleted)
  BY <1>1 DEF In
<1>7. TypeOK'
  BY <1>1, <1>2, <1>3 DEF YearInv, TypeOK, school
<1>8. LockedBehind'
  <2>1. pc[a] \in Behind
    BY <1>1 DEF Behind
  <2> QED
    BY <1>1, <1>3, <1>4, <2>1 DEF YearInv, LockedBehind, school
<1>9. DeletedLast'
  BY <1>5, <1>6 DEF DeletedLast
<1>10. SeenIsSubmitted' /\ CreatedInRun'
  BY <1>1, <1>3, <1>6 DEF YearInv, SeenIsSubmitted, CreatedInRun, school
<1>11. RowsAreSubmitted'
  BY <1>1, <1>5 DEF RowsAreSubmitted, In
<1>12. found[a] = "locked" => In("submitted") \subseteq seen[a]
  BY <1>1 DEF YearInv, FinalRead, Listed, Behind
<1>13. FinalRead'
  BY <1>3, <1>4, <1>6, <1>12 DEF YearInv, FinalRead
<1>14. RetryIsComplete'
  BY <1>1, <1>3, <1>4, <1>6, <1>12 DEF YearInv, RetryIsComplete, Past
<1> QED
  BY <1>7, <1>8, <1>9, <1>10, <1>11, <1>13, <1>14 DEF YearInv

\* Every other step of a request only moves it on, and perhaps the year.
LEMMA RequestKeeps ==
  ASSUME YearInv, NEW a \in Attempts, Archiving(a)
  PROVE  YearInv'
<1>1. yearStatus \in YearStatuses
  BY DEF YearInv, TypeOK
<1>2. pc[a] \notin Resting => In(Deleted) = {}
  BY StillThere
<1>3. pc[a] \in Behind => yearStatus # "active"
  BY DEF YearInv, LockedBehind
<1>4. found[a] = "locked" /\ pc[a] \in Listed /\ pc[a] # "sessions" =>
        In("submitted") \subseteq seen[a]
  BY DEF YearInv, FinalRead
<1>5. found[a] = "locked" /\ pc[a] \in {"snapshot", "archive"} =>
        In("submitted") \subseteq rows
  BY DEF YearInv, RetryIsComplete, Past
<1>6. /\ \A step \in {"lock", "count", "insert", "snapshot", "archive", "done", "failed"} :
           step \in Steps
      /\ Behind = {"count", "insert", "snapshot", "archive"}
      /\ Listed = {"sessions", "lock", "count", "insert", "snapshot", "archive"}
      /\ Resting = {"idle", "done", "failed"}
      /\ YearStatuses = {"active", "locked", "archived"}
  BY DEF Steps, Behind, Listed, Resting, YearStatuses
<1>7. CASE CheckReads(a)
  <2> DEFINE step == IF fit[a] THEN "lock" ELSE "failed"
  <2>1. /\ pc[a] = "sessions" /\ unread[a] = {} /\ Move(a, step)
        /\ UNCHANGED <<school, session, rows, lock>>
    BY <1>7 DEF CheckReads
  <2>2. step \in {"lock", "failed"}
    OBVIOUS
  <2>3. found[a] = "locked" => In("submitted") \subseteq seen[a]
    BY <1>6, <2>1 DEF YearInv, FinalRead
  <2> HIDE DEF step
  <2> QED
    BY <1>1, <1>2, <1>6, <2>1, <2>2, <2>3, MoveKeeps DEF school
<1>8. CASE LockYear(a)
  <2>1. /\ pc[a] = "lock" /\ Move(a, "count")
        /\ yearStatus' = IF yearStatus = "active" THEN "locked" ELSE yearStatus
        /\ UNCHANGED <<run, open, session, rows, lock>>
    BY <1>8 DEF LockYear
  <2> QED
    BY <1>1, <1>2, <1>4, <1>6, <2>1, MoveKeeps
<1>9. CASE CountRows(a)
  <2> DEFINE step == AfterCount(a)
  <2>1. /\ pc[a] = "count" /\ Move(a, step)
        /\ UNCHANGED <<school, session, rows, lock>>
    BY <1>9 DEF CountRows
  <2>2. step \in {"snapshot", "insert", "failed"}
    BY DEF AfterCount
  <2>3. step = "snapshot" => Cardinality(rows) = Cardinality(seen[a])
    BY DEF AfterCount
  <2> HIDE DEF step
  <2>4. step = "snapshot" /\ found[a] = "locked" => In("submitted") \subseteq rows
    <3>1. rows \subseteq In("submitted")
      BY <1>6, <2>1, StillThere
    <3>2. found[a] = "locked" => In("submitted") \subseteq seen[a]
      BY <1>4, <1>6, <2>1
    <3>3. /\ seen[a] \in SUBSET Sessions /\ rows \in SUBSET Sessions
      BY DEF YearInv, TypeOK
    <3> QED
      BY <2>3, <3>1, <3>2, <3>3, SameSize
  <2> QED
    BY <1>1, <1>2, <1>3, <1>4, <1>6, <2>1, <2>2, <2>4, MoveKeeps DEF school
<1>10. CASE TakeSnapshot(a)
  <2>1. /\ pc[a] = "snapshot" /\ Move(a, "archive")
        /\ UNCHANGED <<school, session, rows, lock>>
    BY <1>10 DEF TakeSnapshot
  <2> QED
    BY <1>1, <1>2, <1>3, <1>4, <1>5, <1>6, <2>1, MoveKeeps DEF school
<1>11. CASE SetArchived(a)
  <2>1. /\ pc[a] = "archive" /\ Move(a, "done") /\ yearStatus' = "archived"
        /\ UNCHANGED <<run, open, session, rows, lock>>
    BY <1>11 DEF SetArchived
  <2> QED
    BY <1>5, <1>6, <2>1, MoveKeeps
<1>12. CASE AttemptFails(a)
  <2>1. /\ pc[a] \notin Resting /\ Move(a, "failed")
        /\ UNCHANGED <<school, session, rows, lock>>
    BY <1>12 DEF AttemptFails, Resting
  <2> QED
    BY <1>1, <1>2, <1>6, <2>1, MoveKeeps DEF school
<1> QED
  BY <1>7, <1>8, <1>9, <1>10, <1>11, <1>12, ReadYearKeeps, ReadRunsKeeps,
     ReadSessionsKeeps, InsertKeeps DEF Archiving

\* The settings' lock keeps the invariant: when it makes an archived year
\* locked again, nothing of it has been deleted.
LEMMA LockerKeeps ==
  ASSUME YearInv, NEW k \in Lockers, Locking(k)
  PROVE  YearInv'
<1> DEFINE LockSteps == {"idle", "runs", "write", "done"}
<1>1. /\ UNCHANGED <<run, open, session, pc, found, unread, fit, seen, rows>>
      /\ \/ UNCHANGED yearStatus
         \/ lock[k] = "write" /\ yearStatus' = "locked"
      /\ \E step \in LockSteps :
           /\ lock' = [lock EXCEPT ![k] = step]
           /\ lock[k] = "idle" /\ yearStatus = "archived" => step = "done"
           /\ UNCHANGED yearStatus \/ step = "done"
           /\ step = "idle" => lock[k] = "idle"
  <2>1. CASE ReadYearToLock(k)
    BY <2>1 DEF ReadYearToLock, school, reads
  <2>2. CASE CheckRuns(k)
    BY <2>2 DEF CheckRuns, school, reads
  <2>3. CASE SetLocked(k)
    BY <2>3 DEF SetLocked, reads
  <2>4. CASE LockFails(k)
    BY <2>4 DEF LockFails, school, reads
  <2> QED
    BY <2>1, <2>2, <2>3, <2>4 DEF Locking
<1>2. PICK step \in LockSteps :
        /\ lock' = [lock EXCEPT ![k] = step]
        /\ lock[k] = "idle" /\ yearStatus = "archived" => step = "done"
  BY <1>1
<1>3. In(Deleted) # {} => UNCHANGED yearStatus /\ step \in {"idle", "done"}
  <2>1. lock[k] \notin {"idle", "done"} => In(Deleted) = {}
    BY StillThere
  <2>2. lock[k] \in {"idle", "done"} => UNCHANGED yearStatus
    BY <1>1
  <2>3. lock[k] # "done"
    BY DEF Locking, ReadYearToLock, CheckRuns, SetLocked, LockFails
  <2>4. In(Deleted) # {} => yearStatus = "archived"
    BY DEF YearInv, DeletedLast
  <2> QED
    BY <1>2, <2>1, <2>2, <2>3, <2>4
<1>4. In("submitted")' = In("submitted") /\ In(Deleted)' = In(Deleted)
  BY <1>1 DEF In
<1>5. /\ yearStatus' \in YearStatuses
      /\ yearStatus # "active" => yearStatus' # "active"
  BY <1>1 DEF YearInv, TypeOK, YearStatuses
<1>6. TypeOK'
  BY <1>1, <1>2, <1>5 DEF YearInv, TypeOK
<1>7. LockedBehind'
  BY <1>1, <1>5 DEF YearInv, LockedBehind
<1>8. DeletedLast'
  <2>1. \A j \in Lockers : lock'[j] = IF j = k THEN step ELSE lock[j]
    BY <1>2 DEF YearInv, TypeOK
  <2> QED
    BY <1>1, <1>3, <1>4, <2>1 DEF YearInv, DeletedLast
<1>9. SeenIsSubmitted' /\ FinalRead' /\ RetryIsComplete'
  BY <1>1, <1>4 DEF YearInv, SeenIsSubmitted, FinalRead, RetryIsComplete, Past
<1>10. CreatedInRun' /\ RowsAreSubmitted'
  BY <1>1 DEF YearInv, CreatedInRun, RowsAreSubmitted
<1> QED
  BY <1>6, <1>7, <1>8, <1>9, <1>10 DEF YearInv

\* A step of a run keeps the invariant: what has been created stays created.
LEMMA RunKeeps ==
  ASSUME YearInv, NEW r \in Runs, CreateRun(r) \/ CloseWindow(r) \/ CompleteRun(r)
  PROVE  YearInv'
<1>1. /\ UNCHANGED <<yearStatus, session, pc, found, unread, fit, seen, rows, lock>>
      /\ run' \in [Runs -> {"none", "scheduled", "completed"}] /\ open' \subseteq Runs
      /\ \A q \in Runs : run[q] # "none" => run'[q] # "none"
      /\ \A q \in open' : run'[q] # "none"
  <2>1. run \in [Runs -> {"none", "scheduled", "completed"}] /\ open \subseteq Runs
    BY DEF YearInv, TypeOK
  <2>2. \A q \in open : run[q] # "none"
    BY DEF YearInv, CreatedInRun
  <2>3. CASE CreateRun(r)
    BY <2>1, <2>2, <2>3 DEF CreateRun, reads
  <2>4. CASE CloseWindow(r)
    BY <2>1, <2>2, <2>4 DEF CloseWindow, reads
  <2>5. CASE CompleteRun(r)
    BY <2>1, <2>2, <2>5 DEF CompleteRun, reads
  <2> QED
    BY <2>3, <2>4, <2>5
<1>2. TypeOK'
  BY <1>1 DEF YearInv, TypeOK
<1>3. In("submitted")' = In("submitted") /\ In(Deleted)' = In(Deleted)
  BY <1>1 DEF In
<1>4. CreatedInRun'
  BY <1>1, ExamYearAssumption DEF YearInv, CreatedInRun
<1> QED
  BY <1>1, <1>2, <1>3, <1>4 DEF YearInv, LockedBehind, DeletedLast, SeenIsSubmitted,
       FinalRead, RowsAreSubmitted, RetryIsComplete, Past

\* Every step keeps the invariant.
LEMMA StepYear == YearInv /\ [Next]_vars => YearInv'
<1> SUFFICES ASSUME YearInv, [Next]_vars PROVE YearInv'
  OBVIOUS
<1>1. CASE UNCHANGED vars
  BY <1>1 DEF vars, school, reads, YearInv, TypeOK, LockedBehind, DeletedLast,
       SeenIsSubmitted, CreatedInRun, FinalRead, RowsAreSubmitted, RetryIsComplete,
       Past, In
<1>2. CASE \E r \in Runs : CreateRun(r) \/ CloseWindow(r) \/ CompleteRun(r)
  BY <1>2, RunKeeps
<1>3. CASE \E s \in Sessions : Taking(s) \/ DeleteSession(s)
  BY <1>3, SessionKeeps, DeleteKeeps
<1>4. CASE \E a \in Attempts : Archiving(a)
  BY <1>4, RequestKeeps
<1>5. CASE \E k \in Lockers : Locking(k)
  BY <1>5, LockerKeeps
<1> QED
  BY <1>1, <1>2, <1>3, <1>4, <1>5 DEF Next

\* The inductive invariant of the year, its requests and its retention.
THEOREM YearInvariant == Spec => []YearInv
BY InitYear, StepYear, PTL DEF Spec

\* Every variable keeps its type.
THEOREM TypeCorrect == Spec => []TypeOK
<1>1. YearInv => TypeOK
  BY DEF YearInv
<1> QED
  BY <1>1, YearInvariant, PTL

\* Only submitted sessions are exported, however the requests interleave.
THEOREM ExportedAreSubmitted == Spec => []RowsAreSubmitted
<1>1. YearInv => RowsAreSubmitted
  BY DEF YearInv
<1> QED
  BY <1>1, YearInvariant, PTL

\* A request that found the year locked goes on only with all its submitted
\* sessions in the table: of a year that is locked the separate reads make one,
\* and comparing the row count with the number of sessions read is enough.
THEOREM RetriesAreComplete == Spec => []RetryIsComplete
<1>1. YearInv => RetryIsComplete
  BY DEF YearInv
<1> QED
  BY <1>1, YearInvariant, PTL

\* A step that is no session's leaves the sessions alone.
LEMMA SessionsAlone ==
  ASSUME [Next]_vars
  PROVE  \/ UNCHANGED session
         \/ \E s \in Sessions : Taking(s) \/ DeleteSession(s)
BY DEF Next, vars, CreateRun, CloseWindow, CompleteRun, Archiving, ReadYear, ReadRuns,
     ReadSessions, CheckReads, LockYear, CountRows, InsertRows, TakeSnapshot,
     SetArchived, AttemptFails, Locking, ReadYearToLock, CheckRuns, SetLocked, LockFails

\* No session becomes submitted once the year is locked: finalizing looks at
\* the year, and no other transition by a student or a teacher submits.
THEOREM LockIsFinal == Spec => LockedYearIsFinal
<1>1. ASSUME YearInv, [Next]_vars
      PROVE  [yearStatus # "active" =>
                In("submitted")' \subseteq In("submitted")]_vars
  <2>1. ASSUME NEW s \in Sessions, Taking(s), yearStatus # "active"
        PROVE  In("submitted")' \subseteq In("submitted")
    BY <1>1, <2>1, SessionStep DEF YearInv
  <2>2. ASSUME NEW s \in Sessions, DeleteSession(s)
        PROVE  In("submitted")' \subseteq In("submitted")
    <3>1. Deleted # "submitted"
      BY ExamYearAssumption DEF Statuses
    <3> QED
      BY <1>1, <2>2, <3>1 DEF DeleteSession, YearInv, TypeOK, In
  <2>3. ASSUME UNCHANGED session PROVE In("submitted")' = In("submitted")
    BY <2>3 DEF In
  <2> QED
    BY <1>1, <2>1, <2>2, <2>3, SessionsAlone
<1> QED
  BY <1>1, YearInvariant, PTL DEF Spec, LockedYearIsFinal

-----------------------------------------------------------------------------
\* A student never has more session documents in a run than startSession's
\* query returns.
FewSessions ==
  \A s \in Sessions :
    Cardinality({t \in Of(RunOf[s]) : StudentOf[t] = StudentOf[s]}) <= QueryLimit

\* Then the query returns them all.
LEMMA WholeResult ==
  ASSUME FewSessions, NEW s \in Sessions, NEW result \in QueryResults(s)
  PROVE  result = Siblings(s)
<1> DEFINE Mine == {t \in Of(RunOf[s]) : StudentOf[t] = StudentOf[s]}
<1>1. result \subseteq Siblings(s) /\ Siblings(s) \subseteq Mine
  BY DEF QueryResults, Siblings
<1>2. /\ IsFiniteSet(Mine) /\ IsFiniteSet(Siblings(s)) /\ IsFiniteSet(result)
      /\ Cardinality(Siblings(s)) <= Cardinality(Mine)
      /\ Cardinality(result) <= Cardinality(Siblings(s))
      /\ Cardinality(result) = Cardinality(Siblings(s)) => result = Siblings(s)
  <2>1. IsFiniteSet(Mine)
    <3>1. Mine \subseteq Sessions
      BY DEF Of
    <3> QED
      BY <3>1, ExamYearAssumption, FS_Subset
  <2>2. IsFiniteSet(Siblings(s)) /\ Cardinality(Siblings(s)) <= Cardinality(Mine)
    BY <1>1, <2>1, FS_Subset
  <2> QED
    BY <1>1, <2>1, <2>2, FS_Subset
<1>3. Cardinality(Mine) <= QueryLimit
  BY DEF FewSessions
<1>4. /\ Cardinality(Mine) \in Nat /\ Cardinality(Siblings(s)) \in Nat
      /\ Cardinality(result) \in Nat /\ QueryLimit \in Nat
  BY <1>2, ExamYearAssumption, FS_CardinalityType
<1>5. result = Siblings(s) \/ Cardinality(result) = QueryLimit
  BY DEF QueryResults
<1> HIDE DEF Mine
<1> QED
  BY <1>2, <1>3, <1>4, <1>5

\* A step makes no session live but the one startSession creates.
LEMMA LiveStep ==
  ASSUME TypeOK, [Next]_vars
  PROVE  \/ Live' \subseteq Live
         \/ \E s \in Sessions : StartSession(s) /\ Live' \subseteq Live \cup {s}
<1>1. ASSUME NEW s \in Sessions, NEW to,
             session' = [session EXCEPT ![s] = to]
      PROVE  /\ Live' \subseteq Live \cup {s}
             /\ to \notin LiveStatuses => Live' \subseteq Live
             /\ session[s] \in LiveStatuses => Live' \subseteq Live
  BY <1>1 DEF Live, TypeOK
<1>2. ASSUME NEW s \in Sessions, StartSession(s)
      PROVE  Live' \subseteq Live \cup {s}
  BY <1>1, <1>2 DEF StartSession
<1>3. ASSUME NEW s \in Sessions, SubmitSession(s)
      PROVE  Live' \subseteq Live
  BY <1>1, <1>3 DEF SubmitSession, LiveStatuses
<1>4. ASSUME NEW s \in Sessions, DeleteSession(s)
      PROVE  Live' \subseteq Live
  <2>1. Deleted \notin LiveStatuses
    BY ExamYearAssumption DEF Statuses, LiveStatuses
  <2> QED
    BY <1>1, <1>4, <2>1 DEF DeleteSession
<1>5. ASSUME NEW s \in Sessions, NEW to \in Statuses, TransitionSession(s, to)
      PROVE  Live' \subseteq Live
  <2>1. session[s] \in Statuses /\ to \in AllowedNext[session[s]]
    BY <1>5 DEF TransitionSession, TransitionAllowed
  <2>2. session[s] \in LiveStatuses \/ to \notin LiveStatuses
    BY <2>1 DEF AllowedNext, Statuses, LiveStatuses
  <2> QED
    BY <1>1, <1>5, <2>2 DEF TransitionSession
<1>6. ASSUME UNCHANGED session PROVE Live' \subseteq Live
  BY <1>6 DEF Live
<1> QED
  BY <1>2, <1>3, <1>4, <1>5, <1>6, SessionsAlone DEF Taking

\* A student has at most one live session in a run, as long as the limit of
\* startSession's query is not exceeded.
THEOREM OneLive == FewSessions => (Spec => []OneLiveSession)
<1> SUFFICES ASSUME FewSessions PROVE Spec => []OneLiveSession
  OBVIOUS
<1>1. Init => OneLiveSession
  BY DEF Init, OneLiveSession, Live, LiveStatuses
<1>2. ASSUME TypeOK, OneLiveSession, [Next]_vars
      PROVE  OneLiveSession'
  <2>1. CASE Live' \subseteq Live
    BY <1>2, <2>1 DEF OneLiveSession
  <2>2. ASSUME NEW s \in Sessions, StartSession(s), Live' \subseteq Live \cup {s}
        PROVE  OneLiveSession'
    <3>1. Siblings(s) \cap Live = {}
      BY <2>2, WholeResult DEF StartSession, NoneLive
    <3>2. \A t \in Live : ~(StudentOf[t] = StudentOf[s] /\ RunOf[t] = RunOf[s])
      <4>1. "none" \notin LiveStatuses /\ Deleted \notin LiveStatuses
        BY ExamYearAssumption DEF Statuses, LiveStatuses
      <4> QED
        BY <3>1, <4>1 DEF Live, Siblings, Of
    <3> QED
      BY <1>2, <2>2, <3>2 DEF OneLiveSession
  <2> QED
    BY <1>2, <2>1, <2>2, LiveStep
<1> QED
  BY <1>1, <1>2, TypeCorrect, PTL DEF Spec
=============================================================================
