---------------------------- MODULE BillingProofs ----------------------------
(* Theorems about Billing, for any students, months, events and tasks: type *)
(* correctness, that no bill shows more than its meter, and that the        *)
(* figures of a bill are final.                                             *)
EXTENDS Billing, FiniteSetTheorems, TLAPS

(* A meter never counts more students than at its peak.                     *)
PeakIsHighest ==
    \A c \in Cycles : meter[c] # None => meter[c].count <= meter[c].peak

(* What a task has read of a meter is still within it.                      *)
ReadIsWithinMeter ==
    \A t \in Tasks : task[t] # None /\ task[t].read # None =>
        LET m == meter[task[t].cycle]  r == task[t].read
        IN  m # None /\ r.count <= r.peak /\ r.peak <= m.peak

(* Only a webhook's task comes back to a bill, with its status.             *)
BilledHasStatus ==
    \A t \in Tasks : task[t] # None /\ task[t].billed => task[t].status # None

BillInv ==
    /\ TypeOK
    /\ PeakIsHighest
    /\ BilledHasStatus
    /\ ReadIsWithinMeter
    /\ BillIsWithinMeter

(* The events are numbered from one.                                        *)
LEMMA IdsAreNumbers ==
    ASSUME NEW n \in Nat, NEW f, f \in [1 .. n -> Event]
    PROVE  Cardinality(DOMAIN f) = n
<1>1. DOMAIN f = 1 .. n
  OBVIOUS
<1> QED
  BY <1>1, FS_Interval

(* A new event takes the next number and leaves the others as they are.     *)
LEMMA EmitType ==
    ASSUME TypeOK, NEW cycle \in Cycles, NEW delta \in {-1, 0, 1}, Emit(cycle, delta)
    PROVE  /\ \E n \in 0 .. MaxEvents : events' \in [1 .. n -> Event]
           /\ Ids \subseteq DOMAIN events'
<1>1. PICK n \in 0 .. MaxEvents : events \in [1 .. n -> Event]
  BY DEF TypeOK
<1>2. Cardinality(Ids) = n /\ Ids = 1 .. n
  BY <1>1, IdsAreNumbers, BillingAssumption DEF Ids
<1>3. n < MaxEvents /\ n + 1 \in 0 .. MaxEvents
  BY <1>1, <1>2, BillingAssumption DEF Emit
<1>4. 1 .. n \cup {n + 1} = 1 .. (n + 1)
  BY <1>1
<1>5. [at |-> month, cycle |-> cycle, delta |-> delta] \in Event
  BY DEF TypeOK, Event
<1>6. events' = [i \in 1 .. (n + 1) |-> IF i \in 1 .. n THEN events[i]
                     ELSE [at |-> month, cycle |-> cycle, delta |-> delta]]
  BY <1>2, <1>4 DEF Emit
<1>7. events' \in [1 .. (n + 1) -> Event]
  BY <1>1, <1>5, <1>6
<1> QED
  BY <1>2, <1>3, <1>4, <1>6, <1>7

(* What an event makes of its month's meter.                                *)
LEMMA NewFigures ==
    ASSUME TypeOK, NEW e \in Event
    PROVE  /\ NewCount(e) \in Nat /\ NewPeak(e) \in Nat
           /\ NewCount(e) <= NewPeak(e)
           /\ meter[e.cycle] # None => meter[e.cycle].peak <= NewPeak(e)
<1>1. e.cycle \in Cycles /\ e.delta \in Int
  BY DEF Event
<1>2. meter[e.cycle] = None \/ meter[e.cycle] \in Meter
  BY <1>1 DEF TypeOK
<1>3. Cardinality(Active) \in Nat
  BY FS_Subset, FS_CardinalityType, BillingAssumption DEF Active
<1>4. NewCount(e) \in Nat
  BY <1>1, <1>2, <1>3 DEF NewCount, Meter
<1>5. /\ OldMeter(e.cycle).peak \in Nat
      /\ meter[e.cycle] # None => OldMeter(e.cycle) = meter[e.cycle]
  BY <1>2 DEF OldMeter, Meter
<1> HIDE DEF OldMeter
<1> QED
  BY <1>4, <1>5 DEF NewPeak

-----------------------------------------------------------------------------
(* Nothing has been metered at first.                                      *)
LEMMA BillInit == Init => BillInv
<1> SUFFICES ASSUME Init PROVE BillInv
  OBVIOUS
<1>1. events \in [1 .. 0 -> Event]
  BY DEF Init
<1>2. \E n \in 0 .. MaxEvents : events \in [1 .. n -> Event]
  BY <1>1, BillingAssumption
<1>3. month \in Cycles /\ student \in [Students -> Status] /\ updatedAt \in [Students -> Cycles]
  BY BillingAssumption DEF Init, Cycles, Status
<1>4. TypeOK
  BY <1>2, <1>3 DEF Init, TypeOK
<1> QED
  BY <1>4 DEF Init, BillInv, PeakIsHighest, BilledHasStatus, ReadIsWithinMeter, BillIsWithinMeter

(* Students change and runs are created: meters, tasks and bills are not     *)
(* touched.                                                                 *)
LEMMA RosterKeeps == BillInv /\ (Roster \/ EndMonth) => BillInv'
<1> SUFFICES ASSUME BillInv, Roster \/ EndMonth PROVE BillInv'
  OBVIOUS
<1> USE DEF BillInv
<1>1. /\ meter' = meter /\ metered' = metered /\ task' = task /\ spent' = spent
      /\ bill' = bill /\ drifted' = drifted
  BY DEF Roster, EndMonth, FirstLogin, SoftDelete, UploadNames, UploadDeactivates,
         CreateRun, meterVars, billVars, studentVars
<1>2. /\ month' \in Cycles /\ due' \in SUBSET Cycles
      /\ student' \in [Students -> Status] /\ updatedAt' \in [Students -> Cycles]
  <2>1. CASE EndMonth
    BY <2>1, BillingAssumption DEF EndMonth, studentVars, TypeOK, Cycles
  <2>2. CASE CreateRun
    BY <2>2 DEF CreateRun, studentVars, TypeOK
  <2>3. ASSUME NEW s \in Students,
               FirstLogin(s) \/ SoftDelete(s) \/ UploadNames(s) \/ UploadDeactivates(s)
        PROVE  /\ month' = month /\ due' = due
               /\ student' \in [Students -> Status] /\ updatedAt' \in [Students -> Cycles]
    BY <2>3 DEF FirstLogin, SoftDelete, UploadNames, UploadDeactivates, ChangeStatus,
                Earlier, TypeOK, Status
  <2> QED
    BY <2>1, <2>2, <2>3 DEF Roster, TypeOK
<1>3. /\ \E n \in 0 .. MaxEvents : events' \in [1 .. n -> Event]
      /\ Ids \subseteq DOMAIN events'
  <2>1. CASE events' = events
    BY <2>1 DEF TypeOK, Ids
  <2>2. CASE \E cycle \in Cycles, delta \in {-1, 0, 1} : Emit(cycle, delta)
    BY <2>2, EmitType
  <2> QED
    BY <2>1, <2>2
       DEF Roster, EndMonth, FirstLogin, SoftDelete, UploadNames, UploadDeactivates,
           CreateRun, DatedBy, TypeOK
<1>4. metered' \in [Cycles -> SUBSET Ids']
  BY <1>1, <1>3 DEF TypeOK, Ids
<1>5. TypeOK'
  BY <1>1, <1>2, <1>3, <1>4 DEF TypeOK
<1> QED
  BY <1>1, <1>5 DEF PeakIsHighest, ReadIsWithinMeter, BilledHasStatus, BillIsWithinMeter

(* An event is metered: the peak of its month never falls.                  *)
LEMMA RecordKeeps ==
    ASSUME BillInv, NEW i \in Ids, Record(i)
    PROVE  BillInv'
<1> USE DEF BillInv
<1> DEFINE e == events[i]
           c == e.cycle
           new == [count |-> NewCount(e), peak |-> NewPeak(e)]
<1>1. e \in Event /\ c \in Cycles
  BY DEF TypeOK, Ids, Event
<1>2. /\ meter' = [meter EXCEPT ![c] = new]
      /\ metered' = [metered EXCEPT ![c] = @ \cup {i}]
      /\ drifted' \in {drifted, drifted \cup {c}}
      /\ month' = month /\ student' = student /\ updatedAt' = updatedAt
      /\ events' = events /\ due' = due
      /\ task' = task /\ spent' = spent /\ bill' = bill
  BY DEF Record, studentVars, billVars
<1>3. /\ new \in Meter /\ new # None /\ new.count <= new.peak
      /\ meter[c] # None => meter[c].peak <= new.peak
  BY <1>1, NewFigures, NoneAssumption DEF Meter
<1> HIDE DEF new
<1>4. /\ \A d \in Cycles : meter'[d] = IF d = c THEN new ELSE meter[d]
      /\ \A d \in Cycles : meter[d] # None =>
             meter'[d] # None /\ meter[d].peak <= meter'[d].peak
  <2>1. \A d \in Cycles : meter[d] # None => meter[d] \in Meter
    BY DEF TypeOK
  <2> QED
    BY <1>1, <1>2, <1>3, <2>1 DEF TypeOK, Meter
<1>5. TypeOK'
  <2>1. metered' \in [Cycles -> SUBSET Ids']
    BY <1>1, <1>2 DEF TypeOK, Ids
  <2> QED
    BY <1>1, <1>2, <1>3, <2>1 DEF TypeOK
<1>6. PeakIsHighest'
  BY <1>3, <1>4 DEF PeakIsHighest
<1>7. ReadIsWithinMeter'
  <2> SUFFICES ASSUME NEW t \in Tasks, task[t] # None, task[t].read # None
               PROVE  LET m == meter'[task[t].cycle]  r == task[t].read
                      IN  m # None /\ r.count <= r.peak /\ r.peak <= m.peak
    BY <1>2 DEF ReadIsWithinMeter
  <2>1. task[t].cycle \in Cycles /\ task[t].read \in Meter
    BY DEF TypeOK, Work
  <2>2. meter'[task[t].cycle] \in Meter \cup {None}
    BY <1>5, <2>1 DEF TypeOK
  <2>3. meter[task[t].cycle] \in Meter \cup {None}
    BY <2>1 DEF TypeOK
  <2> QED
    BY <1>4, <2>1, <2>2, <2>3 DEF ReadIsWithinMeter, Meter
<1>8. BillIsWithinMeter'
  <2> SUFFICES ASSUME NEW d \in Cycles, bill[d] # None
               PROVE  /\ meter'[d] # None
                      /\ bill[d].count <= bill[d].peak
                      /\ bill[d].peak <= meter'[d].peak
    BY <1>2 DEF BillIsWithinMeter
  <2>1. bill[d] \in Bill /\ meter[d] \in Meter \cup {None}
    BY DEF TypeOK
  <2>2. meter'[d] \in Meter \cup {None}
    BY <1>5 DEF TypeOK
  <2> QED
    BY <1>4, <2>1, <2>2 DEF BillIsWithinMeter, Meter, Bill
<1>9. BilledHasStatus'
  BY <1>2 DEF BilledHasStatus
<1> QED
  BY <1>5, <1>6, <1>7, <1>8, <1>9

(* A task begins with what it finds of its month's meter.                   *)
LEMMA BeginKeeps ==
    ASSUME BillInv, NEW t \in Tasks, NEW c \in Cycles, NEW status \in Statuses \cup {None},
           Begin(t, c, status), due' \in SUBSET Cycles
    PROVE  BillInv'
<1> USE DEF BillInv
<1> DEFINE work == [cycle |-> c, read |-> meter[c], billed |-> FALSE, status |-> status]
<1>1. work \in Work
  BY DEF Work, TypeOK
<1>2. /\ task' = [task EXCEPT ![t] = work] /\ spent' = spent \cup {t}
      /\ month' = month /\ student' = student /\ updatedAt' = updatedAt
      /\ events' = events /\ metered' = metered /\ meter' = meter
      /\ bill' = bill /\ drifted' = drifted
  BY DEF Begin, studentVars, meterVars
<1>3. TypeOK'
  BY <1>1, <1>2 DEF TypeOK, Ids
<1>4. ReadIsWithinMeter' /\ BilledHasStatus'
  <2>1. meter[c] # None => meter[c] \in Meter /\ meter[c].count <= meter[c].peak
    BY DEF TypeOK, PeakIsHighest
  <2> QED
    BY <1>2, <2>1 DEF ReadIsWithinMeter, BilledHasStatus, TypeOK, Meter
<1> QED
  BY <1>2, <1>3, <1>4 DEF PeakIsHighest, BillIsWithinMeter

(* A task goes on: it creates a bill from what it has read, or gives the     *)
(* existing one a payment status, or ends.                                  *)
LEMMA TaskKeeps ==
    ASSUME BillInv, NEW t \in Tasks,
           PersistBillingSnapshot(t) \/ WriteStatus(t) \/ TaskFails(t)
    PROVE  /\ BillInv'
           /\ \A c \in Cycles : bill[c] # None =>
                  /\ bill'[c] # None
                  /\ \E status \in Statuses :
                         bill'[c] = [bill[c] EXCEPT !.status = status]
<1> USE DEF BillInv
<1>1. /\ task[t] # None /\ task[t] \in Work
      /\ month' = month /\ student' = student /\ updatedAt' = updatedAt
      /\ events' = events /\ metered' = metered /\ meter' = meter /\ due' = due
      /\ spent' = spent /\ drifted' = drifted
  BY DEF PersistBillingSnapshot, WriteStatus, TaskFails, studentVars, meterVars, TypeOK
<1> DEFINE c == task[t].cycle
           read == task[t].read
<1>2. c \in Cycles /\ read \in Meter \cup {None} /\ task[t].status \in Statuses \cup {None}
  BY <1>1 DEF Work
<1>3. /\ \A u \in Tasks : u # t => task'[u] = task[u]
      /\ task'[t] = None \/ task'[t] = [task[t] EXCEPT !.billed = TRUE]
      /\ task' \in [Tasks -> Work \cup {None}]
  <2>1. [task[t] EXCEPT !.billed = TRUE] \in Work
    BY <1>1 DEF Work
  <2>2. \/ task' = [task EXCEPT ![t] = None]
        \/ task' = [task EXCEPT ![t] = [task[t] EXCEPT !.billed = TRUE]]
    BY DEF PersistBillingSnapshot, WriteStatus, TaskFails, TypeOK
  <2> QED
    BY <2>1, <2>2 DEF TypeOK
<1>4. \A d \in Cycles : bill[d] # None =>
          \E status \in Statuses : bill'[d] = [bill[d] EXCEPT !.status = status]
  <2> SUFFICES ASSUME NEW d \in Cycles, bill[d] # None
               PROVE  \E status \in Statuses :
                          bill'[d] = [bill[d] EXCEPT !.status = status]
    OBVIOUS
  <2>1. bill[d] \in Bill
    BY DEF TypeOK
  <2>2. bill[d].status \in Statuses /\ bill[d] = [bill[d] EXCEPT !.status = bill[d].status]
    BY <2>1 DEF Bill
  <2>3. CASE PersistBillingSnapshot(t) \/ TaskFails(t)
    <3>1. bill'[d] = bill[d]
      BY <2>3, <1>2 DEF PersistBillingSnapshot, TaskFails, Absent, TypeOK
    <3> QED
      BY <3>1, <2>2
  <2>4. CASE WriteStatus(t)
    <3>1. task[t].status \in Statuses
      BY <2>4, <1>1, <1>2 DEF WriteStatus, BilledHasStatus
    <3> QED
      BY <2>4, <2>2, <1>2, <3>1 DEF WriteStatus, TypeOK
  <2> QED
    BY <2>3, <2>4
<1>5. \A d \in Cycles : bill[d] # None =>
          /\ bill[d] \in Bill /\ bill'[d] \in Bill
          /\ bill'[d].count = bill[d].count /\ bill'[d].peak = bill[d].peak
  <2> SUFFICES ASSUME NEW d \in Cycles, bill[d] # None
               PROVE  /\ bill[d] \in Bill /\ bill'[d] \in Bill
                      /\ bill'[d].count = bill[d].count
                      /\ bill'[d].peak = bill[d].peak
    OBVIOUS
  <2>1. bill[d] \in Bill
    BY DEF TypeOK
  <2>2. PICK status \in Statuses : bill'[d] = [bill[d] EXCEPT !.status = status]
    BY <1>4
  <2> QED
    BY <2>1, <2>2 DEF Bill
<1>6. \A d \in Cycles : bill'[d] # None /\ bill[d] = None =>
          /\ bill'[d] \in Bill /\ meter[d] # None
          /\ bill'[d].count <= bill'[d].peak /\ bill'[d].peak <= meter[d].peak
  <2> SUFFICES ASSUME NEW d \in Cycles, bill'[d] # None, bill[d] = None
               PROVE  /\ bill'[d] \in Bill /\ meter[d] # None
                      /\ bill'[d].count <= bill'[d].peak /\ bill'[d].peak <= meter[d].peak
    OBVIOUS
  <2>1. d = c /\ read # None /\ \E status \in Statuses :
            bill'[d] = [count |-> read.count, peak |-> read.peak, status |-> status]
    <3>1. PersistBillingSnapshot(t)
      BY <1>2 DEF PersistBillingSnapshot, WriteStatus, TaskFails, TypeOK
    <3>2. read # None /\ Absent(c)
      BY <3>1 DEF PersistBillingSnapshot
    <3>3. PICK status \in Statuses :
              bill' = [bill EXCEPT ![c] = [count |-> read.count, peak |-> read.peak,
                                           status |-> status]]
      BY <3>1, <3>2 DEF PersistBillingSnapshot
    <3> QED
      BY <1>2, <3>2, <3>3 DEF TypeOK
  <2> QED
    BY <1>1, <1>2, <2>1 DEF ReadIsWithinMeter, Meter, Bill
<1>7. bill' \in [Cycles -> Bill \cup {None}]
  <2>1. bill' = [d \in Cycles |-> bill'[d]]
    BY DEF PersistBillingSnapshot, WriteStatus, TaskFails, TypeOK
  <2> QED
    BY <2>1, <1>5, <1>6
<1>8. TypeOK'
  BY <1>1, <1>3, <1>7 DEF TypeOK, Ids
<1>9. PeakIsHighest'
  BY <1>1 DEF PeakIsHighest
<1>10. ReadIsWithinMeter' /\ BilledHasStatus'
  <2> SUFFICES ASSUME NEW u \in Tasks, task'[u] # None
               PROVE  /\ task'[u].read # None =>
                             LET m == meter[task'[u].cycle]  r == task'[u].read
                             IN  m # None /\ r.count <= r.peak /\ r.peak <= m.peak
                      /\ task'[u].billed => task'[u].status # None
    BY <1>1 DEF ReadIsWithinMeter, BilledHasStatus
  <2>1. CASE u # t
    BY <2>1, <1>1, <1>3 DEF ReadIsWithinMeter, BilledHasStatus
  <2>2. CASE u = t
    <3>1. task'[t] = [task[t] EXCEPT !.billed = TRUE] /\ task[t].status # None
      BY <2>2, <1>1, <1>3 DEF PersistBillingSnapshot, WriteStatus, TaskFails, TypeOK
    <3>2. /\ task'[t].read = read /\ task'[t].cycle = c
          /\ task'[t].status = task[t].status
      BY <1>1, <3>1 DEF Work
    <3> QED
      BY <2>2, <1>1, <3>1, <3>2 DEF ReadIsWithinMeter
  <2> QED
    BY <2>1, <2>2
<1>11. BillIsWithinMeter'
  BY <1>1, <1>5, <1>6 DEF BillIsWithinMeter
<1> QED
  BY <1>4, <1>5, <1>8, <1>9, <1>10, <1>11, NoneAssumption

(* Every step keeps the invariant of the bill.                             *)
LEMMA BillStep == BillInv /\ [Next]_vars => BillInv'
<1> SUFFICES ASSUME BillInv, [Next]_vars PROVE BillInv'
  OBVIOUS
<1>1. CASE Roster \/ EndMonth
  BY <1>1, RosterKeeps
<1>2. CASE Metering
  BY <1>2, RecordKeeps DEF Metering
<1>3. ASSUME NEW t \in Tasks, GenerateBillingSnapshots(t) PROVE BillInv'
  <2>1. PICK c \in due : Begin(t, c, None) /\ due' = due \ {c}
    BY <1>3 DEF GenerateBillingSnapshots
  <2>2. c \in Cycles /\ due' \in SUBSET Cycles
    BY <2>1 DEF BillInv, TypeOK
  <2> QED
    BY <2>1, <2>2, BeginKeeps
<1>4. ASSUME NEW t \in Tasks, SyncStripeWebhookStatus(t) PROVE BillInv'
  <2>1. PICK c \in 1 .. month, status \in Outcomes : Begin(t, c, status)
    BY <1>4 DEF SyncStripeWebhookStatus
  <2>2. c \in Cycles /\ due' \in SUBSET Cycles /\ status \in Statuses
    BY <1>4, <2>1, BillingAssumption
       DEF SyncStripeWebhookStatus, BillInv, TypeOK, Cycles, Statuses
  <2> QED
    BY <2>1, <2>2, BeginKeeps
<1>5. ASSUME NEW t \in Tasks,
             PersistBillingSnapshot(t) \/ WriteStatus(t) \/ TaskFails(t)
      PROVE  BillInv'
  BY <1>5, TaskKeeps
<1>6. CASE UNCHANGED vars
  BY <1>6 DEF vars, studentVars, meterVars, billVars, BillInv, TypeOK, Ids, PeakIsHighest,
              ReadIsWithinMeter, BilledHasStatus, BillIsWithinMeter
<1> QED
  BY <1>1, <1>2, <1>3, <1>4, <1>5, <1>6 DEF Next, Invoicing

(* The inductive invariant of meters and bills.                             *)
THEOREM BillInvariant == Spec => []BillInv
  BY BillInit, BillStep, PTL DEF Spec

(* Billing is type correct for any students, months, events and tasks.      *)
THEOREM TypeCorrect == Spec => []TypeOK
<1>1. BillInv => TypeOK
  BY DEF BillInv
<1> QED
  BY <1>1, BillInvariant, PTL

(* No bill ever shows more students than the meter of its month.            *)
THEOREM BillIsWithinMeterAlways == Spec => []BillIsWithinMeter
<1>1. BillInv => BillIsWithinMeter
  BY DEF BillInv
<1> QED
  BY <1>1, BillInvariant, PTL

(* Once made, a bill keeps its figures; only its payment status is written.  *)
THEOREM BillIsFrozenAlways == Spec => BillIsFrozen
<1> DEFINE Frozen == \A c \in Cycles : bill[c] # None =>
               /\ bill'[c] # None
               /\ [bill'[c] EXCEPT !.status = bill[c].status] = bill[c]
<1>1. BillInv /\ [Next]_vars => [Frozen]_vars
  <2> SUFFICES ASSUME BillInv, Next PROVE Frozen
    OBVIOUS
  <2>1. \A c \in Cycles : bill[c] # None => bill[c] \in Bill
    BY DEF BillInv, TypeOK
  <2>2. CASE bill' = bill
    BY <2>1, <2>2 DEF Bill
  <2>3. ASSUME NEW t \in Tasks,
               PersistBillingSnapshot(t) \/ WriteStatus(t) \/ TaskFails(t)
        PROVE  Frozen
    <3> SUFFICES ASSUME NEW c \in Cycles, bill[c] # None
                 PROVE  /\ bill'[c] # None
                        /\ [bill'[c] EXCEPT !.status = bill[c].status] = bill[c]
      OBVIOUS
    <3>1. bill'[c] # None
      BY <2>3, TaskKeeps
    <3>2. PICK status \in Statuses : bill'[c] = [bill[c] EXCEPT !.status = status]
      BY <2>3, TaskKeeps
    <3> QED
      BY <2>1, <3>1, <3>2 DEF Bill
  <2> QED
    BY <2>2, <2>3
       DEF Next, Roster, EndMonth, Metering, Invoicing, FirstLogin, SoftDelete, UploadNames,
           UploadDeactivates, CreateRun, Record, GenerateBillingSnapshots,
           SyncStripeWebhookStatus, Begin, billVars
<1> QED
  BY <1>1, BillInvariant, PTL DEF Spec, BillIsFrozen

-----------------------------------------------------------------------------
(* The count of the running month. Changes wait to be metered, those that    *)
(* add a student and those that remove one; what the meter shows, with all  *)
(* of them, is the number of active students.                               *)
Ups(c) == {i \in Pending(c) : events[i].delta = 1}
Downs(c) == {i \in Pending(c) : events[i].delta = -1}

(* Nothing is dated by a month to come, and an event by no later month than  *)
(* the one it happened in.                                                  *)
DatedInThePast ==
    /\ \A s \in Students : updatedAt[s] <= month
    /\ \A i \in Ids : events[i].cycle <= events[i].at /\ events[i].at <= month
    /\ \A c \in Cycles : c > month => meter[c] = None

Balanced ==
    meter[month] # None /\ month \notin drifted /\ Misdated(month) = {} =>
        meter[month].count + Cardinality(Ups(month)) =
            Cardinality(Active) + Cardinality(Downs(month))

CountInv ==
    /\ TypeOK
    /\ DatedInThePast
    /\ Balanced

(* All these sets are finite.                                               *)
LEMMA FiniteSets ==
    ASSUME TypeOK
    PROVE  /\ IsFiniteSet(Active) /\ Cardinality(Active) \in Nat
           /\ \A c : /\ IsFiniteSet(Ups(c)) /\ Cardinality(Ups(c)) \in Nat
                     /\ IsFiniteSet(Downs(c)) /\ Cardinality(Downs(c)) \in Nat
<1>1. IsFiniteSet(Ids)
  <2>1. PICK n \in 0 .. MaxEvents : events \in [1 .. n -> Event]
    BY DEF TypeOK
  <2>2. Ids = 1 .. n
    BY <2>1 DEF Ids
  <2> QED
    BY <2>1, <2>2, FS_Interval, BillingAssumption
<1>2. \A c : Ups(c) \subseteq Ids /\ Downs(c) \subseteq Ids
  BY DEF Ups, Downs, Pending
<1>3. Active \subseteq Students
  BY DEF Active
<1> QED
  BY <1>1, <1>2, <1>3, FS_Subset, FS_CardinalityType, BillingAssumption

(* One student more or less is active.                                      *)
LEMMA StatusCounts ==
    ASSUME TypeOK, NEW s \in Students, NEW from \in Status, NEW to \in Status,
           ChangeStatus(s, from, to)
    PROVE  /\ from # "active" /\ to = "active" =>
                  Cardinality(Active') = Cardinality(Active) + 1
           /\ from = "active" /\ to # "active" =>
                  Cardinality(Active') = Cardinality(Active) - 1
           /\ from # "active" /\ to # "active" => Active' = Active
<1>1. \A t \in Students : student'[t] = IF t = s THEN to ELSE student[t]
  BY DEF ChangeStatus, TypeOK
<1>2. student[s] = from
  BY DEF ChangeStatus
<1>3. CASE from # "active" /\ to = "active"
  <2>1. Active' = Active \cup {s} /\ s \notin Active
    BY <1>1, <1>2, <1>3 DEF Active
  <2> QED
    BY <1>3, <2>1, FiniteSets, FS_AddElement
<1>4. CASE from = "active" /\ to # "active"
  <2>1. Active' = Active \ {s} /\ s \in Active
    BY <1>1, <1>2, <1>4 DEF Active
  <2> QED
    BY <1>4, <2>1, FiniteSets, FS_RemoveElement
<1>5. CASE from # "active" /\ to # "active"
  BY <1>1, <1>2, <1>5 DEF Active
<1> QED
  BY <1>3, <1>4, <1>5

(* A new event of the running month waits to be metered.                    *)
LEMMA EmitCounts ==
    ASSUME TypeOK, NEW delta \in {-1, 0, 1}, Emit(month, delta),
           metered' = metered, month' = month
    PROVE  /\ Cardinality(Ups(month)') = Cardinality(Ups(month)) + (IF delta = 1 THEN 1 ELSE 0)
           /\ Cardinality(Downs(month)') = Cardinality(Downs(month)) + (IF delta = -1 THEN 1 ELSE 0)
<1>1. PICK n \in 0 .. MaxEvents : events \in [1 .. n -> Event]
  BY DEF TypeOK
<1>2. Cardinality(Ids) = n /\ Ids = 1 .. n
  BY <1>1, IdsAreNumbers, BillingAssumption DEF Ids
<1>3. /\ n + 1 \notin Ids
      /\ Ids' = Ids \cup {n + 1}
      /\ \A i \in Ids : events'[i] = events[i]
      /\ events'[n + 1] = [at |-> month, cycle |-> month, delta |-> delta]
  BY <1>1, <1>2 DEF Emit, Ids
<1>4. n + 1 \notin metered[month]
  BY <1>3 DEF TypeOK
<1>5. Pending(month)' = Pending(month) \cup {n + 1}
  BY <1>3, <1>4 DEF Pending
<1>6. n + 1 \notin Pending(month)
  BY <1>3 DEF Pending
<1>7. \A i \in Pending(month) : events'[i] = events[i]
  BY <1>3 DEF Pending
<1>8. /\ Ups(month)' = Ups(month) \cup (IF delta = 1 THEN {n + 1} ELSE {})
      /\ n + 1 \notin Ups(month)
  BY <1>3, <1>5, <1>6, <1>7 DEF Ups
<1>9. /\ Downs(month)' = Downs(month) \cup (IF delta = -1 THEN {n + 1} ELSE {})
      /\ n + 1 \notin Downs(month)
  BY <1>3, <1>5, <1>6, <1>7 DEF Downs
<1>10. Cardinality(Ups(month)') = Cardinality(Ups(month)) + (IF delta = 1 THEN 1 ELSE 0)
  <2>1. IsFiniteSet(Ups(month)) /\ Cardinality(Ups(month)) \in Nat
    BY FiniteSets
  <2>2. Cardinality(Ups(month) \cup {n + 1}) = Cardinality(Ups(month)) + 1
    BY <1>8, <2>1, FS_AddElement
  <2>3. CASE delta = 1
    <3>1. Ups(month)' = Ups(month) \cup {n + 1}
      BY <1>8, <2>3
    <3> QED
      BY <2>2, <2>3, <3>1
  <2>4. CASE delta # 1
    <3>1. Ups(month)' = Ups(month)
      BY <1>8, <2>4
    <3> QED
      BY <2>1, <2>4, <3>1
  <2> QED
    BY <2>3, <2>4
<1>11. Cardinality(Downs(month)') = Cardinality(Downs(month)) + (IF delta = -1 THEN 1 ELSE 0)
  <2>1. IsFiniteSet(Downs(month)) /\ Cardinality(Downs(month)) \in Nat
    BY FiniteSets
  <2>2. Cardinality(Downs(month) \cup {n + 1}) = Cardinality(Downs(month)) + 1
    BY <1>9, <2>1, FS_AddElement
  <2>3. CASE delta = -1
    <3>1. Downs(month)' = Downs(month) \cup {n + 1}
      BY <1>9, <2>3
    <3> QED
      BY <2>2, <2>3, <3>1
  <2>4. CASE delta # -1
    <3>1. Downs(month)' = Downs(month)
      BY <1>9, <2>4
    <3> QED
      BY <2>1, <2>4, <3>1
  <2> QED
    BY <2>3, <2>4
<1> QED
  BY <1>10, <1>11

(* The roster changes: a change of the running month waits in it, any other *)
(* is misdated.                                                             *)
LEMMA RosterCounts ==
    ASSUME CountInv, Roster
    PROVE  Balanced'
<1> USE DEF CountInv
<1>1. /\ meter' = meter /\ metered' = metered /\ drifted' = drifted /\ month' = month
  BY DEF Roster, FirstLogin, SoftDelete, UploadNames, UploadDeactivates, CreateRun,
         meterVars
<1>2. month \in Cycles /\ (meter[month] # None => meter[month].count \in Nat)
  BY DEF TypeOK, Meter
<1>3. ASSUME NEW cycle \in Cycles, NEW delta \in {-1, 0, 1}, Emit(cycle, delta),
             Cardinality(Active') = Cardinality(Active) + delta
      PROVE  Balanced'
  <2>1. PICK n \in 0 .. MaxEvents : events \in [1 .. n -> Event]
    BY DEF TypeOK
  <2>2. Cardinality(Ids) = n /\ Ids = 1 .. n
    BY <2>1, IdsAreNumbers, BillingAssumption DEF Ids
  <2>3. /\ n + 1 \notin Ids
        /\ Ids' = Ids \cup {n + 1}
        /\ \A i \in Ids : events'[i] = events[i]
        /\ events'[n + 1] = [at |-> month, cycle |-> cycle, delta |-> delta]
    BY <1>3, <2>1, <2>2 DEF Emit, Ids
  <2>4. CASE cycle # month
    <3>1. n + 1 \in Misdated(month)'
      BY <1>1, <2>3, <2>4 DEF Misdated
    <3> QED
      BY <1>1, <3>1 DEF Balanced
  <2>5. CASE cycle = month
    <3> SUFFICES ASSUME meter[month] # None, month \notin drifted, Misdated(month)' = {}
                 PROVE  meter[month].count + Cardinality(Ups(month)')
                            = Cardinality(Active') + Cardinality(Downs(month)')
      BY <1>1 DEF Balanced
    <3>1. Misdated(month) = {}
      BY <1>1, <2>3 DEF Misdated
    <3>2. meter[month].count + Cardinality(Ups(month))
              = Cardinality(Active) + Cardinality(Downs(month))
      BY <3>1 DEF Balanced
    <3>3. /\ Cardinality(Ups(month)') = Cardinality(Ups(month)) + (IF delta = 1 THEN 1 ELSE 0)
          /\ Cardinality(Downs(month)') = Cardinality(Downs(month)) + (IF delta = -1 THEN 1 ELSE 0)
      BY <1>1, <1>3, <2>5, EmitCounts
    <3>4. /\ Cardinality(Ups(month)) \in Nat /\ Cardinality(Downs(month)) \in Nat
          /\ Cardinality(Active) \in Nat
      BY FiniteSets
    <3> QED
      BY <1>2, <1>3, <3>2, <3>3, <3>4
  <2> QED
    BY <2>4, <2>5
<1>4. ASSUME events' = events, Active' = Active PROVE Balanced'
  BY <1>1, <1>4 DEF Balanced, Misdated, Ups, Downs, Pending, Ids
<1>5. Cardinality(Active) \in Nat /\ Cardinality(Active') = Cardinality(Active')
  BY FiniteSets
<1>6. ASSUME NEW s \in Students, FirstLogin(s) PROVE Balanced'
  <2>1. Cardinality(Active') = Cardinality(Active) + 1
    BY <1>6, StatusCounts DEF FirstLogin, Status
  <2> QED
    BY <1>3, <1>6, <2>1 DEF FirstLogin, DatedBy, TypeOK
<1>7. ASSUME NEW s \in Students, SoftDelete(s) PROVE Balanced'
  <2>1. Cardinality(Active') = Cardinality(Active) - 1
    BY <1>7, StatusCounts DEF SoftDelete, Status
  <2>2. Emit(DatedBy(s), -1) /\ DatedBy(s) \in Cycles
    BY <1>7 DEF SoftDelete, DatedBy, TypeOK
  <2>3. Cardinality(Active') = Cardinality(Active) + (-1)
    BY <1>5, <2>1
  <2> QED
    BY <1>3, <2>2, <2>3
<1>8. ASSUME NEW s \in Students, UploadNames(s) PROVE Balanced'
  <2>1. student[s] \in Status
    BY DEF TypeOK
  <2>2. PICK status \in Earlier[student[s]] :
          /\ ChangeStatus(s, student[s], status)
          /\ \/ student[s] # "active" /\ status = "active" /\ Emit(month, 1)
             \/ student[s] = "active" /\ status # "active" /\ Emit(month, -1)
             \/ (student[s] = "active") = (status = "active") /\ UNCHANGED events
    BY <1>8 DEF UploadNames
  <2>3. status \in Status
    BY <2>1, <2>2 DEF Earlier, Status
  <2>4. CASE student[s] # "active" /\ status = "active" /\ Emit(month, 1)
    <3>1. Cardinality(Active') = Cardinality(Active) + 1
      BY <2>1, <2>2, <2>3, <2>4, StatusCounts
    <3> QED
      BY <1>2, <1>3, <2>4, <3>1
  <2>5. CASE student[s] = "active" /\ status # "active" /\ Emit(month, -1)
    <3>1. Cardinality(Active') = Cardinality(Active) - 1
      BY <2>1, <2>2, <2>3, <2>5, StatusCounts
    <3>2. Cardinality(Active') = Cardinality(Active) + (-1)
      BY <1>5, <3>1
    <3> QED
      BY <1>2, <1>3, <2>5, <3>2
  <2>6. CASE (student[s] = "active") = (status = "active") /\ UNCHANGED events
    <3>1. Active' = Active
      BY <2>1, <2>2, <2>3, <2>6 DEF Active, ChangeStatus, TypeOK
    <3> QED
      BY <1>4, <2>6, <3>1
  <2> QED
    BY <2>2, <2>4, <2>5, <2>6
<1>9. ASSUME NEW s \in Students, UploadDeactivates(s) PROVE Balanced'
  <2>1. CASE ChangeStatus(s, "active", "inactive") /\ Emit(month, -1)
    <3>1. Cardinality(Active') = Cardinality(Active) - 1
      BY <2>1, StatusCounts DEF Status
    <3>2. Cardinality(Active') = Cardinality(Active) + (-1)
      BY <1>5, <3>1
    <3> QED
      BY <1>2, <1>3, <2>1, <3>2
  <2>2. CASE ChangeStatus(s, "invited", "inactive") /\ UNCHANGED events
    <3>1. Active' = Active
      BY <2>2, StatusCounts DEF Status
    <3> QED
      BY <1>4, <2>2, <3>1
  <2> QED
    BY <1>9, <2>1, <2>2 DEF UploadDeactivates
<1>10. CASE CreateRun
  <2>1. Active' = Active /\ Emit(month, 0)
    BY <1>10 DEF CreateRun, studentVars, Active
  <2>2. Cardinality(Active') = Cardinality(Active) + 0
    BY <1>5, <2>1
  <2> QED
    BY <1>2, <1>3, <2>1, <2>2
<1> QED
  BY <1>6, <1>7, <1>8, <1>9, <1>10 DEF Roster

(* An event is metered: it no longer waits, and the count has taken it in.   *)
LEMMA RecordCounts ==
    ASSUME CountInv, NEW i \in Ids, Record(i)
    PROVE  Balanced'
<1> USE DEF CountInv
<1> DEFINE e == events[i]
           c == e.cycle
<1>1. e \in Event /\ c \in Cycles /\ e.delta \in {-1, 0, 1}
  BY DEF TypeOK, Ids, Event
<1>2. /\ i \notin metered[c]
      /\ meter' = [meter EXCEPT ![c] = [count |-> NewCount(e), peak |-> NewPeak(e)]]
      /\ metered' = [metered EXCEPT ![c] = @ \cup {i}]
      /\ drifted' = IF \/ meter[c] = None /\ (c # month \/ Pending(c) # {i})
                       \/ meter[c] # None /\ meter[c].count + e.delta < 0
                    THEN drifted \cup {c} ELSE drifted
      /\ month' = month /\ student' = student /\ events' = events
  BY DEF Record, Counted, studentVars
<1>3. Active' = Active /\ Ids' = Ids /\ Misdated(month)' = Misdated(month)
  BY <1>2 DEF Active, Ids, Misdated
<1>4. \A d \in Cycles : metered'[d] = IF d = c THEN metered[d] \cup {i} ELSE metered[d]
  BY <1>1, <1>2 DEF TypeOK
<1>5. \A d \in Cycles : Pending(d)' = IF d = c THEN Pending(d) \ {i} ELSE Pending(d)
  BY <1>1, <1>2, <1>3, <1>4 DEF Pending
<1>6. month \in Cycles /\ (meter[month] # None => meter[month].count \in Nat)
  BY DEF TypeOK, Meter
<1>7. /\ Cardinality(Active) \in Nat
      /\ IsFiniteSet(Ups(month)) /\ Cardinality(Ups(month)) \in Nat
      /\ IsFiniteSet(Downs(month)) /\ Cardinality(Downs(month)) \in Nat
  BY FiniteSets
<1>8. CASE c # month
  <2>1. meter'[month] = meter[month] /\ (month \in drifted' <=> month \in drifted)
    BY <1>1, <1>2, <1>6, <1>8 DEF TypeOK
  <2>2. Ups(month)' = Ups(month) /\ Downs(month)' = Downs(month)
    BY <1>2, <1>5, <1>6, <1>8 DEF Ups, Downs
  <2> QED
    BY <1>2, <1>3, <2>1, <2>2 DEF Balanced
<1>9. CASE c = month
  <2> SUFFICES ASSUME month \notin drifted', Misdated(month) = {}
               PROVE  meter'[month].count + Cardinality(Ups(month)')
                          = Cardinality(Active) + Cardinality(Downs(month)')
    BY <1>2, <1>3 DEF Balanced
  <2>1. month \notin drifted /\ meter'[month].count = NewCount(e)
    BY <1>1, <1>2, <1>9 DEF TypeOK
  <2>2. i \in Pending(month)
    BY <1>2, <1>9 DEF Pending
  <2>3. CASE meter[month] = None
    <3>1. Pending(month)' = {}
      BY <1>2, <1>5, <1>6, <1>9, <2>3
    <3>2. Ups(month)' = {} /\ Downs(month)' = {}
      BY <3>1 DEF Ups, Downs
    <3>3. NewCount(e) = Cardinality(Active)
      BY <1>9, <2>3 DEF NewCount
    <3>4. Cardinality({}) = 0
      BY FS_EmptySet
    <3> QED
      BY <1>7, <2>1, <3>2, <3>3, <3>4
  <2>4. CASE meter[month] # None
    <3>1. meter[month].count + Cardinality(Ups(month))
              = Cardinality(Active) + Cardinality(Downs(month))
      BY <2>1, <2>4 DEF Balanced
    <3>2. NewCount(e) = meter[month].count + e.delta
      BY <1>1, <1>2, <1>6, <1>9, <2>4 DEF NewCount
    <3>3. Ups(month)' = IF e.delta = 1 THEN Ups(month) \ {i} ELSE Ups(month)
      BY <1>2, <1>5, <1>6, <1>9 DEF Ups
    <3>4. Downs(month)' = IF e.delta = -1 THEN Downs(month) \ {i} ELSE Downs(month)
      BY <1>2, <1>5, <1>6, <1>9 DEF Downs
    <3>5. (e.delta = 1 => i \in Ups(month)) /\ (e.delta = -1 => i \in Downs(month))
      BY <2>2 DEF Ups, Downs
    <3>6. /\ i \in Ups(month) => Cardinality(Ups(month) \ {i}) = Cardinality(Ups(month)) - 1
          /\ i \in Downs(month) => Cardinality(Downs(month) \ {i}) = Cardinality(Downs(month)) - 1
      BY <1>7, FS_RemoveElement
    <3>7. CASE e.delta = 1
      <4>1. /\ Cardinality(Ups(month)') = Cardinality(Ups(month)) - 1
            /\ Cardinality(Downs(month)') = Cardinality(Downs(month))
        BY <3>3, <3>4, <3>5, <3>6, <3>7
      <4> QED
        BY <1>6, <1>7, <2>1, <2>4, <3>1, <3>2, <3>7, <4>1
    <3>8. CASE e.delta = -1
      <4>1. /\ Cardinality(Ups(month)') = Cardinality(Ups(month))
            /\ Cardinality(Downs(month)') = Cardinality(Downs(month)) - 1
        BY <3>3, <3>4, <3>5, <3>6, <3>8
      <4> QED
        BY <1>6, <1>7, <2>1, <2>4, <3>1, <3>2, <3>8, <4>1
    <3>9. CASE e.delta = 0
      <4>1. /\ Cardinality(Ups(month)') = Cardinality(Ups(month))
            /\ Cardinality(Downs(month)') = Cardinality(Downs(month))
        BY <3>3, <3>4, <3>9
      <4> QED
        BY <1>6, <1>7, <2>1, <2>4, <3>1, <3>2, <3>9, <4>1
    <3> QED
      BY <1>1, <3>7, <3>8, <3>9
  <2> QED
    BY <2>3, <2>4
<1> QED
  BY <1>8, <1>9

(* Dates stay in the past.                                                  *)
LEMMA DatesStay ==
    ASSUME CountInv, [Next]_vars, TypeOK'
    PROVE  DatedInThePast'
<1> USE DEF CountInv
<1>1. month' >= month /\ month \in Cycles /\ month' \in Cycles
  <2>1. month' = month \/ month' = month + 1
    BY DEF Next, Roster, EndMonth, Metering, Invoicing, FirstLogin, SoftDelete, UploadNames,
           UploadDeactivates, CreateRun, Record, GenerateBillingSnapshots,
           SyncStripeWebhookStatus, Begin, PersistBillingSnapshot, WriteStatus, TaskFails, vars
  <2> QED
    BY <2>1 DEF TypeOK, Cycles
<1>2. ASSUME NEW s \in Students PROVE updatedAt'[s] <= month'
  <2>1. updatedAt'[s] = updatedAt[s] \/ updatedAt'[s] = month
    BY DEF Next, Roster, EndMonth, Metering, Invoicing, FirstLogin, SoftDelete, UploadNames,
           UploadDeactivates, CreateRun, Record, GenerateBillingSnapshots, studentVars,
           SyncStripeWebhookStatus, Begin, PersistBillingSnapshot, WriteStatus, TaskFails, vars,
           TypeOK
  <2>2. updatedAt[s] <= month /\ updatedAt[s] \in Cycles
    BY DEF DatedInThePast, TypeOK
  <2> QED
    BY <1>1, <2>1, <2>2 DEF Cycles
<1>3. ASSUME NEW i \in Ids'
      PROVE  events'[i].cycle <= events'[i].at /\ events'[i].at <= month'
  <2>1. CASE events' = events
    <3>1. events[i] \in Event /\ i \in Ids
      BY <2>1 DEF TypeOK, Ids
    <3> QED
      BY <1>1, <2>1, <3>1 DEF DatedInThePast, Event, Cycles
  <2>2. ASSUME NEW cycle \in Cycles, cycle <= month, NEW delta \in {-1, 0, 1},
               Emit(cycle, delta)
        PROVE  events'[i].cycle <= events'[i].at /\ events'[i].at <= month'
    <3>1. CASE i \in Ids
      <4>1. events'[i] = events[i] /\ events[i] \in Event
        BY <2>2, <3>1 DEF Emit, TypeOK, Ids
      <4> QED
        BY <1>1, <3>1, <4>1 DEF DatedInThePast, Event, Cycles
    <3>2. CASE i \notin Ids
      <4>1. events'[i] = [at |-> month, cycle |-> cycle, delta |-> delta]
        BY <2>2, <3>2 DEF Emit, Ids
      <4> QED
        BY <1>1, <2>2, <4>1
    <3> QED
      BY <3>1, <3>2
  <2>3. month <= month /\ \A s \in Students : updatedAt[s] \in Cycles /\ updatedAt[s] <= month
    BY <1>1 DEF DatedInThePast, TypeOK, Cycles
  <2> QED
    BY <1>1, <2>1, <2>2, <2>3
       DEF Next, Roster, EndMonth, Metering, Invoicing, FirstLogin, SoftDelete, UploadNames,
           UploadDeactivates, CreateRun, Record, GenerateBillingSnapshots, DatedBy,
           SyncStripeWebhookStatus, Begin, PersistBillingSnapshot, WriteStatus, TaskFails, vars
<1>4. ASSUME NEW c \in Cycles, c > month' PROVE meter'[c] = None
  <2>1. c > month /\ meter[c] = None
    BY <1>1, <1>4 DEF DatedInThePast, Cycles
  <2>2. ASSUME NEW i \in Ids, Record(i) PROVE meter'[c] = None
    <3>1. events[i].cycle \in Cycles /\ events[i].cycle <= month
      <4>1. events[i] \in Event
        BY DEF TypeOK, Ids
      <4> QED
        BY <1>1, <4>1 DEF DatedInThePast, Event, Cycles
    <3>2. events[i].cycle # c
      BY <1>1, <2>1, <3>1 DEF Cycles
    <3> QED
      BY <2>1, <2>2, <3>1, <3>2 DEF Record, TypeOK
  <2> QED
    BY <2>1, <2>2
       DEF Next, Roster, EndMonth, Metering, Invoicing, FirstLogin, SoftDelete, UploadNames,
           UploadDeactivates, CreateRun, GenerateBillingSnapshots, meterVars,
           SyncStripeWebhookStatus, Begin, PersistBillingSnapshot, WriteStatus, TaskFails, vars
<1> QED
  BY <1>2, <1>3, <1>4 DEF DatedInThePast

(* An institute starts with its counts in balance.                         *)
LEMMA CountInit == Init => CountInv
<1> SUFFICES ASSUME Init PROVE CountInv
  OBVIOUS
<1>1. TypeOK
  BY BillInit DEF BillInv
<1>2. Balanced
  BY <1>1 DEF Init, Balanced, TypeOK
<1>3. DatedInThePast
  BY <1>1 DEF Init, DatedInThePast, Ids
<1> QED
  BY <1>1, <1>2, <1>3 DEF CountInv

(* Every step keeps the counts in balance with the students' dates.        *)
LEMMA CountStep == CountInv /\ TypeOK' /\ [Next]_vars => CountInv'
<1> SUFFICES ASSUME CountInv, TypeOK', [Next]_vars PROVE CountInv'
  OBVIOUS
<1>1. DatedInThePast'
  BY DatesStay
<1>2. ASSUME Roster PROVE Balanced'
  BY <1>2, RosterCounts
<1>3. ASSUME Metering PROVE Balanced'
  BY <1>3, RecordCounts DEF Metering
<1>4. ASSUME EndMonth PROVE Balanced'
  <2>1. month \in Cycles /\ month' \in Cycles /\ month' > month /\ meter' = meter
    BY <1>4 DEF EndMonth, meterVars, CountInv, TypeOK, Cycles
  <2>2. meter'[month'] = None
    BY <2>1 DEF CountInv, DatedInThePast
  <2> QED
    BY <2>2 DEF Balanced
<1>5. ASSUME Invoicing \/ UNCHANGED vars PROVE Balanced'
  <2>1. /\ month' = month /\ student' = student /\ events' = events
        /\ metered' = metered /\ meter' = meter /\ drifted' = drifted
    BY <1>5 DEF Invoicing, GenerateBillingSnapshots, SyncStripeWebhookStatus, Begin,
                PersistBillingSnapshot, WriteStatus, TaskFails, vars, studentVars, meterVars
  <2> QED
    BY <2>1 DEF CountInv, Balanced, Active, Ups, Downs, Pending, Misdated, Ids
<1>6. Balanced'
  BY <1>2, <1>3, <1>4, <1>5 DEF Next
<1> QED
  BY <1>1, <1>6 DEF CountInv

(* The inductive invariant of the meter's count.                            *)
THEOREM CountInvariant == Spec => []CountInv
<1>1. CountInv /\ BillInv' /\ [Next]_vars => CountInv'
  BY CountStep DEF BillInv
<1> QED
  BY <1>1, CountInit, BillInvariant, PTL DEF Spec

(* When the changes dated in the running month have been metered, its meter  *)
(* shows the active students, whatever the order they were metered in.      *)
THEOREM CountIsExactAlways == Spec => []CountIsExact
<1>1. CountInv => CountIsExact
  <2> SUFFICES ASSUME CountInv, Metered(month), Misdated(month) = {} PROVE Counts(month)
    BY DEF CountIsExact
  <2>1. Ups(month) = {} /\ Downs(month) = {} /\ Cardinality({}) = 0
    BY FS_EmptySet DEF Metered, Ups, Downs
  <2>2. meter[month].count \in Nat /\ Cardinality(Active) \in Nat
    BY FiniteSets DEF CountInv, Metered, TypeOK, Meter
  <2>3. meter[month].count + 0 = Cardinality(Active) + 0
    BY <2>1 DEF CountInv, Balanced, Metered
  <2> QED
    BY <2>2, <2>3 DEF Counts
<1> QED
  BY <1>1, CountInvariant, PTL
==============================================================================
