------------------------------ MODULE Billing ------------------------------
(* The usage meter of one institute and the bills made from it. Every write *)
(* of a student and every assignment run is metered by a trigger, some time *)
(* later and in any order, into the meter document of the month that its    *)
(* own document is dated by; the first event of a month creates this. The   *)
(* bill of a month is created from its meter, by the scheduler afterwards   *)
(* or by a Stripe event before, and is immutable but for its payment status. *)
EXTENDS Integers, FiniteSets

CONSTANTS
    Students,
    Months,         \* bound: the cycles that are followed
    MaxEvents,      \* bound: writes and runs that are metered
    Tasks,          \* invocations that make bills, each at most once
    Outcomes,       \* what a Stripe event says of the payment
    None

ASSUME BillingAssumption ==
    /\ IsFiniteSet(Students)
    /\ Months \in Nat \ {0} /\ MaxEvents \in Nat
    /\ None \notin Outcomes \cup {"pending"}

Cycles == 1 .. Months
Statuses == {"pending"} \cup Outcomes

VARIABLES
    month,      \* the calendar month
    student,    \* students: the status; "deleted" is active and soft-deleted
    updatedAt,  \* the month each student's document is dated by
    events,     \* the writes that change the meter, by id
    metered,    \* studentEvents and assignmentEvents: ids a month has counted
    meter,      \* usageMeter: a month's counts, or None
    due,        \* ended months the scheduler has not taken up
    task,       \* what a billing invocation has read, None before and after
    spent,      \* the tasks that have been started
    bill,       \* billingSnapshots: a month's bill, or None
    drifted     \* months whose count has been put off (history variable)

studentVars == <<student, updatedAt>>
meterVars == <<metered, meter>>
billVars == <<task, spent, bill>>
vars == <<month, studentVars, events, meterVars, due, billVars, drifted>>

Status == {"invited", "active", "inactive", "deleted"}
\* The month it happened in and the one it is metered in.
Event == [at : Cycles, cycle : Cycles, delta : {-1, 0, 1}]
Meter == [count : Nat, peak : Nat]
Bill == [count : Nat, peak : Nat, status : Statuses]
Work == [cycle : Cycles, read : Meter \cup {None}, billed : BOOLEAN,
         status : Statuses \cup {None}]

ASSUME NoneAssumption == None \notin Meter \cup Bill \cup Work

Ids == DOMAIN events
Active == {s \in Students : student[s] = "active"}

TypeOK ==
    /\ month \in Cycles
    /\ student \in [Students -> Status] /\ updatedAt \in [Students -> Cycles]
    /\ \E n \in 0 .. MaxEvents : events \in [1 .. n -> Event]
    /\ metered \in [Cycles -> SUBSET Ids]
    /\ meter \in [Cycles -> Meter \cup {None}]
    /\ due \in SUBSET Cycles /\ spent \in SUBSET Tasks
    /\ task \in [Tasks -> Work \cup {None}]
    /\ bill \in [Cycles -> Bill \cup {None}]
    /\ drifted \in SUBSET Cycles

Init ==
    /\ month = 1
    /\ student \in [Students -> {"invited", "active"}]
    /\ updatedAt = [s \in Students |-> 1]
    /\ events = << >>
    /\ metered = [c \in Cycles |-> {}]
    /\ meter = [c \in Cycles |-> None]
    /\ due = {}
    /\ task = [t \in Tasks |-> None] /\ spent = {}
    /\ bill = [c \in Cycles |-> None]
    /\ drifted = {}

----------------------------------------------------------------------------
(* What is metered. *)

Emit(cycle, delta) ==
    /\ Cardinality(Ids) < MaxEvents
    /\ events' = [i \in Ids \cup {Cardinality(Ids) + 1} |->
           IF i \in Ids THEN events[i]
           ELSE [at |-> month, cycle |-> cycle, delta |-> delta]]

ChangeStatus(s, from, to) ==
    /\ student[s] = from
    /\ student' = [student EXCEPT ![s] = to]

(* resolveStudentEventDate: the month a write of the student is metered in, *)
(* unless the write has dated the document anew.                            *)
DatedBy(s) == updatedAt[s]

(* The first login and the soft delete leave updatedAt alone.               *)
FirstLogin(s) ==
    /\ ChangeStatus(s, "invited", "active")
    /\ Emit(DatedBy(s), 1)
    /\ UNCHANGED <<month, updatedAt, meterVars, due, billVars, drifted>>

SoftDelete(s) ==
    /\ ChangeStatus(s, "active", "deleted")
    /\ Emit(DatedBy(s), -1)
    /\ UNCHANGED <<month, updatedAt, meterVars, due, billVars, drifted>>

\* The statuses an upload may have read before it changed the accounts, one
\* change of the student's status ago at most.
Earlier == [invited |-> {"invited"}, active |-> {"invited", "active"},
            inactive |-> {"invited", "active", "inactive"},
            deleted |-> {"active"}]

(* An upload names the student, and writes back the status it has read and  *)
(* that the document is not deleted; or it deactivates one it does not name. *)
(* All writes of an upload are one transaction, each metered by itself.     *)
UploadNames(s) ==
    /\ updatedAt' = [updatedAt EXCEPT ![s] = month]
    /\ \E status \in Earlier[student[s]] :
        /\ ChangeStatus(s, student[s], status)
        /\ \/ student[s] # "active" /\ status = "active" /\ Emit(month, 1)
           \/ student[s] = "active" /\ status # "active" /\ Emit(month, -1)
           \/ (student[s] = "active") = (status = "active") /\ UNCHANGED events
    /\ UNCHANGED <<month, meterVars, due, billVars, drifted>>

UploadDeactivates(s) ==
    /\ updatedAt' = [updatedAt EXCEPT ![s] = month]
    /\ \/ ChangeStatus(s, "active", "inactive") /\ Emit(month, -1)
       \/ ChangeStatus(s, "invited", "inactive") /\ UNCHANGED events
    /\ UNCHANGED <<month, meterVars, due, billVars, drifted>>

CreateRun ==
    /\ Emit(month, 0)
    /\ UNCHANGED <<month, studentVars, meterVars, due, billVars, drifted>>

(* The month ends; at one o'clock of the next the scheduler bills it.       *)
EndMonth ==
    /\ month < Months
    /\ month' = month + 1
    /\ due' = due \cup {month}
    /\ UNCHANGED <<studentVars, events, meterVars, billVars, drifted>>

----------------------------------------------------------------------------
(* Metering. *)

Pending(c) == {i \in Ids : events[i].cycle = c /\ i \notin metered[c]}

OldMeter(c) == IF meter[c] = None THEN [count |-> 0, peak |-> 0]
               ELSE meter[c]

\* Mutant: a new document counts from zero.
NewCountOfChange(e) ==
    LET n == OldMeter(e.cycle).count + e.delta IN IF n < 0 THEN 0 ELSE n

(* A month's first event finds no document: the active students are counted *)
(* by a query, which sees today's students.                                 *)
NewCount(e) ==
    IF meter[e.cycle] = None THEN Cardinality(Active)
    ELSE LET n == meter[e.cycle].count + e.delta IN IF n < 0 THEN 0 ELSE n

\* Mutant: the peak follows the count down.
NewPeakOfCount(e) == NewCount(e)

NewPeak(e) == LET old == OldMeter(e.cycle).peak
              IN  IF NewCount(e) > old THEN NewCount(e) ELSE old

Counted(i) == i \in metered[events[i].cycle]

(* recordStudentStatusChange and recordAssignmentUsage: one transaction      *)
(* that counts an event unless its marker is there. The trigger has no      *)
(* failure policy: an invocation that fails leaves its event pending for    *)
(* good, as does one that has yet to come.                                  *)
Record(i) ==
    LET e == events[i]  c == e.cycle
    IN  /\ ~Counted(i)
        /\ meter' = [meter EXCEPT ![c] =
               [count |-> NewCount(e), peak |-> NewPeak(e)]]
        /\ metered' = [metered EXCEPT ![c] = @ \cup {i}]
        /\ drifted' = IF \/ meter[c] = None /\ (c # month \/ Pending(c) # {i})
                         \/ meter[c] # None /\ meter[c].count + e.delta < 0
                      THEN drifted \cup {c} ELSE drifted
        /\ UNCHANGED <<month, studentVars, events, due, billVars>>

----------------------------------------------------------------------------
(* Billing. *)

(* The meter is read by a query, before the transaction that makes the bill; *)
(* an institute without a document for the month is not among the results.  *)
Begin(t, c, status) ==
    /\ t \notin spent
    /\ spent' = spent \cup {t}
    /\ task' = [task EXCEPT ![t] = [cycle |-> c, read |-> meter[c],
                                    billed |-> FALSE, status |-> status]]
    /\ UNCHANGED <<month, studentVars, events, meterVars, bill, drifted>>

GenerateBillingSnapshots(t) ==
    \E c \in due : Begin(t, c, None) /\ due' = due \ {c}

(* A Stripe event carries the month its billing period started in.          *)
SyncStripeWebhookStatus(t) ==
    /\ \E c \in 1 .. month, status \in Outcomes : Begin(t, c, status)
    /\ UNCHANGED due

\* Mutant: set in place of create.
AlwaysAbsent(c) == TRUE

Absent(c) == bill[c] = None

(* The payment status of a new bill is that of the license.                 *)
PersistBillingSnapshot(t) ==
    /\ task[t] # None /\ ~task[t].billed
    /\ LET c == task[t].cycle  read == task[t].read
       IN  IF read # None /\ Absent(c)
           THEN \E status \in Statuses :
                    bill' = [bill EXCEPT ![c] = [count |-> read.count,
                                peak |-> read.peak, status |-> status]]
           ELSE UNCHANGED bill
    /\ task' = [task EXCEPT ![t] = IF @.status = None THEN None
                                   ELSE [@ EXCEPT !.billed = TRUE]]
    /\ UNCHANGED <<month, studentVars, events, meterVars, due, spent, drifted>>

(* The second half of a webhook's work.                                     *)
WriteStatus(t) ==
    /\ task[t] # None /\ task[t].billed
    /\ bill' = IF bill[task[t].cycle] = None THEN bill
               ELSE [bill EXCEPT ![task[t].cycle].status = task[t].status]
    /\ task' = [task EXCEPT ![t] = None]
    /\ UNCHANGED <<month, studentVars, events, meterVars, due, spent, drifted>>

TaskFails(t) ==
    /\ task[t] # None
    /\ task' = [task EXCEPT ![t] = None]
    /\ UNCHANGED <<month, studentVars, events, meterVars, due, spent, bill, drifted>>

Roster == \/ \E s \in Students : FirstLogin(s) \/ SoftDelete(s)
                                \/ UploadNames(s) \/ UploadDeactivates(s)
          \/ CreateRun
Metering == \E i \in Ids : Record(i)
Invoicing == \E t \in Tasks :
    \/ GenerateBillingSnapshots(t) \/ SyncStripeWebhookStatus(t)
    \/ PersistBillingSnapshot(t) \/ WriteStatus(t) \/ TaskFails(t)

Next == Roster \/ EndMonth \/ Metering \/ Invoicing

Spec == Init /\ [][Next]_vars

----------------------------------------------------------------------------
Counts(c) == meter[c].count = Cardinality(Active)
Metered(c) == meter[c] # None /\ c \notin drifted /\ Pending(c) = {}
Misdated(c) == {i \in Ids : events[i].at = c /\ events[i].cycle # c}

(* The meter of the running month shows the active students once the        *)
(* changes dated in it have been counted, once each and in whatever order,  *)
(* unless its document was created beside other changes, its count fell     *)
(* below zero, or a change was dated otherwise.                             *)
CountIsExact == Metered(month) /\ Misdated(month) = {} => Counts(month)

(* A bill, made from a meter read earlier by one of several invocations,    *)
(* never shows more than the meter; no later invocation changes its figures. *)
BillIsWithinMeter ==
    \A c \in Cycles : bill[c] # None =>
        /\ meter[c] # None
        /\ bill[c].count <= bill[c].peak /\ bill[c].peak <= meter[c].peak

BillIsFrozen ==
    [][\A c \in Cycles : bill[c] # None =>
           /\ bill'[c] # None
           /\ [bill'[c] EXCEPT !.status = bill[c].status] = bill[c]]_vars

(* docs/3_Core_Architectures.md: "Active student counts are updated using   *)
(* event-driven triggers", on activation "increment activeStudentCount by   *)
(* 1". Once all events have been metered, the running month shows the       *)
(* active students.                                                         *)
CountIsReal == Metered(month) /\ (\A c \in Cycles : Pending(c) = {}) => Counts(month)
=============================================================================
