----------------------------- MODULE Moderation -----------------------------
(***************************************************************************)
(* Reports and what moderators do (lib/moderation.ts, routes/reports.ts    *)
(* and the routes of routes/admin.ts).                                     *)
(*                                                                         *)
(* A subject is an account, suspended and reinstated, or a listing,        *)
(* removed and restored: both are barred and readmitted.  A seller deletes *)
(* a listing in the same column, and records nothing.  Reports are of one  *)
(* reporter about one thing.  Reasons are data.                            *)
(***************************************************************************)
EXTENDS Naturals, FiniteSets

CONSTANTS
    Subjects,
    Deletable,      \* the subjects that are listings
    Staff,          \* requests of moderators, of the reporter and of the seller
    MaxReports      \* reports filed (bound)

ASSUME ModerationAssumption == MaxReports \in Nat /\ Deletable \subseteq Subjects

VARIABLES
    barred,     \* subjects with suspendedAt or deletedAt set
    trail,      \* trail[s]: what the last ModerationAction about s says
    report,     \* report[r]: the status of the row
    staff,      \* staff[m]: what the request read and is about to write
    told,       \* told[r]: how often the reporter was told
    astray,     \* history: subjects whose last change was not recorded, or
                \* recorded while another was being made
    doubled,    \* history: two requests filed at once
    contested   \* history: reports that two requests closed

moderationVars == <<barred, trail, report, staff, told, astray, doubled, contested>>

Reports == 1..MaxReports
OffDuty == [task |-> "idle"]
OpenReports == {r \in Reports : report[r] = "OPEN"}

OnDuty(m, task) == staff[m].task = task
TakesOn(m, job) == staff[m] = OffDuty /\ staff' = [staff EXCEPT ![m] = job]
GoesOffDuty(m) == staff' = [staff EXCEPT ![m] = OffDuty]
Recording(s) == {m \in Staff : OnDuty(m, "record") /\ staff[m].subject = s}

-----------------------------------------------------------------------------
\* suspendUser, reinstateUser, removeListing, restoreListing: each reads the
\* state, writes it without a condition and records it, in three statements.
\* The seller's deletion is the first two of them.
ReadSubject(m, s, act) ==
    /\ (act = "readmit") = (s \in barred)
    /\ act = "delete" => s \in Deletable
    /\ TakesOn(m, [task |-> "act", subject |-> s, act |-> act, alone |-> TRUE])
    /\ UNCHANGED <<barred, trail, report, told, astray, doubled, contested>>

Act(m) ==
    LET s == staff[m].subject
    IN  /\ OnDuty(m, "act")
        /\ barred' = IF staff[m].act = "readmit" THEN barred \ {s} ELSE barred \cup {s}
        /\ staff' = [n \in Staff |->
               IF n = m THEN IF staff[m].act = "delete" THEN OffDuty
                             ELSE [staff[m] EXCEPT !.task = "record", !.alone = Recording(s) = {}]
               ELSE IF n \in Recording(s) THEN [staff[n] EXCEPT !.alone = FALSE] ELSE staff[n]]
        /\ astray' = IF staff[m].act = "delete" THEN astray \cup {s} ELSE astray
        /\ UNCHANGED <<trail, report, told, doubled, contested>>

\* The mistake is to record only what was taken away.
RecordsBars(act) == act = "bar"
Records(act) == TRUE

Record(m) ==
    LET s == staff[m].subject
    IN  /\ OnDuty(m, "record")
        /\ trail' = IF Records(staff[m].act) THEN [trail EXCEPT ![s] = staff[m].act] ELSE trail
        /\ astray' = IF staff[m].alone THEN astray \ {s} ELSE astray \cup {s}
        /\ GoesOffDuty(m)
        /\ UNCHANGED <<barred, report, told, doubled, contested>>

-----------------------------------------------------------------------------
\* fileReport looks for an open report of the same thing, and creates one.
File(m) ==
    /\ OpenReports = {}
    /\ TakesOn(m, [task |-> "file"])
    /\ UNCHANGED <<barred, trail, report, told, astray, doubled, contested>>

FileCreates(m) ==
    /\ OnDuty(m, "file")
    /\ \E r \in Reports :
        /\ report[r] = "none"
        /\ \A q \in 1..r - 1 : report[q] # "none"
        /\ report' = [report EXCEPT ![r] = "OPEN"]
    /\ doubled' = (doubled \/ OpenReports # {})
    /\ GoesOffDuty(m)
    /\ UNCHANGED <<barred, trail, told, astray, contested>>

\* resolveReport wants an open report; the mistake is to want a report.
ClosableIfFiled(r) == report[r] # "none"
Closable(r) == report[r] = "OPEN"

Resolve(m, r, outcome) ==
    /\ Closable(r)
    /\ TakesOn(m, [task |-> "close", report |-> r, outcome |-> outcome])
    /\ contested' = IF \E n \in Staff : OnDuty(n, "close") /\ staff[n].report = r
                    THEN contested \cup {r} ELSE contested
    /\ UNCHANGED <<barred, trail, report, told, astray, doubled>>

\* The status is written without a condition; a dismissal is recorded, and the
\* reporter told.
Close(m) ==
    /\ OnDuty(m, "close")
    /\ report' = [report EXCEPT ![staff[m].report] = staff[m].outcome]
    /\ staff' = [staff EXCEPT ![m].task = IF staff[m].outcome = "DISMISSED" THEN "enter" ELSE "tell"]
    /\ UNCHANGED <<barred, trail, told, astray, doubled, contested>>

Enter(m) ==
    /\ OnDuty(m, "enter")
    /\ staff' = [staff EXCEPT ![m].task = "tell"]
    /\ UNCHANGED <<barred, trail, report, told, astray, doubled, contested>>

TellReporter(m) ==
    /\ OnDuty(m, "tell")
    /\ told' = [told EXCEPT ![staff[m].report] = @ + 1]
    /\ GoesOffDuty(m)
    /\ UNCHANGED <<barred, trail, report, astray, doubled, contested>>

StaffDies(m) ==
    /\ staff[m] # OffDuty
    /\ GoesOffDuty(m)
    /\ astray' = IF OnDuty(m, "record") THEN astray \cup {staff[m].subject} ELSE astray
    /\ UNCHANGED <<barred, trail, report, told, doubled, contested>>

-----------------------------------------------------------------------------
ModerationInit ==
    /\ barred = {}
    /\ trail = [s \in Subjects |-> "none"]
    /\ report = [r \in Reports |-> "none"]
    /\ staff = [m \in Staff |-> OffDuty]
    /\ told = [r \in Reports |-> 0]
    /\ astray = {} /\ doubled = FALSE /\ contested = {}

ModerationNext ==
    \E m \in Staff :
        \/ \E s \in Subjects, act \in {"bar", "readmit", "delete"} : ReadSubject(m, s, act)
        \/ Act(m) \/ Record(m)
        \/ File(m) \/ FileCreates(m)
        \/ \E r \in Reports, outcome \in {"RESOLVED", "DISMISSED"} : Resolve(m, r, outcome)
        \/ Close(m) \/ Enter(m) \/ TellReporter(m) \/ StaffDies(m)

ModerationSpec == ModerationInit /\ [][ModerationNext]_moderationVars

-----------------------------------------------------------------------------
\* Subjects, reports and requests keep their shape.
ModerationTypeOK ==
    /\ barred \subseteq Subjects
    /\ trail \in [Subjects -> {"none", "bar", "readmit"}]
    /\ report \in [Reports -> {"none", "OPEN", "RESOLVED", "DISMISSED"}]
    /\ told \in [Reports -> Nat]

\* Every action is on the record (moderation.ts:28): what the last entry about
\* an account or a listing says is what it is.  The exceptions the code has:
\* while the entry is being written, after a crash before it, after a seller's
\* own deletion, and after two changes whose entries may have been written the
\* other way round.
TrailTellsState ==
    \A s \in Subjects \ astray :
        Recording(s) = {} => (trail[s] = "bar" <=> s \in barred)

\* One open report per person per thing (moderation.ts:64), unless two were
\* filed at once.
OneOpenReport == doubled \/ Cardinality(OpenReports) <= 1

\* The reporter hears of a report's end once, unless two requests had it open.
ReporterToldOnce == \A r \in Reports \ contested : told[r] <= 1

\* What holds of the moderators' desk.
ModerationInv == ModerationTypeOK /\ TrailTellsState /\ OneOpenReport /\ ReporterToldOnce
=============================================================================
