-------------------------- MODULE BackOfficeProofs --------------------------
(***************************************************************************)
(* Proofs about what is kept beside orders: the moderators' desk, address  *)
(* books, conversations, telephone numbers, payouts and the account they   *)
(* go to, hearts and the cart's badge, for any number of people, reports,  *)
(* addresses, messages, codes, lines, clerks, tabs and holds.  They share  *)
(* no state, and each part has an invariant of its own.                    *)
(***************************************************************************)
EXTENDS Payouts, PayoutAccount, Moderation, Addresses, Threads, Phones, Hearts, CartBadge,
        TallyProofs

-----------------------------------------------------------------------------
(***************************************************************************)
(* The moderators' desk                                                    *)
(***************************************************************************)

Changing == {"act", "record"}
Closing == {"close", "enter", "tell"}
Duty ==
    {OffDuty} \cup [task : {"file"}]
    \cup [task : Changing, subject : Subjects, act : {"bar", "readmit", "delete"}, alone : BOOLEAN]
    \cup [task : Closing, report : Reports, outcome : {"RESOLVED", "DISMISSED"}]

\* A seller's deletion is not recorded; and who records alone what was done
\* last wrote last.
RecorderRight ==
    \A m \in Staff : OnDuty(m, "record") =>
        /\ staff[m].act # "delete"
        /\ staff[m].alone => (staff[m].act = "bar" <=> staff[m].subject \in barred)

\* Open reports are one report.
OpenRight == doubled \/ \A q, r \in OpenReports : q = r

ClosedBy(m, r) == staff[m].task \in Closing /\ staff[m].report = r
HasEnded(r) == report[r] \in {"RESOLVED", "DISMISSED"}

\* The reporter is told of a report that was closed, and one request has it.
CloserRight ==
    /\ \A m \in Staff, r \in Reports : ClosedBy(m, r) =>
           HasEnded(r) \/ (report[r] = "OPEN" /\ OnDuty(m, "close"))
    /\ \A r \in Reports : told[r] # 0 => HasEnded(r)
    /\ \A r \in Reports \ contested :
           /\ told[r] <= 1
           /\ \A m, n \in Staff : ClosedBy(m, r) /\ ClosedBy(n, r) => m = n
           /\ \A m \in Staff : ClosedBy(m, r) => told[r] = 0

DeskInv ==
    /\ ModerationTypeOK /\ staff \in [Staff -> Duty]
    /\ TrailTellsState /\ RecorderRight
    /\ OpenRight /\ CloserRight

\* Nobody has reported, and nobody is at the desk.
LEMMA DeskInit == ModerationInit => DeskInv
<1> SUFFICES ASSUME ModerationInit PROVE DeskInv
  OBVIOUS
<1>1. \A m \in Staff : staff[m] = OffDuty
  BY DEF ModerationInit
<1>2. ModerationTypeOK /\ staff \in [Staff -> Duty]
  BY DEF ModerationInit, ModerationTypeOK, Duty
<1>3. RecorderRight /\ CloserRight
  BY <1>1 DEF ModerationInit, RecorderRight, CloserRight, OnDuty, OffDuty, ClosedBy, Closing
<1>4. TrailTellsState /\ OpenRight
  BY DEF ModerationInit, TrailTellsState, OpenRight, OpenReports
<1> QED
  BY <1>2, <1>3, <1>4 DEF DeskInv

\* A request does what it has taken on.
LEMMA DutyIs ==
    ASSUME DeskInv, NEW m \in Staff
    PROVE  /\ staff[m].task \in Changing => 
                /\ staff[m].subject \in Subjects
                /\ staff[m].act \in {"bar", "readmit", "delete"}
                /\ staff[m].alone \in BOOLEAN
                /\ staff[m] \in [task : Changing, subject : Subjects,
                                 act : {"bar", "readmit", "delete"}, alone : BOOLEAN]
           /\ staff[m].task \in Closing =>
                /\ staff[m].report \in Reports
                /\ staff[m].outcome \in {"RESOLVED", "DISMISSED"}
                /\ staff[m] \in [task : Closing, report : Reports,
                                 outcome : {"RESOLVED", "DISMISSED"}]
<1>1. staff[m] \in Duty
  BY DEF DeskInv
<1> QED
  BY <1>1 DEF Duty, OffDuty, Changing, Closing

\* What is said of subjects is kept while the same requests record.
LEMMA TrailKept ==
    ASSUME DeskInv, UNCHANGED <<barred, trail, astray>>,
           \A n \in Staff :
               /\ OnDuty(n, "record")' => OnDuty(n, "record") /\ staff'[n] = staff[n]
               /\ OnDuty(n, "record") => OnDuty(n, "record")' /\ staff'[n] = staff[n]
    PROVE  RecorderRight' /\ TrailTellsState'
<1>1. \A s : Recording(s)' = Recording(s)
  BY DEF Recording
<1> QED
  BY <1>1 DEF DeskInv, RecorderRight, TrailTellsState

\* What is said of reports is kept while no other request closes one.
LEMMA ReportsKept ==
    ASSUME DeskInv, UNCHANGED <<report, told, doubled, contested>>,
           \A n \in Staff, r \in Reports :
               ClosedBy(n, r)' => ClosedBy(n, r) /\ staff'[n] = staff[n]
    PROVE  OpenRight' /\ CloserRight'
<1>1. OpenRight'
  BY DEF DeskInv, OpenRight, OpenReports, Reports
<1>2. CloserRight'
  BY DEF DeskInv, CloserRight, HasEnded, OnDuty, Reports
<1> QED
  BY <1>1, <1>2

\* Looking at a subject binds the moderator to nothing.
LEMMA LookKeeps ==
    ASSUME DeskInv, NEW m \in Staff, NEW s \in Subjects,
           NEW act \in {"bar", "readmit", "delete"}, ReadSubject(m, s, act)
    PROVE  DeskInv'
<1> DEFINE job == [task |-> "act", subject |-> s, act |-> act, alone |-> TRUE]
<1>1. job \in Duty
  BY DEF Duty, Changing
<1>2. staff' = [staff EXCEPT ![m] = job] /\ staff[m] = OffDuty
  BY DEF ReadSubject, TakesOn
<1>3. staff' \in [Staff -> Duty]
  BY <1>1, <1>2 DEF DeskInv
<1>4. \A n \in Staff : staff'[n] = IF n = m THEN job ELSE staff[n]
  BY <1>2 DEF DeskInv
<1>5. job.task = "act" /\ OffDuty.task = "idle"
  BY DEF OffDuty
<1> HIDE DEF job
<1>6. UNCHANGED <<barred, trail, report, told, astray, doubled, contested>>
  BY DEF ReadSubject
<1>7. ModerationTypeOK'
  BY <1>6 DEF DeskInv, ModerationTypeOK, Reports
<1>8. RecorderRight' /\ TrailTellsState'
  BY <1>2, <1>4, <1>5, <1>6, TrailKept DEF OnDuty
<1>9. OpenRight' /\ CloserRight'
  BY <1>4, <1>5, <1>6, ReportsKept DEF ClosedBy, Closing
<1> QED
  BY <1>3, <1>7, <1>8, <1>9 DEF DeskInv

\* An action on a subject is done by one who has yet to record it.
LEMMA ActKeeps ==
    ASSUME DeskInv, NEW m \in Staff, Act(m)
    PROVE  DeskInv'
<1> DEFINE s == staff[m].subject
           act == staff[m].act
           Becoming(n) == IF n = m THEN IF act = "delete" THEN OffDuty
                                 ELSE [staff[m] EXCEPT !.task = "record", !.alone = Recording(s) = {}]
                   ELSE IF n \in Recording(s) THEN [staff[n] EXCEPT !.alone = FALSE] ELSE staff[n]
<1>1. OnDuty(m, "act")
  BY DEF Act
<1>2. s \in Subjects /\ act \in {"bar", "readmit", "delete"}
      /\ staff[m] \in [task : Changing, subject : Subjects,
                       act : {"bar", "readmit", "delete"}, alone : BOOLEAN]
  BY <1>1, DutyIs DEF OnDuty, Changing
<1>3. \A n \in Staff : staff'[n] = Becoming(n)
  BY DEF Act
<1>4. \A n \in Staff : n \in Recording(s) =>
        staff[n] \in [task : Changing, subject : Subjects,
                      act : {"bar", "readmit", "delete"}, alone : BOOLEAN]
  BY DutyIs DEF Recording, OnDuty, Changing
<1>5. /\ act = "delete" => staff'[m] = OffDuty
      /\ act # "delete" => /\ staff'[m].task = "record" /\ staff'[m].subject = s
                           /\ staff'[m].act = act
                           /\ staff'[m] \in Duty
  <2>1. act = "delete" => staff'[m] = OffDuty
    BY <1>3
  <2>2. ASSUME act # "delete"
        PROVE  /\ staff'[m].task = "record" /\ staff'[m].subject = s
               /\ staff'[m].act = act /\ staff'[m] \in Duty
    <3>1. PICK alone \in BOOLEAN :
            staff'[m] = [staff[m] EXCEPT !.task = "record", !.alone = alone]
      BY <1>3, <2>2
    <3>2. staff'[m] \in [task : Changing, subject : Subjects,
                         act : {"bar", "readmit", "delete"}, alone : BOOLEAN]
      BY <1>2, <3>1 DEF Changing
    <3>3. staff'[m].task = "record" /\ staff'[m].subject = s /\ staff'[m].act = act
      BY <1>2, <3>1
    <3> QED
      BY <3>2, <3>3 DEF Duty
  <2> QED
    BY <2>1, <2>2
<1>6. \A n \in Staff \ {m} : n \in Recording(s) =>
        /\ staff'[n].task = "record" /\ staff'[n].subject = s
        /\ staff'[n].act = staff[n].act /\ staff'[n].alone = FALSE
        /\ staff'[n] \in Duty
  <2> SUFFICES ASSUME NEW n \in Staff \ {m}, n \in Recording(s)
               PROVE  /\ staff'[n].task = "record" /\ staff'[n].subject = s
                      /\ staff'[n].act = staff[n].act /\ staff'[n].alone = FALSE
                      /\ staff'[n] \in Duty
    OBVIOUS
  <2>1. staff'[n] = [staff[n] EXCEPT !.alone = FALSE]
    BY <1>3
  <2>2. staff[n].task = "record" /\ staff[n].subject = s
    BY DEF Recording, OnDuty
  <2> QED
    BY <1>4, <2>1, <2>2 DEF Duty
<1>7. \A n \in Staff \ {m} : n \notin Recording(s) => staff'[n] = staff[n]
  BY <1>3
<1>8. staff' \in [Staff -> Duty]
  <2>1. \A n \in Staff : staff'[n] \in Duty
    <3>1. OffDuty \in Duty
      BY DEF Duty
    <3> QED
      BY <1>5, <1>6, <1>7, <3>1 DEF DeskInv
  <2>2. staff' = [n \in Staff |-> Becoming(n)]
    BY DEF Act
  <2> HIDE DEF Becoming
  <2> QED
    BY <1>3, <2>1, <2>2
<1>9. /\ barred' = IF act = "readmit" THEN barred \ {s} ELSE barred \cup {s}
      /\ astray' = IF act = "delete" THEN astray \cup {s} ELSE astray
      /\ UNCHANGED <<trail, report, told, doubled, contested>>
  BY DEF Act
<1> HIDE DEF Becoming
<1>10. ModerationTypeOK'
  BY <1>2, <1>9 DEF DeskInv, ModerationTypeOK, Reports
<1> HIDE DEF s, act
<1>11. RecorderRight'
  <2> SUFFICES ASSUME NEW n \in Staff, OnDuty(n, "record")'
               PROVE  /\ staff'[n].act # "delete"
                      /\ staff'[n].alone => (staff'[n].act = "bar" <=> staff'[n].subject \in barred')
    BY DEF RecorderRight
  <2>1. CASE n = m
    BY <1>2, <1>5, <1>9, <2>1 DEF OnDuty, OffDuty
  <2>2. CASE n # m /\ n \in Recording(s)
    BY <1>6, <2>2 DEF DeskInv, RecorderRight, Recording
  <2>3. CASE n # m /\ n \notin Recording(s)
    <3>1. staff'[n] = staff[n] /\ staff[n].subject # s /\ OnDuty(n, "record")
      BY <1>7, <2>3 DEF Recording, OnDuty
    <3>2. staff[n].subject \in barred' <=> staff[n].subject \in barred
      BY <1>9, <3>1
    <3> QED
      BY <3>1, <3>2 DEF DeskInv, RecorderRight
  <2> QED
    BY <2>1, <2>2, <2>3
<1>12. TrailTellsState'
  <2> SUFFICES ASSUME NEW t \in Subjects, t \notin astray', Recording(t)' = {}
               PROVE  trail'[t] = "bar" <=> t \in barred'
    BY DEF TrailTellsState
  <2>1. t # s
    <3> SUFFICES ASSUME t = s PROVE FALSE
      OBVIOUS
    <3>1. act # "delete"
      BY <1>9
    <3>2. m \in Recording(t)'
      BY <1>5, <3>1 DEF Recording, OnDuty
    <3> QED
      BY <3>2
  <2>2. Recording(t) = {}
    <3> SUFFICES ASSUME NEW n \in Recording(t) PROVE FALSE
      OBVIOUS
    <3>1. n \in Staff /\ n # m /\ n \notin Recording(s)
      BY <1>1, <2>1 DEF Recording, OnDuty
    <3>2. n \in Recording(t)'
      BY <1>7, <3>1 DEF Recording, OnDuty
    <3> QED
      BY <3>2
  <2> QED
    BY <1>9, <2>1, <2>2 DEF DeskInv, TrailTellsState
<1>13. OpenRight' /\ CloserRight'
  <2>1. \A n \in Staff, r \in Reports :
               ClosedBy(n, r)' => ClosedBy(n, r) /\ staff'[n] = staff[n]
    BY <1>5, <1>6, <1>7, <1>2 DEF ClosedBy, Closing, OffDuty
  <2> QED
    BY <1>9, <2>1, ReportsKept
<1> QED
  BY <1>8, <1>10, <1>11, <1>12, <1>13 DEF DeskInv

\* The entry in the trail is of the action that was taken.
LEMMA RecordKeeps ==
    ASSUME DeskInv, NEW m \in Staff, Record(m)
    PROVE  DeskInv'
<1> DEFINE s == staff[m].subject
           act == staff[m].act
<1>1. OnDuty(m, "record")
  BY DEF Record
<1>2. s \in Subjects /\ act \in {"bar", "readmit"}
  BY <1>1, DutyIs DEF OnDuty, Changing, DeskInv, RecorderRight
<1>3. /\ trail' = [trail EXCEPT ![s] = act]
      /\ astray' = IF staff[m].alone THEN astray \ {s} ELSE astray \cup {s}
      /\ staff' = [staff EXCEPT ![m] = OffDuty]
      /\ UNCHANGED <<barred, report, told, doubled, contested>>
  BY DEF Record, Records, GoesOffDuty
<1>4. staff' \in [Staff -> Duty] /\ ModerationTypeOK'
  BY <1>2, <1>3 DEF DeskInv, ModerationTypeOK, Duty, Reports
<1>5. staff'[m] = OffDuty /\ \A n \in Staff \ {m} : staff'[n] = staff[n]
  BY <1>3 DEF DeskInv
<1>6. RecorderRight'
  BY <1>3, <1>5 DEF DeskInv, RecorderRight, OnDuty, OffDuty
<1>7. TrailTellsState'
  <2> SUFFICES ASSUME NEW t \in Subjects, t \notin astray', Recording(t)' = {}
               PROVE  trail'[t] = "bar" <=> t \in barred'
    BY DEF TrailTellsState
  <2>1. CASE t = s
    <3>1. staff[m].alone
      BY <1>3, <2>1
    <3> QED
      BY <1>1, <1>2, <1>3, <2>1, <3>1 DEF DeskInv, RecorderRight, ModerationTypeOK
  <2>2. CASE t # s
    <3>1. Recording(t) = {}
      <4> SUFFICES ASSUME NEW n \in Recording(t) PROVE FALSE
        OBVIOUS
      <4>1. n \in Recording(t)'
        BY <1>5, <2>2 DEF Recording, OnDuty
      <4> QED
        BY <4>1
    <3>2. trail'[t] = trail[t] /\ t \notin astray
      BY <1>3, <2>2 DEF DeskInv, ModerationTypeOK
    <3> QED
      BY <1>3, <3>1, <3>2 DEF DeskInv, TrailTellsState
  <2> QED
    BY <2>1, <2>2
<1>8. OpenRight' /\ CloserRight'
  BY <1>3, <1>5, ReportsKept DEF ClosedBy, Closing, OffDuty
<1> QED
  BY <1>4, <1>6, <1>7, <1>8 DEF DeskInv

\* A reporter looks for an open report of its own.
LEMMA FileKeeps ==
    ASSUME DeskInv, NEW m \in Staff, File(m)
    PROVE  DeskInv'
<1> DEFINE job == [task |-> "file"]
<1>1. staff' = [staff EXCEPT ![m] = job] /\ staff[m] = OffDuty
      /\ UNCHANGED <<barred, trail, report, told, astray, doubled, contested>>
  BY DEF File, TakesOn
<1>2. staff' \in [Staff -> Duty] /\ ModerationTypeOK'
  BY <1>1 DEF DeskInv, ModerationTypeOK, Duty, Reports
<1>3. staff'[m].task = "file" /\ \A n \in Staff \ {m} : staff'[n] = staff[n]
  BY <1>1 DEF DeskInv
<1>4. RecorderRight' /\ TrailTellsState'
  BY <1>1, <1>3, TrailKept DEF OnDuty, OffDuty
<1>5. OpenRight' /\ CloserRight'
  BY <1>1, <1>3, ReportsKept DEF ClosedBy, Closing
<1> QED
  BY <1>2, <1>4, <1>5 DEF DeskInv

\* A report is filed; a second open one makes the subject doubled.
LEMMA FileCreatesKeeps ==
    ASSUME DeskInv, NEW m \in Staff, FileCreates(m)
    PROVE  DeskInv'
<1>1. PICK r \in Reports : report[r] = "none" /\ report' = [report EXCEPT ![r] = "OPEN"]
  BY DEF FileCreates
<1>2. /\ OnDuty(m, "file")
      /\ doubled' = (doubled \/ OpenReports # {})
      /\ staff' = [staff EXCEPT ![m] = OffDuty]
      /\ UNCHANGED <<barred, trail, told, astray, contested>>
  BY DEF FileCreates, GoesOffDuty
<1>3. staff' \in [Staff -> Duty] /\ ModerationTypeOK'
  BY <1>1, <1>2 DEF DeskInv, ModerationTypeOK, Duty, Reports
<1>4. staff'[m] = OffDuty /\ \A n \in Staff \ {m} : staff'[n] = staff[n]
  BY <1>2 DEF DeskInv
<1>5. RecorderRight' /\ TrailTellsState'
  BY <1>2, <1>4, TrailKept DEF OnDuty, OffDuty
<1>6. \A q \in Reports : report'[q] = IF q = r THEN "OPEN" ELSE report[q]
  BY <1>1 DEF DeskInv, ModerationTypeOK
<1>7. OpenRight'
  <2> SUFFICES ASSUME ~doubled', NEW p \in OpenReports', NEW q \in OpenReports' PROVE p = q
    BY DEF OpenRight
  <2>1. OpenReports = {}
    BY <1>2
  <2> QED
    BY <1>6, <2>1 DEF OpenReports, Reports
<1>8. CloserRight'
  <2>1. \A n \in Staff, q \in Reports : ClosedBy(n, q)' => ClosedBy(n, q) /\ staff'[n] = staff[n] /\ q # r
    BY <1>1, <1>4 DEF ClosedBy, Closing, OffDuty, DeskInv, CloserRight, HasEnded
  <2>2. told[r] = 0
    BY <1>1 DEF DeskInv, CloserRight, HasEnded
  <2>3. \A n \in Staff, q \in Reports : ClosedBy(n, q)' =>
           HasEnded(q)' \/ (report'[q] = "OPEN" /\ OnDuty(n, "close")')
    BY <1>6, <2>1 DEF DeskInv, CloserRight, HasEnded, OnDuty
  <2>4. \A q \in Reports : told'[q] # 0 => HasEnded(q)'
    BY <1>2, <1>6, <2>2 DEF DeskInv, CloserRight, HasEnded
  <2>5. Reports' = Reports
    BY DEF Reports
  <2> QED
    BY <1>2, <2>1, <2>3, <2>4, <2>5 DEF DeskInv, CloserRight
<1> QED
  BY <1>3, <1>5, <1>7, <1>8 DEF DeskInv

\* Resolving looks at a report that is open.
LEMMA ResolveKeeps ==
    ASSUME DeskInv, NEW m \in Staff, NEW r \in Reports,
           NEW outcome \in {"RESOLVED", "DISMISSED"}, Resolve(m, r, outcome)
    PROVE  DeskInv'
<1> DEFINE job == [task |-> "close", report |-> r, outcome |-> outcome]
<1>1. /\ staff' = [staff EXCEPT ![m] = job] /\ staff[m] = OffDuty
      /\ report[r] = "OPEN"
      /\ contested' = IF \E n \in Staff : OnDuty(n, "close") /\ staff[n].report = r
                      THEN contested \cup {r} ELSE contested
      /\ UNCHANGED <<barred, trail, report, told, astray, doubled>>
  BY DEF Resolve, TakesOn, Closable
<1>2. job \in Duty
  BY DEF Duty, Closing
<1>3. staff' \in [Staff -> Duty] /\ ModerationTypeOK'
  BY <1>1, <1>2 DEF DeskInv, ModerationTypeOK, Reports
<1>4. staff'[m] = job /\ \A n \in Staff \ {m} : staff'[n] = staff[n]
  BY <1>1 DEF DeskInv
<1>5. job.task = "close" /\ job.report = r
  OBVIOUS
<1> HIDE DEF job
<1>6. RecorderRight' /\ TrailTellsState'
  BY <1>1, <1>4, <1>5, TrailKept DEF OnDuty, OffDuty
<1>7. OpenRight'
  BY <1>1 DEF DeskInv, OpenRight, OpenReports, Reports
<1>8. CloserRight'
  <2>1. \A n \in Staff, q \in Reports : ClosedBy(n, q)' =>
            IF n = m THEN q = r ELSE ClosedBy(n, q) /\ staff'[n] = staff[n]
    BY <1>4, <1>5 DEF ClosedBy
  <2>2. told[r] = 0
    BY <1>1 DEF DeskInv, CloserRight, HasEnded
  <2>3. \A n \in Staff, q \in Reports : ClosedBy(n, q)' =>
           HasEnded(q)' \/ (report'[q] = "OPEN" /\ OnDuty(n, "close")')
    BY <1>1, <1>4, <1>5, <2>1 DEF DeskInv, CloserRight, HasEnded, OnDuty
  <2>4. \A q \in Reports : told'[q] # 0 => HasEnded(q)'
    BY <1>1 DEF DeskInv, CloserRight, HasEnded
  <2>5. contested \subseteq contested'
    BY <1>1
  <2>6. ASSUME NEW q \in Reports, q \notin contested'
        PROVE  /\ told'[q] <= 1
               /\ \A n, k \in Staff : ClosedBy(n, q)' /\ ClosedBy(k, q)' => n = k
               /\ \A n \in Staff : ClosedBy(n, q)' => told'[q] = 0
    <3>1. CASE q = r
      <4>1. \A n \in Staff \ {m} : ~ClosedBy(n, q)'
        <5> SUFFICES ASSUME NEW n \in Staff \ {m}, ClosedBy(n, q)' PROVE FALSE
          OBVIOUS
        <5>1. ClosedBy(n, q)
          BY <2>1
        <5>2. OnDuty(n, "close")
          BY <1>1, <3>1, <5>1 DEF DeskInv, CloserRight, HasEnded
        <5> QED
          BY <1>1, <2>6, <3>1, <5>1, <5>2 DEF ClosedBy
      <4> QED
        BY <1>1, <2>2, <3>1, <4>1
    <3>2. CASE q # r
      BY <1>1, <2>1, <2>5, <2>6, <3>2 DEF DeskInv, CloserRight
    <3> QED
      BY <3>1, <3>2
  <2>7. Reports' = Reports
    BY DEF Reports
  <2> QED
    BY <2>3, <2>4, <2>6, <2>7 DEF CloserRight
<1> QED
  BY <1>3, <1>6, <1>7, <1>8 DEF DeskInv

\* Closing a report makes the moderator the one to tell its reporter.
LEMMA CloseKeeps ==
    ASSUME DeskInv, NEW m \in Staff, Close(m)
    PROVE  DeskInv'
<1>0. PICK r, outcome : r = staff[m].report /\ outcome = staff[m].outcome
  OBVIOUS
<1>1. OnDuty(m, "close")
  BY DEF Close
<1>2. r \in Reports /\ outcome \in {"RESOLVED", "DISMISSED"}
      /\ staff[m] \in [task : Closing, report : Reports, outcome : {"RESOLVED", "DISMISSED"}]
  BY <1>0, <1>1, DutyIs DEF OnDuty, Closing
<1>3. PICK next \in {"enter", "tell"} : staff' = [staff EXCEPT ![m].task = next]
  BY DEF Close
<1>4. report' = [report EXCEPT ![r] = outcome]
      /\ UNCHANGED <<barred, trail, told, astray, doubled, contested>>
  BY <1>0 DEF Close
<1>5. staff'[m] = [staff[m] EXCEPT !.task = next] /\ \A n \in Staff \ {m} : staff'[n] = staff[n]
  BY <1>3 DEF DeskInv
<1>6. staff'[m].task = next /\ staff'[m].report = r
      /\ staff'[m] \in [task : Closing, report : Reports, outcome : {"RESOLVED", "DISMISSED"}]
  BY <1>0, <1>2, <1>5 DEF Closing
<1>7. staff' \in [Staff -> Duty]
  <2>1. \A n \in Staff : staff'[n] \in Duty
    BY <1>5, <1>6 DEF Duty, DeskInv
  <2> QED
    BY <1>3, <2>1 DEF DeskInv
<1>8. ModerationTypeOK'
  BY <1>2, <1>4 DEF DeskInv, ModerationTypeOK, Reports
<1>9. RecorderRight' /\ TrailTellsState'
  BY <1>1, <1>4, <1>5, <1>6, TrailKept DEF OnDuty
<1>10. \A q \in Reports : report'[q] = IF q = r THEN outcome ELSE report[q]
  BY <1>4 DEF DeskInv, ModerationTypeOK
<1>11. OpenRight'
  BY <1>2, <1>4, <1>10 DEF DeskInv, OpenRight, OpenReports, Reports
<1>12. CloserRight'
  <2>1. \A n \in Staff, q \in Reports : ClosedBy(n, q)' => ClosedBy(n, q)
    BY <1>0, <1>1, <1>5, <1>6 DEF ClosedBy, Closing, OnDuty
  <2>2. HasEnded(r)' /\ \A q \in Reports : HasEnded(q) => HasEnded(q)'
    BY <1>2, <1>10 DEF HasEnded
  <2>3. ASSUME NEW n \in Staff, NEW q \in Reports, ClosedBy(n, q)'
        PROVE  HasEnded(q)' \/ (report'[q] = "OPEN" /\ OnDuty(n, "close")')
    <3>1. CASE q = r
      BY <2>2, <3>1
    <3>2. CASE q # r
      <4>1. n # m
        BY <1>6, <2>3, <3>2 DEF ClosedBy
      <4> QED
        BY <1>5, <1>10, <2>1, <2>2, <2>3, <3>2, <4>1 DEF DeskInv, CloserRight, OnDuty
    <3> QED
      BY <3>1, <3>2
  <2>4. \A q \in Reports : told'[q] # 0 => HasEnded(q)'
    BY <1>4, <2>2 DEF DeskInv, CloserRight
  <2>5. Reports' = Reports
    BY DEF Reports
  <2> QED
    BY <1>4, <2>1, <2>3, <2>4, <2>5 DEF DeskInv, CloserRight
<1> QED
  BY <1>7, <1>8, <1>9, <1>11, <1>12 DEF DeskInv

\* The closing is entered in the trail.
LEMMA EnterKeeps ==
    ASSUME DeskInv, NEW m \in Staff, Enter(m)
    PROVE  DeskInv'
<1>1. /\ OnDuty(m, "enter") /\ staff' = [staff EXCEPT ![m].task = "tell"]
      /\ UNCHANGED <<barred, trail, report, told, astray, doubled, contested>>
  BY DEF Enter
<1>2. staff[m] \in [task : Closing, report : Reports, outcome : {"RESOLVED", "DISMISSED"}]
  BY <1>1, DutyIs DEF OnDuty, Closing
<1>3. staff'[m] = [staff[m] EXCEPT !.task = "tell"] /\ \A n \in Staff \ {m} : staff'[n] = staff[n]
  BY <1>1 DEF DeskInv
<1>4. staff'[m].task = "tell" /\ staff'[m].report = staff[m].report
      /\ staff'[m] \in [task : Closing, report : Reports, outcome : {"RESOLVED", "DISMISSED"}]
  BY <1>2, <1>3 DEF Closing
<1>5. staff' \in [Staff -> Duty]
  <2>1. \A n \in Staff : staff'[n] \in Duty
    BY <1>3, <1>4 DEF Duty, DeskInv
  <2> QED
    BY <1>1, <2>1 DEF DeskInv
<1>6. ModerationTypeOK'
  BY <1>1 DEF DeskInv, ModerationTypeOK, Reports
<1>7. RecorderRight' /\ TrailTellsState'
  BY <1>1, <1>3, <1>4, TrailKept DEF OnDuty
<1>8. OpenRight'
  BY <1>1 DEF DeskInv, OpenRight, OpenReports, Reports
<1>9. CloserRight'
  <2>1. \A n \in Staff, q \in Reports : ClosedBy(n, q)' => ClosedBy(n, q)
    BY <1>1, <1>3, <1>4 DEF ClosedBy, Closing, OnDuty
  <2>2. ASSUME NEW n \in Staff, NEW q \in Reports, ClosedBy(n, q)'
        PROVE  HasEnded(q)' \/ (report'[q] = "OPEN" /\ OnDuty(n, "close")')
    <3>1. HasEnded(q) \/ (report[q] = "OPEN" /\ OnDuty(n, "close"))
      BY <2>1, <2>2 DEF DeskInv, CloserRight
    <3>2. CASE n = m
      BY <1>1, <3>1, <3>2 DEF OnDuty, HasEnded
    <3>3. CASE n # m
      BY <1>1, <1>3, <3>1, <3>3 DEF OnDuty, HasEnded
    <3> QED
      BY <3>2, <3>3
  <2>3. Reports' = Reports /\ \A q \in Reports : HasEnded(q)' = HasEnded(q)
    BY <1>1 DEF Reports, HasEnded
  <2> QED
    BY <1>1, <2>1, <2>2, <2>3 DEF DeskInv, CloserRight
<1> QED
  BY <1>5, <1>6, <1>7, <1>8, <1>9 DEF DeskInv

\* The reporter hears from the one that closed the report.
LEMMA TellReporterKeeps ==
    ASSUME DeskInv, NEW m \in Staff, TellReporter(m)
    PROVE  DeskInv'
<1> DEFINE r == staff[m].report
<1>1. /\ OnDuty(m, "tell") /\ staff' = [staff EXCEPT ![m] = OffDuty]
      /\ told' = [told EXCEPT ![r] = @ + 1]
      /\ UNCHANGED <<barred, trail, report, astray, doubled, contested>>
  BY DEF TellReporter, GoesOffDuty
<1>2. r \in Reports /\ ClosedBy(m, r)
  BY <1>1, DutyIs DEF OnDuty, Closing, ClosedBy
<1> HIDE DEF r
<1>3. staff' \in [Staff -> Duty] /\ ModerationTypeOK'
  BY <1>1, <1>2 DEF DeskInv, ModerationTypeOK, Duty, Reports
<1>4. staff'[m] = OffDuty /\ \A n \in Staff \ {m} : staff'[n] = staff[n]
  BY <1>1 DEF DeskInv
<1>5. RecorderRight' /\ TrailTellsState'
  BY <1>1, <1>4, TrailKept DEF OnDuty, OffDuty
<1>6. OpenRight'
  BY <1>1 DEF DeskInv, OpenRight, OpenReports, Reports
<1>7. CloserRight'
  <2>1. \A n \in Staff, q \in Reports : ClosedBy(n, q)' => n # m /\ ClosedBy(n, q) /\ staff'[n] = staff[n]
    BY <1>4 DEF ClosedBy, Closing, OffDuty
  <2>2. \A q \in Reports : told'[q] = IF q = r THEN told[q] + 1 ELSE told[q]
    BY <1>1 DEF DeskInv, ModerationTypeOK
  <2>3. HasEnded(r)
    BY <1>1, <1>2 DEF DeskInv, CloserRight, OnDuty
  <2>4. Reports' = Reports /\ \A q \in Reports : HasEnded(q)' = HasEnded(q)
    BY <1>1 DEF Reports, HasEnded
  <2>5. \A n \in Staff, q \in Reports : ClosedBy(n, q)' =>
            HasEnded(q)' \/ (report'[q] = "OPEN" /\ OnDuty(n, "close")')
    BY <1>1, <2>1, <2>4 DEF DeskInv, CloserRight, OnDuty
  <2>6. \A q \in Reports : told'[q] # 0 => HasEnded(q)'
    BY <2>2, <2>3, <2>4 DEF DeskInv, CloserRight
  <2>7. ASSUME NEW q \in Reports, q \notin contested
        PROVE  /\ told'[q] <= 1
               /\ \A n, k \in Staff : ClosedBy(n, q)' /\ ClosedBy(k, q)' => n = k
               /\ \A n \in Staff : ClosedBy(n, q)' => told'[q] = 0
    <3>1. CASE q = r
      <4>1. told[q] = 0 /\ \A n \in Staff : ~ClosedBy(n, q)'
        BY <1>2, <2>1, <2>7, <3>1 DEF DeskInv, CloserRight
      <4> QED
        BY <2>2, <3>1, <4>1
    <3>2. CASE q # r
      BY <2>1, <2>2, <2>7, <3>2 DEF DeskInv, CloserRight
    <3> QED
      BY <3>1, <3>2
  <2> QED
    BY <1>1, <2>4, <2>5, <2>6, <2>7 DEF CloserRight
<1> QED
  BY <1>3, <1>5, <1>6, <1>7 DEF DeskInv

\* A moderator that dies takes its unfinished steps with it.
LEMMA StaffDiesKeeps ==
    ASSUME DeskInv, NEW m \in Staff, StaffDies(m)
    PROVE  DeskInv'
<1>1. /\ staff' = [staff EXCEPT ![m] = OffDuty]
      /\ astray' = IF OnDuty(m, "record") THEN astray \cup {staff[m].subject} ELSE astray
      /\ UNCHANGED <<barred, trail, report, told, doubled, contested>>
  BY DEF StaffDies, GoesOffDuty
<1>2. staff' \in [Staff -> Duty] /\ ModerationTypeOK'
  BY <1>1 DEF DeskInv, ModerationTypeOK, Duty, Reports
<1>3. staff'[m] = OffDuty /\ \A n \in Staff \ {m} : staff'[n] = staff[n]
  BY <1>1 DEF DeskInv
<1>4. RecorderRight'
  BY <1>1, <1>3 DEF DeskInv, RecorderRight, OnDuty, OffDuty
<1>5. TrailTellsState'
  <2> SUFFICES ASSUME NEW t \in Subjects, t \notin astray', Recording(t)' = {}
               PROVE  trail[t] = "bar" <=> t \in barred
    BY <1>1 DEF TrailTellsState
  <2>1. Recording(t) = {}
    <3> SUFFICES ASSUME NEW n \in Recording(t) PROVE FALSE
      OBVIOUS
    <3>1. CASE n = m
      BY <1>1, <3>1 DEF Recording
    <3>2. CASE n # m
      <4>1. n \in Recording(t)'
        BY <1>3, <3>2 DEF Recording, OnDuty
      <4> QED
        BY <4>1
    <3> QED
      BY <3>1, <3>2
  <2> QED
    BY <1>1, <2>1 DEF DeskInv, TrailTellsState
<1>6. OpenRight' /\ CloserRight'
  BY <1>1, <1>3, ReportsKept DEF ClosedBy, Closing, OffDuty
<1> QED
  BY <1>2, <1>4, <1>5, <1>6 DEF DeskInv

\* Every step keeps the desk in order.
LEMMA DeskNext == DeskInv /\ [ModerationNext]_moderationVars => DeskInv'
<1> SUFFICES ASSUME DeskInv, [ModerationNext]_moderationVars PROVE DeskInv'
  OBVIOUS
<1>1. CASE UNCHANGED moderationVars
  <2>1. ModerationTypeOK' /\ staff' \in [Staff -> Duty]
    BY <1>1 DEF moderationVars, DeskInv, ModerationTypeOK, Reports
  <2>2. RecorderRight' /\ TrailTellsState'
    BY <1>1, TrailKept DEF moderationVars, OnDuty
  <2>3. OpenRight' /\ CloserRight'
    BY <1>1, ReportsKept DEF moderationVars, ClosedBy
  <2> QED
    BY <2>1, <2>2, <2>3 DEF DeskInv
<1>2. CASE ModerationNext
  BY <1>2, LookKeeps, ActKeeps, RecordKeeps, FileKeeps, FileCreatesKeeps, ResolveKeeps,
     CloseKeeps, EnterKeeps, TellReporterKeeps, StaffDiesKeeps DEF ModerationNext
<1> QED
  BY <1>1, <1>2

\* What is in order is what the runs check.
LEMMA DeskRight == DeskInv => ModerationInv
<1> SUFFICES ASSUME DeskInv PROVE ModerationInv
  OBVIOUS
<1>1. OneOpenReport
  <2> SUFFICES ASSUME ~doubled PROVE Cardinality(OpenReports) <= 1
    BY DEF OneOpenReport
  <2>1. CASE OpenReports = {}
    <3>1. Cardinality({}) = 0
      BY FS_EmptySet
    <3> QED
      BY <2>1, <3>1
  <2>2. CASE OpenReports # {}
    <3>1. PICK r \in OpenReports : OpenReports = {r}
      BY <2>2 DEF DeskInv, OpenRight
    <3>2. Cardinality({r}) = 1
      BY FS_Singleton
    <3> QED
      BY <3>1, <3>2
  <2> QED
    BY <2>1, <2>2
<1>2. ReporterToldOnce
  BY DEF DeskInv, CloserRight, ReporterToldOnce
<1> QED
  BY <1>1, <1>2 DEF DeskInv, ModerationInv

\* For any staff, reports and listings: one open report of a subject unless two
\* were filed at once, a reporter told once, a trail that tells the state
\* (moderation.ts).
THEOREM ModerationIsRight == ModerationSpec => []ModerationInv
<1>1. DeskInv => ModerationInv
  BY DeskRight
<1> QED
  BY DeskInit, DeskNext, <1>1, PTL DEF ModerationSpec

-----------------------------------------------------------------------------
(***************************************************************************)
(* The address book                                                        *)
(***************************************************************************)

Edit == [task : {"clear", "keep", "write", "delete"}, address : Addresses \cup {NewAddress},
         chosen : BOOLEAN, cleared : SUBSET Addresses, alone : BOOLEAN]

\* What an edit that nobody overlaps has read still stands.
EditRight(x) ==
    /\ x.address # NewAddress => x.address \in Saved
    /\ x.address = NewAddress => x.task \in {"clear", "write"} /\ (x.chosen \/ Saved # {})
    /\ x.task \in {"clear", "write"} /\ x.address # NewAddress => x.chosen
    /\ x.task = "write" => x.cleared = IF x.chosen THEN Defaults ELSE {}
    /\ x.task \in {"clear", "keep"} => x.cleared = {}
    /\ x.task \in {"keep", "delete"} => (x.chosen <=> x.address \in Defaults)

EditorsRight ==
    \A e \in Busy :
        /\ ~muddled => editor[e].alone
        /\ editor[e].alone => Busy = {e} /\ EditRight(editor[e])

\* A book that is right has its one default among the addresses it shows.
BookRight ==
    ~muddled => (Saved = {} /\ Defaults = {}) \/ \E d \in Saved : Defaults = {d}

AddressBookInv ==
    /\ address \in [Addresses -> [state : {"none", "kept", "deleted"}, default : BOOLEAN]]
    /\ editor \in [Editors -> Edit \cup {NotEditing}]
    /\ muddled \in BOOLEAN
    /\ EditorsRight /\ BookRight

\* A book starts empty, with no write under way.
LEMMA AddressesStart == AddressesInit => AddressBookInv
<1> SUFFICES ASSUME AddressesInit PROVE AddressBookInv
  OBVIOUS
<1>1. Busy = {} /\ Saved = {} /\ Defaults = {}
  BY DEF AddressesInit, Busy, Editing, NotEditing, Saved, Defaults, Blank
<1> QED
  BY <1>1 DEF AddressesInit, AddressBookInv, EditorsRight, BookRight, Blank

\* A request that is under way has an edit.
LEMMA EditIs ==
    ASSUME AddressBookInv, NEW e \in Editors
    PROVE  /\ e \in Busy <=> editor[e] \in Edit
           /\ e \notin Busy <=> editor[e] = NotEditing
           /\ editor[e].task # "idle" <=> e \in Busy
<1>1. editor[e] \in Edit \/ editor[e] = NotEditing
  BY DEF AddressBookInv
<1>2. \A x \in Edit : x.task # "idle"
  BY DEF Edit
<1>3. NotEditing.task = "idle"
  BY DEF NotEditing
<1> QED
  BY <1>1, <1>2, <1>3 DEF Busy, Editing

\* Opening an edit: what it has read is right if nobody else is about.
LEMMA OpensKeeps ==
    ASSUME AddressBookInv, NEW e \in Editors, NEW task \in {"clear", "keep", "write", "delete"},
           NEW a \in Addresses \cup {NewAddress}, NEW chosen \in BOOLEAN,
           Opens(e, task, a, chosen),
           EditRight([task |-> task, address |-> a, chosen |-> chosen,
                      cleared |-> {}, alone |-> TRUE])
    PROVE  AddressBookInv'
<1> DEFINE x == [task |-> task, address |-> a, chosen |-> chosen,
                 cleared |-> {}, alone |-> Busy = {}]
           then(f) == IF f = e THEN x
                      ELSE IF f \in Busy THEN [editor[f] EXCEPT !.alone = FALSE] ELSE editor[f]
<1>1. /\ e \notin Busy
      /\ editor' = [f \in Editors |-> then(f)]
      /\ muddled' = (muddled \/ Busy # {})
      /\ address' = address
  BY DEF Opens, Busy
<1>2. x \in Edit /\ (Busy = {}) \in BOOLEAN /\ x.alone = (Busy = {})
  BY DEF Edit
<1>3. editor'[e] = x /\ e \in Busy'
  BY <1>1, <1>2 DEF Busy, Editing
<1>4. \A f \in Editors \ {e} : f \in Busy =>
        editor'[f] \in Edit /\ editor'[f].alone = FALSE
  <2> SUFFICES ASSUME NEW f \in Editors \ {e}, f \in Busy
               PROVE  editor'[f] \in Edit /\ editor'[f].alone = FALSE
    OBVIOUS
  <2>1. editor'[f] = [editor[f] EXCEPT !.alone = FALSE]
    BY <1>1
  <2>2. editor[f] \in Edit
    BY EditIs
  <2> QED
    BY <2>1, <2>2 DEF Edit
<1>5. \A f \in Editors \ {e} : f \notin Busy => editor'[f] = NotEditing /\ f \notin Busy'
  <2> SUFFICES ASSUME NEW f \in Editors \ {e}, f \notin Busy
               PROVE  editor'[f] = NotEditing /\ f \notin Busy'
    OBVIOUS
  <2>1. editor'[f] = editor[f] /\ editor[f] = NotEditing
    BY <1>1, EditIs
  <2> QED
    BY <2>1 DEF Busy, Editing, NotEditing
<1>6. editor' \in [Editors -> Edit \cup {NotEditing}]
  <2>1. \A f \in Editors : editor'[f] \in Edit \cup {NotEditing}
    BY <1>2, <1>3, <1>4, <1>5
  <2> HIDE DEF then
  <2> QED
    BY <1>1, <2>1
<1>7. Saved' = Saved /\ Defaults' = Defaults
  BY <1>1 DEF Saved, Defaults, Addresses
<1>8. BookRight'
  BY <1>1, <1>7 DEF AddressBookInv, BookRight
<1>9. EditorsRight'
  <2> SUFFICES ASSUME NEW f \in Busy'
               PROVE  /\ ~muddled' => editor'[f].alone
                      /\ editor'[f].alone => Busy' = {f} /\ EditRight(editor[f])'
    BY DEF EditorsRight
  <2>1. f \in Editors
    BY DEF Busy
  <2>2. CASE f # e
    <3>1. f \in Busy
      BY <1>5, <2>1, <2>2
    <3>2. editor'[f].alone = FALSE /\ muddled'
      BY <1>1, <1>4, <2>1, <2>2, <3>1
    <3> QED
      BY <3>2
  <2>3. CASE f = e
    <3>1. ~muddled' => editor'[e].alone
      BY <1>1, <1>2, <1>3
    <3>2. ASSUME editor'[e].alone PROVE Busy' = {e} /\ EditRight(editor[e])'
      <4>1. Busy = {}
        BY <1>2, <1>3, <3>2
      <4>2. Busy' = {e}
        BY <1>3, <1>5, <4>1 DEF Busy
      <4>3. x = [task |-> task, address |-> a, chosen |-> chosen,
                 cleared |-> {}, alone |-> TRUE]
        BY <4>1
      <4> HIDE DEF x
      <4>4. EditRight(x)
        BY <4>3
      <4>5. EditRight(editor[e])'
        BY <1>3, <1>7, <4>4 DEF EditRight, NewAddress
      <4> QED
        BY <4>2, <4>5
    <3> QED
      BY <2>3, <3>1, <3>2
  <2> QED
    BY <2>2, <2>3
<1> QED
  BY <1>1, <1>6, <1>8, <1>9 DEF AddressBookInv, Addresses

\* A request to add an address reads the book.
LEMMA CreateKeeps ==
    ASSUME AddressBookInv, NEW e \in Editors, NEW wanted \in BOOLEAN, Create(e, wanted)
    PROVE  AddressBookInv'
<1> DEFINE chosen == wanted \/ Saved = {}
           x == [task |-> "clear", address |-> NewAddress, chosen |-> chosen,
                 cleared |-> {}, alone |-> TRUE]
<1>1. chosen \in BOOLEAN /\ (chosen \/ Saved # {})
  OBVIOUS
<1>2. Opens(e, "clear", NewAddress, chosen)
  BY DEF Create
<1> HIDE DEF chosen
<1>3. EditRight(x)
  BY <1>1 DEF EditRight
<1> QED
  BY <1>1, <1>2, <1>3, OpensKeeps

\* A request to change an address reads it.
LEMMA UpdateKeeps ==
    ASSUME AddressBookInv, NEW e \in Editors, NEW a \in Addresses, NEW wanted \in BOOLEAN,
           Update(e, a, wanted)
    PROVE  AddressBookInv'
<1> DEFINE chosen == wanted \/ address[a].default
           task == IF wanted THEN "clear" ELSE "keep"
           x == [task |-> task, address |-> a, chosen |-> chosen,
                 cleared |-> {}, alone |-> TRUE]
<1>1. address[a].default \in BOOLEAN /\ a # NewAddress
  BY AddressesAssumption DEF AddressBookInv, Addresses, NewAddress
<1>2. /\ chosen \in BOOLEAN /\ task \in {"clear", "keep"}
      /\ task = "clear" => chosen
      /\ task = "keep" => (chosen <=> a \in Defaults)
  BY <1>1 DEF Defaults
<1>3. Opens(e, task, a, chosen) /\ a \in Saved
  BY DEF Update
<1> HIDE DEF chosen, task
<1>4. EditRight(x)
  BY <1>1, <1>2, <1>3 DEF EditRight
<1> QED
  BY <1>2, <1>3, <1>4, OpensKeeps

\* A request to delete an address reads it.
LEMMA DeleteKeeps ==
    ASSUME AddressBookInv, NEW e \in Editors, NEW a \in Addresses, Delete(e, a)
    PROVE  AddressBookInv'
<1> DEFINE chosen == address[a].default
           x == [task |-> "delete", address |-> a, chosen |-> chosen,
                 cleared |-> {}, alone |-> TRUE]
<1>1. chosen \in BOOLEAN /\ a # NewAddress /\ (chosen <=> a \in Defaults)
  BY AddressesAssumption DEF AddressBookInv, Addresses, NewAddress, Defaults
<1>2. Opens(e, "delete", a, chosen) /\ a \in Saved
  BY DEF Delete
<1> HIDE DEF chosen
<1>3. EditRight(x)
  BY <1>1, <1>2 DEF EditRight
<1> QED
  BY <1>1, <1>2, <1>3, OpensKeeps

\* The transaction notes which default it takes the mark from.
LEMMA ClearKeeps ==
    ASSUME AddressBookInv, NEW e \in Editors, Clear(e)
    PROVE  AddressBookInv'
<1>1. e \in Busy /\ editor[e] \in Edit /\ editor[e].task = "clear"
  BY EditIs DEF Clear, Editing
<1>2. PICK x : x = [editor[e] EXCEPT !.task = "write", !.cleared = Clears(e)]
  OBVIOUS
<1>3. editor' = [editor EXCEPT ![e] = x] /\ address' = address /\ muddled' = muddled
  BY <1>2 DEF Clear, AddressBookInv
<1>4. Clears(e) = IF editor[e].chosen THEN Defaults ELSE {}
  BY DEF Clears
<1>5. /\ x \in Edit /\ x.task = "write" /\ x.cleared = Clears(e)
      /\ x.alone = editor[e].alone /\ x.chosen = editor[e].chosen
      /\ x.address = editor[e].address
  <2>1. Clears(e) \in SUBSET Addresses
    BY <1>4 DEF Defaults
  <2> QED
    BY <1>1, <1>2, <2>1 DEF Edit
<1>6. editor' \in [Editors -> Edit \cup {NotEditing}]
  BY <1>3, <1>5 DEF AddressBookInv
<1>7. editor'[e] = x /\ \A f \in Editors \ {e} : editor'[f] = editor[f]
  BY <1>3 DEF AddressBookInv
<1>8. Busy' = Busy
  BY <1>1, <1>5, <1>7 DEF Busy, Editing
<1>9. Saved' = Saved /\ Defaults' = Defaults
  BY <1>3 DEF Saved, Defaults, Addresses
<1>10. BookRight'
  BY <1>3, <1>9 DEF AddressBookInv, BookRight
<1>11. EditorsRight'
  <2> SUFFICES ASSUME NEW f \in Busy
               PROVE  /\ ~muddled => editor'[f].alone
                      /\ editor'[f].alone => Busy = {f} /\ EditRight(editor[f])'
    BY <1>3, <1>8 DEF EditorsRight
  <2>1. f \in Editors
    BY DEF Busy
  <2>2. CASE f # e
    <3>1. editor'[f] = editor[f]
      BY <1>7, <2>1, <2>2
    <3>2. ~editor[f].alone
      BY <1>1, <2>2 DEF AddressBookInv, EditorsRight
    <3> QED
      BY <3>1, <3>2 DEF AddressBookInv, EditorsRight
  <2>3. CASE f = e
    <3>1. ASSUME x.alone PROVE EditRight(x)
      <4>1. EditRight(editor[e])
        BY <1>1, <1>5, <3>1 DEF AddressBookInv, EditorsRight
      <4> QED
        BY <1>1, <1>4, <1>5, <4>1 DEF EditRight
    <3>2. ASSUME x.alone PROVE EditRight(editor[e])'
      BY <1>7, <1>9, <3>1, <3>2 DEF EditRight, NewAddress
    <3>3. (~muddled => x.alone) /\ (x.alone => Busy = {e})
      BY <1>1, <1>5 DEF AddressBookInv, EditorsRight
    <3> QED
      BY <1>7, <2>3, <3>2, <3>3
  <2> QED
    BY <2>2, <2>3
<1> QED
  BY <1>3, <1>6, <1>10, <1>11 DEF AddressBookInv, Addresses

\* A request that is done leaves others who overlapped it, or nobody.
LEMMA ClosesRight ==
    ASSUME AddressBookInv, NEW e \in Busy, Closes(e),
           ~muddled' => ~muddled \/ editor[e].alone
    PROVE  editor' \in [Editors -> Edit \cup {NotEditing}] /\ EditorsRight'
<1>1. e \in Editors
  BY DEF Busy
<1>2. editor' = [editor EXCEPT ![e] = NotEditing]
  BY DEF Closes
<1>3. editor' \in [Editors -> Edit \cup {NotEditing}]
  BY <1>2 DEF AddressBookInv
<1>4. editor'[e] = NotEditing /\ \A f \in Editors \ {e} : editor'[f] = editor[f]
  BY <1>1, <1>2 DEF AddressBookInv
<1>5. Busy' = Busy \ {e}
  BY <1>4 DEF Busy, Editing, NotEditing
<1>6. ASSUME NEW f \in Busy \ {e} PROVE muddled' /\ ~editor'[f].alone
  <2>1. f \in Editors /\ editor'[f] = editor[f]
    BY <1>4 DEF Busy
  <2>2. ~editor[f].alone /\ ~editor[e].alone
    BY <1>6 DEF AddressBookInv, EditorsRight
  <2>3. muddled
    BY <1>6, <2>2 DEF AddressBookInv, EditorsRight
  <2> QED
    BY <2>1, <2>2, <2>3
<1> QED
  BY <1>3, <1>5, <1>6 DEF EditorsRight

\* What a commit makes of the book.
LEMMA CommitKeeps ==
    ASSUME AddressBookInv, NEW e \in Busy, editor[e].task \in {"write", "keep"},
           NEW a \in Addresses, NEW state \in {"none", "kept", "deleted"}, Commit(e, a, state),
           editor[e].alone =>
               /\ state = "kept"
               /\ editor[e].address = NewAddress => address[a] = Blank
               /\ editor[e].address # NewAddress => editor[e].address = a
    PROVE  AddressBookInv'
<1> DEFINE row(b) == [state |-> IF b = a THEN state ELSE address[b].state,
                      default |-> IF b = a THEN editor[e].chosen
                                  ELSE address[b].default /\ b \notin editor[e].cleared]
<1>1. e \in Editors /\ editor[e] \in Edit
  BY EditIs DEF Busy
<1>2. /\ address' = [b \in Addresses |-> row(b)]
      /\ muddled' = (muddled /\ ~(Editing(e, "write") /\ editor[e].chosen /\ editor[e].alone))
      /\ Closes(e)
  BY DEF Commit
<1>3. editor' \in [Editors -> Edit \cup {NotEditing}] /\ EditorsRight'
  BY <1>2, ClosesRight
<1>4. \A b \in Addresses :
        /\ address'[b].state = IF b = a THEN state ELSE address[b].state
        /\ address'[b].default = IF b = a THEN editor[e].chosen
                                 ELSE address[b].default /\ b \notin editor[e].cleared
        /\ address'[b] \in [state : {"none", "kept", "deleted"}, default : BOOLEAN]
  <2> SUFFICES ASSUME NEW b \in Addresses
               PROVE  /\ address'[b].state = IF b = a THEN state ELSE address[b].state
                      /\ address'[b].default = IF b = a THEN editor[e].chosen
                                 ELSE address[b].default /\ b \notin editor[e].cleared
                      /\ address'[b] \in [state : {"none", "kept", "deleted"}, default : BOOLEAN]
    OBVIOUS
  <2>1. address'[b] = row(b)
    BY <1>2
  <2>2. PICK then, default :
            /\ then = (IF b = a THEN state ELSE address[b].state)
            /\ default = (IF b = a THEN editor[e].chosen
                          ELSE address[b].default /\ b \notin editor[e].cleared)
    OBVIOUS
  <2>3. address[b].state \in {"none", "kept", "deleted"} /\ address[b].default \in BOOLEAN
        /\ editor[e].chosen \in BOOLEAN
    BY <1>1 DEF AddressBookInv, Edit
  <2>4. then \in {"none", "kept", "deleted"} /\ default \in BOOLEAN
    BY <2>2, <2>3
  <2>5. address'[b] = [state |-> then, default |-> default]
    BY <2>1, <2>2
  <2>6. address'[b].state = then /\ address'[b].default = default
    BY <2>5
  <2>7. address'[b] \in [state : {"none", "kept", "deleted"}, default : BOOLEAN]
    BY <2>4, <2>5
  <2> QED
    BY <2>2, <2>6, <2>7
<1>5. address' \in [Addresses -> [state : {"none", "kept", "deleted"}, default : BOOLEAN]]
  <2> HIDE DEF row
  <2> QED
    BY <1>2, <1>4
<1>6. muddled' \in BOOLEAN
  BY <1>2 DEF AddressBookInv
<1>7. BookRight'
  <2> SUFFICES ASSUME ~muddled'
               PROVE  (Saved' = {} /\ Defaults' = {}) \/ \E d \in Saved' : Defaults' = {d}
    BY DEF BookRight
  <2>1. editor[e].alone
    BY <1>2 DEF AddressBookInv, EditorsRight
  <2>2. EditRight(editor[e]) /\ editor[e].chosen \in BOOLEAN
    BY <1>1, <2>1 DEF AddressBookInv, EditorsRight, Edit
  <2>3. state = "kept" /\ a \in Saved'
    BY <1>4, <2>1 DEF Saved, Addresses
  <2>4. \A b \in Addresses \ {a} : b \in Saved' <=> b \in Saved
    BY <1>4 DEF Saved, Addresses
  <2>5. \A b \in Addresses : b \in Defaults' <=>
            IF b = a THEN editor[e].chosen ELSE b \in Defaults /\ b \notin editor[e].cleared
    BY <1>4 DEF Defaults, Addresses
  <2>6. Defaults' \subseteq Addresses /\ Defaults \subseteq Addresses /\ Saved \subseteq Addresses
    BY DEF Defaults, Saved, Addresses
  <2>7. CASE editor[e].task = "write" /\ editor[e].chosen
    <3>1. editor[e].cleared = Defaults
      BY <2>2, <2>7 DEF EditRight
    <3>2. Defaults' = {a}
      BY <2>5, <2>6, <2>7, <3>1
    <3> QED
      BY <2>3, <3>2
  <2>8. CASE ~(editor[e].task = "write" /\ editor[e].chosen)
    <3>1. ~muddled
      BY <1>2, <2>8 DEF Editing
    <3>2. editor[e].cleared = {}
      BY <2>2, <2>8 DEF EditRight
    <3>3. a \in Defaults <=> editor[e].chosen
      <4>1. CASE editor[e].task = "write"
        <5>1. ~editor[e].chosen /\ editor[e].address = NewAddress
          BY <2>2, <2>8, <4>1 DEF EditRight
        <5>2. a \notin Defaults
          BY <2>1, <5>1 DEF Defaults, Blank
        <5> QED
          BY <5>1, <5>2
      <4>2. CASE editor[e].task = "keep"
        <5>1. editor[e].address = a
          BY <2>1, <2>2, <4>2 DEF EditRight
        <5> QED
          BY <2>2, <4>2, <5>1 DEF EditRight
      <4> QED
        BY <4>1, <4>2
    <3>4. Defaults' = Defaults
      BY <2>5, <2>6, <3>2, <3>3
    <3>5. Saved # {}
      BY <2>1, <2>2, <2>8 DEF EditRight
    <3>6. PICK d \in Saved : Defaults = {d}
      BY <3>1, <3>5 DEF AddressBookInv, BookRight
    <3>7. d \in Saved'
      BY <2>3, <2>4, <2>6
    <3> QED
      BY <3>4, <3>6, <3>7
  <2> QED
    BY <2>7, <2>8
<1> QED
  BY <1>3, <1>5, <1>6, <1>7 DEF AddressBookInv, Addresses

\* The row is written, and the mark is where the request wants it.
LEMMA WriteKeeps ==
    ASSUME AddressBookInv, NEW e \in Editors, Write(e)
    PROVE  AddressBookInv'
<1>1. e \in Busy /\ editor[e].task \in {"write", "keep"} /\ editor[e] \in Edit
  BY EditIs DEF Write
<1>2. CASE editor[e].address = NewAddress
  <2>1. PICK a \in Addresses : address[a] = Blank /\ Commit(e, a, "kept")
    BY <1>2 DEF Write
  <2> QED
    BY <1>1, <1>2, <2>1, CommitKeeps
<1>3. CASE editor[e].address # NewAddress
  <2>1. PICK a \in Addresses : a = editor[e].address
    BY <1>1, <1>3 DEF Edit
  <2>2. PICK state \in {"none", "kept", "deleted"} : state = address[a].state
    BY DEF AddressBookInv
  <2>3. Commit(e, a, state)
    BY <1>3, <2>1, <2>2 DEF Write
  <2>4. editor[e].alone => a \in Saved
    BY <1>1, <1>3, <2>1 DEF AddressBookInv, EditorsRight, EditRight
  <2>5. editor[e].alone => state = "kept"
    BY <2>2, <2>4 DEF Saved
  <2> QED
    BY <1>1, <1>3, <2>1, <2>2, <2>3, <2>4, <2>5, CommitKeeps
<1> QED
  BY <1>2, <1>3

\* A deletion hands the mark on in its own transaction.
LEMMA DeleteCommitsKeeps ==
    ASSUME AddressBookInv, NEW e \in Editors, DeleteCommits(e)
    PROVE  AddressBookInv'
<1>1. e \in Busy /\ editor[e] \in Edit /\ editor[e].task = "delete"
  BY EditIs DEF DeleteCommits, Editing
<1>2. PICK a, heir : a = editor[e].address
                     /\ heir = IF editor[e].chosen THEN NextAfter(a) ELSE {}
  OBVIOUS
<1> DEFINE row(b) == IF b = a THEN [state |-> "deleted", default |-> FALSE]
                     ELSE [address[b] EXCEPT !.default = @ \/ b \in heir]
<1>3. /\ address' = [b \in Addresses |-> row(b)]
      /\ Closes(e) /\ muddled' = muddled
  BY <1>2 DEF DeleteCommits
<1>4. editor' \in [Editors -> Edit \cup {NotEditing}] /\ EditorsRight'
  BY <1>1, <1>3, ClosesRight
<1>5. \A b \in Addresses :
        /\ address'[b].state = IF b = a THEN "deleted" ELSE address[b].state
        /\ address'[b].default = (b # a /\ (address[b].default \/ b \in heir))
        /\ address'[b] \in [state : {"none", "kept", "deleted"}, default : BOOLEAN]
  <2> SUFFICES ASSUME NEW b \in Addresses
               PROVE  /\ address'[b].state = IF b = a THEN "deleted" ELSE address[b].state
                      /\ address'[b].default = (b # a /\ (address[b].default \/ b \in heir))
                      /\ address'[b] \in [state : {"none", "kept", "deleted"}, default : BOOLEAN]
    OBVIOUS
  <2>1. address'[b] = row(b)
    BY <1>3
  <2>2. address[b] \in [state : {"none", "kept", "deleted"}, default : BOOLEAN]
    BY DEF AddressBookInv
  <2>3. CASE b = a
    <3>1. address'[b] = [state |-> "deleted", default |-> FALSE]
      BY <2>1, <2>3
    <3>2. /\ address'[b].state = "deleted" /\ address'[b].default = FALSE
          /\ address'[b] \in [state : {"none", "kept", "deleted"}, default : BOOLEAN]
      BY <3>1
    <3>3. (b # a /\ (address[b].default \/ b \in heir)) = FALSE
      BY <2>3
    <3> QED
      BY <2>3, <3>2, <3>3
  <2>4. CASE b # a
    <3>1. PICK default \in BOOLEAN : default = (address[b].default \/ b \in heir)
      BY <2>2
    <3>2. address'[b] = [address[b] EXCEPT !.default = default]
      BY <2>1, <2>4, <3>1
    <3>3. /\ address'[b].state = address[b].state /\ address'[b].default = default
          /\ address'[b] \in [state : {"none", "kept", "deleted"}, default : BOOLEAN]
      BY <2>2, <3>1, <3>2
    <3>4. default = (b # a /\ (address[b].default \/ b \in heir))
      BY <2>4, <3>1
    <3> QED
      BY <2>4, <3>3, <3>4
  <2> QED
    BY <2>3, <2>4
<1>6. address' \in [Addresses -> [state : {"none", "kept", "deleted"}, default : BOOLEAN]]
  <2> HIDE DEF row
  <2> QED
    BY <1>3, <1>5
<1>7. BookRight'
  <2> SUFFICES ASSUME ~muddled
               PROVE  (Saved' = {} /\ Defaults' = {}) \/ \E d \in Saved' : Defaults' = {d}
    BY <1>3 DEF BookRight
  <2>1. EditRight(editor[e]) /\ editor[e].chosen \in BOOLEAN
    BY <1>1 DEF AddressBookInv, EditorsRight, Edit
  <2>2. a \in Saved /\ (editor[e].chosen <=> a \in Defaults)
    BY <1>1, <1>2, <2>1 DEF EditRight
  <2>3. PICK d \in Saved : Defaults = {d}
    BY <2>2 DEF AddressBookInv, BookRight
  <2>4. Saved' = Saved \ {a}
    BY <1>5 DEF Saved, Addresses
  <2>5. \A b \in Addresses : b \in Defaults' <=> b # a /\ (b \in Defaults \/ b \in heir)
    BY <1>5 DEF Defaults, Addresses
  <2>6. Defaults' \subseteq Addresses /\ Defaults \subseteq Addresses /\ Saved \subseteq Addresses
    BY DEF Defaults, Saved, Addresses
  <2>7. CASE d # a
    <3>1. heir = {}
      BY <1>2, <2>2, <2>3, <2>7
    <3>2. Defaults' = {d} /\ d \in Saved'
      BY <2>3, <2>4, <2>5, <2>6, <2>7, <3>1
    <3> QED
      BY <3>2
  <2>8. CASE d = a
    <3>1. heir = NextAfter(a) /\ Defaults' = heir
      <4>1. heir = NextAfter(a)
        BY <1>2, <2>2, <2>3, <2>8
      <4>2. heir \subseteq Addresses /\ a \notin heir
        BY <2>6, <4>1 DEF NextAfter
      <4> QED
        BY <2>3, <2>5, <2>6, <2>8, <4>1, <4>2
    <3>2. CASE Saved \ {a} = {}
      BY <2>4, <3>1, <3>2 DEF NextAfter
    <3>3. CASE Saved \ {a} # {}
      <4>1. Addresses \in SUBSET Nat /\ IsFiniteSet(Addresses)
        BY AddressesAssumption, FS_Interval DEF Addresses
      <4>2. Saved \ {a} \in SUBSET Nat /\ IsFiniteSet(Saved \ {a})
        BY <2>6, <4>1, FS_Subset
      <4>3. PICK b \in Saved \ {a} : \A c \in Saved \ {a} : c <= b
        BY <3>3, <4>2, GreatestOf
      <4>4. NextAfter(a) = {b}
        BY <4>2, <4>3 DEF NextAfter
      <4> QED
        BY <2>4, <3>1, <4>3, <4>4
    <3> QED
      BY <3>2, <3>3
  <2> QED
    BY <2>7, <2>8
<1> QED
  BY <1>3, <1>4, <1>6, <1>7 DEF AddressBookInv, Addresses

\* A request that dies leaves what it had committed.
LEMMA EditorDiesKeeps ==
    ASSUME AddressBookInv, NEW e \in Editors, EditorDies(e)
    PROVE  AddressBookInv'
<1>1. e \in Busy /\ Closes(e) /\ address' = address /\ muddled' = muddled
  BY DEF EditorDies
<1>2. editor' \in [Editors -> Edit \cup {NotEditing}] /\ EditorsRight'
  BY <1>1, ClosesRight
<1>3. Saved' = Saved /\ Defaults' = Defaults
  BY <1>1 DEF Saved, Defaults, Addresses
<1> QED
  BY <1>1, <1>2, <1>3 DEF AddressBookInv, BookRight, Addresses

\* Every step keeps the books in order.
LEMMA AddressesStep == AddressBookInv /\ [AddressesNext]_addressesVars => AddressBookInv'
<1> SUFFICES ASSUME AddressBookInv, [AddressesNext]_addressesVars PROVE AddressBookInv'
  OBVIOUS
<1>1. CASE UNCHANGED addressesVars
  <2>1. Saved' = Saved /\ Defaults' = Defaults /\ Busy' = Busy
    BY <1>1 DEF addressesVars, Saved, Defaults, Addresses, Busy, Editing
  <2> QED
    BY <1>1, <2>1 DEF addressesVars, AddressBookInv, BookRight, EditorsRight, EditRight,
       Addresses, Edit
<1>2. CASE AddressesNext
  BY <1>2, CreateKeeps, UpdateKeeps, DeleteKeeps, ClearKeeps, WriteKeeps, DeleteCommitsKeeps,
     EditorDiesKeeps DEF AddressesNext
<1> QED
  BY <1>1, <1>2

\* Rows and requests keep their shape, and there is exactly one default unless
\* requests overlapped: addresses.ts through creation, edits and deletions, for
\* any number of addresses and requests.
THEOREM AddressesAreRight == AddressesSpec => []AddressesInv
<1>1. AddressBookInv => AddressesInv
  <2> SUFFICES ASSUME AddressBookInv PROVE AddressesInv
    OBVIOUS
  <2>1. AddressesTypeOK
    <3>1. \A e \in Busy : editor[e].cleared \subseteq Addresses
      BY EditIs DEF Busy, Edit
    <3> QED
      BY <3>1 DEF AddressBookInv, AddressesTypeOK
  <2>2. ExactlyOneDefault
    <3> SUFFICES ASSUME ~muddled
                 PROVE  Cardinality(Saved \cap Defaults) = IF Saved = {} THEN 0 ELSE 1
      BY DEF ExactlyOneDefault
    <3>1. CASE Saved = {}
      <4>1. Cardinality({}) = 0 /\ Saved \cap Defaults = {}
        BY <3>1, FS_EmptySet
      <4> QED
        BY <3>1, <4>1
    <3>2. CASE Saved # {}
      <4>1. PICK d \in Saved : Defaults = {d}
        BY <3>2 DEF AddressBookInv, BookRight
      <4>2. Saved \cap Defaults = {d} /\ Cardinality({d}) = 1
        BY <4>1, FS_Singleton
      <4> QED
        BY <3>2, <4>2
    <3> QED
      BY <3>1, <3>2
  <2> QED
    BY <2>1, <2>2 DEF AddressesInv
<1> QED
  BY AddressesStart, AddressesStep, <1>1, PTL DEF AddressesSpec

-----------------------------------------------------------------------------
(***************************************************************************)
(* The conversation                                                        *)
(***************************************************************************)

Visit == [task : {"write", "read", "mark"}, side : ThreadSides, saw : Nat]
LooksIn(x) == x.task \in {"read", "mark"}

\* A side has been shown what one who looks saw, if the page reached it.
LookersRight ==
    \A v \in Visitors : LooksIn(visitor[v]) =>
        /\ visitor[v].saw <= Len(messages)
        /\ visitor[v].saw <= PageSize => visitor[v].saw <= shown[visitor[v].side]

ConversationInv ==
    /\ ThreadsTypeOK
    /\ visitor \in [Visitors -> Visit \cup {Away}]
    /\ \A side \in ThreadSides : shown[side] <= Len(messages) /\ shown[side] <= PageSize
    /\ LookersRight
    /\ BadgeKnows

\* A conversation starts without messages.
LEMMA ConversationStart == ThreadsInit => ConversationInv
<1> SUFFICES ASSUME ThreadsInit PROVE ConversationInv
  OBVIOUS
<1>1. \A v \in Visitors : ~LooksIn(visitor[v])
  BY DEF ThreadsInit, LooksIn, Away
<1>2. Len(messages) = 0 /\ PageSize \in Nat /\ PageSize >= 0
  BY ThreadsAssumption DEF ThreadsInit
<1>5. \A side \in ThreadSides : shown[side] = 0 /\ unread[side] = 0
  BY DEF ThreadsInit
<1>3. BadgeKnows
  <2>1. \A side : Unseen(side) = {}
    BY DEF ThreadsInit, Unseen
  <2>2. Cardinality({}) = 0
    BY FS_EmptySet
  <2> QED
    BY <1>5, <2>1, <2>2 DEF BadgeKnows
<1>4. ThreadsTypeOK /\ visitor \in [Visitors -> Visit \cup {Away}]
  <2>1. messages \in Seq(ThreadSides)
    BY DEF ThreadsInit
  <2>2. unread \in [ThreadSides -> Nat] /\ shown \in [ThreadSides -> Nat]
    BY DEF ThreadsInit
  <2>3. visitor \in [Visitors -> Visit \cup {Away}]
    BY DEF ThreadsInit
  <2> QED
    BY <2>1, <2>2, <2>3 DEF ThreadsInit, ThreadsTypeOK
<1> QED
  BY <1>1, <1>2, <1>3, <1>4, <1>5 DEF ConversationInv, LookersRight

\* What a side has not seen is finite.
LEMMA UnseenFinite ==
    ASSUME ConversationInv, NEW side
    PROVE  IsFiniteSet(Unseen(side)) /\ Unseen(side) \subseteq 1..Len(messages)
           /\ Cardinality(Unseen(side)) \in Nat
<1>1. Unseen(side) \subseteq 1..Len(messages) /\ Len(messages) \in Nat
  BY DEF ConversationInv, ThreadsTypeOK, Unseen
<1>2. IsFiniteSet(1..Len(messages))
  BY <1>1, FS_Interval
<1>3. IsFiniteSet(Unseen(side))
  BY <1>1, <1>2, FS_Subset
<1> QED
  BY <1>1, <1>3, FS_CardinalityType

\* A message adds one to what the other side has not seen, and to its badge.
LEMMA WritingKeeps ==
    ASSUME ConversationInv, NEW author \in ThreadSides, WritesMessage(author)
    PROVE  /\ ThreadsTypeOK'
           /\ Len(messages) \in Nat /\ Len(messages') = Len(messages) + 1
           /\ \A side \in ThreadSides : shown'[side] <= Len(messages') /\ shown'[side] <= PageSize
           /\ BadgeKnows'
<1> DEFINE other == CountsFor(author)
<1>1. other \in ThreadSides /\ other # author
  BY DEF CountsFor, ThreadSides
<1>2. /\ messages' = Append(messages, author)
      /\ unread' = [unread EXCEPT ![other] = @ + 1]
      /\ UNCHANGED <<closedAt, shown, missed>>
  BY DEF WritesMessage
<1> HIDE DEF other
<1>3. /\ messages' \in Seq(ThreadSides) /\ Len(messages') = Len(messages) + 1
      /\ Len(messages) \in Nat
      /\ \A i \in 1..Len(messages) : messages'[i] = messages[i]
      /\ messages'[Len(messages) + 1] = author
  BY <1>2 DEF ConversationInv, ThreadsTypeOK
<1>4. ThreadsTypeOK'
  BY <1>1, <1>2, <1>3 DEF ConversationInv, ThreadsTypeOK
<1>5. \A side \in ThreadSides : shown'[side] <= Len(messages') /\ shown'[side] <= PageSize
  BY <1>2, <1>3 DEF ConversationInv, ThreadsTypeOK
<1>6. BadgeKnows'
  <2> SUFFICES ASSUME NEW side \in ThreadSides, side \notin missed
               PROVE  unread'[side] >= Cardinality(Unseen(side)')
    BY <1>2 DEF BadgeKnows, ThreadSides
  <2>1. unread[side] \in Nat /\ unread[side] >= Cardinality(Unseen(side))
    BY DEF ConversationInv, BadgeKnows, ThreadsTypeOK
  <2>2. IsFiniteSet(Unseen(side)) /\ Cardinality(Unseen(side)) \in Nat
    BY UnseenFinite
  <2>3. DOMAIN messages' = 1..(Len(messages) + 1) /\ DOMAIN messages = 1..Len(messages)
    BY <1>3 DEF ConversationInv, ThreadsTypeOK
  <2>4. CASE side = author
    <3>1. Unseen(side)' = Unseen(side)
      BY <1>2, <1>3, <2>3, <2>4 DEF Unseen
    <3>2. unread'[side] = unread[side]
      BY <1>1, <1>2, <2>4 DEF ConversationInv, ThreadsTypeOK
    <3> QED
      BY <2>1, <3>1, <3>2
  <2>5. CASE side # author
    <3>1. side = other
      BY <1>1, <2>5 DEF ThreadSides
    <3>2. Unseen(side)' \subseteq Unseen(side) \cup {Len(messages) + 1}
      BY <1>2, <1>3, <2>3 DEF Unseen
    <3>3. /\ IsFiniteSet(Unseen(side) \cup {Len(messages) + 1})
          /\ Cardinality(Unseen(side) \cup {Len(messages) + 1}) <= Cardinality(Unseen(side)) + 1
          /\ Cardinality(Unseen(side) \cup {Len(messages) + 1}) \in Nat
      <4>1. /\ IsFiniteSet(Unseen(side) \cup {Len(messages) + 1})
            /\ Cardinality(Unseen(side) \cup {Len(messages) + 1}) =
                   IF Len(messages) + 1 \in Unseen(side) THEN Cardinality(Unseen(side))
                   ELSE Cardinality(Unseen(side)) + 1
        BY <2>2, FS_AddElement
      <4> QED
        BY <2>2, <4>1
    <3>4. Cardinality(Unseen(side)') <= Cardinality(Unseen(side) \cup {Len(messages) + 1})
          /\ Cardinality(Unseen(side)') \in Nat
      BY <3>2, <3>3, FS_Subset, FS_CardinalityType
    <3>5. unread'[side] = unread[side] + 1
      BY <1>1, <1>2, <3>1 DEF ConversationInv, ThreadsTypeOK
    <3> QED
      BY <2>1, <2>2, <3>3, <3>4, <3>5
  <2> QED
    BY <2>4, <2>5
<1> QED
  BY <1>3, <1>4, <1>5, <1>6

\* One who leaves, or who comes to write, says nothing about what was shown.
LEMMA VisitKeeps ==
    ASSUME ConversationInv, NEW v \in Visitors, NEW x \in Visit \cup {Away}, ~LooksIn(x),
           visitor' = [visitor EXCEPT ![v] = x] \/ visitor' = visitor, shown' = shown,
           messages' = messages \/ Len(messages') = Len(messages) + 1
    PROVE  visitor' \in [Visitors -> Visit \cup {Away}] /\ LookersRight'
<1>1. visitor' \in [Visitors -> Visit \cup {Away}]
  BY DEF ConversationInv
<1>2. \A w \in Visitors : visitor'[w] = visitor[w] \/ visitor'[w] = x
  BY DEF ConversationInv
<1>3. Len(messages) \in Nat /\ Len(messages') \in Nat /\ Len(messages') >= Len(messages)
  BY DEF ConversationInv, ThreadsTypeOK
<1>4. LookersRight'
  <2> SUFFICES ASSUME NEW w \in Visitors, LooksIn(visitor'[w])
               PROVE  /\ visitor'[w].saw <= Len(messages')
                      /\ visitor'[w].saw <= PageSize => visitor'[w].saw <= shown[visitor'[w].side]
    BY DEF LookersRight
  <2>1. visitor'[w] = visitor[w]
    BY <1>2 DEF LooksIn
  <2>2. visitor[w].saw \in Nat
    BY <2>1 DEF ConversationInv, Visit, LooksIn, Away
  <2> QED
    BY <1>3, <2>1, <2>2 DEF ConversationInv, LookersRight
<1> QED
  BY <1>1, <1>4

\* Nothing is said of those who do not look.
LEMMA AwayIs == Away \in Visit \cup {Away} /\ ~LooksIn(Away)
  BY DEF LooksIn, Away

\* Opening a conversation finds it or makes it.
LEMMA OpenThreadKeeps ==
    ASSUME ConversationInv, NEW side \in ThreadSides, OpenThread(side) \/ PostMessageTx(side)
    PROVE  ConversationInv'
<1>1. WritesMessage(side) /\ visitor' = visitor
  BY DEF OpenThread, PostMessageTx
<1>2. shown' = shown
  BY <1>1 DEF WritesMessage
<1>3. visitor' \in [Visitors -> Visit \cup {Away}] /\ LookersRight'
  <2>1. Len(messages') = Len(messages) + 1
    BY <1>1, WritingKeeps
  <2>2. CASE Visitors = {}
    BY <1>1, <2>2 DEF ConversationInv, LookersRight
  <2>3. CASE Visitors # {}
    BY <1>1, <1>2, <2>1, <2>3, AwayIs, VisitKeeps
  <2> QED
    BY <2>2, <2>3
<1> QED
  BY <1>1, <1>3, WritingKeeps DEF ConversationInv

\* A message is written with the badge it raises, in one transaction.
LEMMA PostMessageKeeps ==
    ASSUME ConversationInv, NEW v \in Visitors, PostMessage(v)
    PROVE  ConversationInv'
<1>1. PICK side \in ThreadSides : side = visitor[v].side
  BY DEF PostMessage, Visiting, ConversationInv, Visit, Away
<1>2. WritesMessage(side) /\ visitor' = [visitor EXCEPT ![v] = Away]
  BY <1>1 DEF PostMessage, LeavesThread
<1>3. shown' = shown
  BY <1>2 DEF WritesMessage
<1>4. visitor' \in [Visitors -> Visit \cup {Away}] /\ LookersRight'
  BY <1>2, <1>3, AwayIs, VisitKeeps, WritingKeeps
<1> QED
  BY <1>2, <1>4, WritingKeeps DEF ConversationInv

\* What a step leaves of the conversation.
LEMMA ConversationRests ==
    ASSUME ConversationInv, UNCHANGED <<messages, unread, shown, missed>>, closedAt' \in BOOLEAN,
           visitor' \in [Visitors -> Visit \cup {Away}], LookersRight'
    PROVE  ConversationInv'
<1>1. \A side : Unseen(side)' = Unseen(side)
  BY DEF Unseen
<1>2. BadgeKnows'
  BY <1>1 DEF ConversationInv, BadgeKnows, ThreadSides
<1> QED
  BY <1>2 DEF ConversationInv, ThreadsTypeOK, ThreadSides

\* A reply has found the conversation open.
LEMMA ReplyKeeps ==
    ASSUME ConversationInv, NEW v \in Visitors, NEW side \in ThreadSides, Reply(v, side)
    PROVE  ConversationInv'
<1>1. PICK x : x = [task |-> "write", side |-> side, saw |-> Len(messages)]
  OBVIOUS
<1>2. x \in Visit /\ ~LooksIn(x)
  BY <1>1 DEF Visit, LooksIn, ConversationInv, ThreadsTypeOK
<1>3. visitor' = [visitor EXCEPT ![v] = x] /\ UNCHANGED <<messages, closedAt, unread, shown, missed>>
  BY <1>1 DEF Reply, Visits
<1>4. visitor' \in [Visitors -> Visit \cup {Away}] /\ LookersRight'
  BY <1>2, <1>3, VisitKeeps
<1> QED
  BY <1>3, <1>4, ConversationRests DEF ConversationInv, ThreadsTypeOK

\* What a page shows is no longer unseen.
LEMMA ThreadDetailKeeps ==
    ASSUME ConversationInv, NEW v \in Visitors, NEW side \in ThreadSides, ThreadDetail(v, side)
    PROVE  ConversationInv'
<1>1. PICK x : x = [task |-> "read", side |-> side, saw |-> Len(messages)]
  OBVIOUS
<1>2. PICK n : n = IF Len(messages) <= PageSize THEN Len(messages) ELSE PageSize
  OBVIOUS
<1>3. /\ visitor' = [visitor EXCEPT ![v] = x]
      /\ shown' = [shown EXCEPT ![side] = n]
      /\ missed' = IF Len(messages) <= PageSize THEN missed \ {side} ELSE missed
      /\ UNCHANGED <<messages, closedAt, unread>>
  BY <1>1, <1>2 DEF ThreadDetail, Visits
<1>4. /\ Len(messages) \in Nat /\ PageSize \in Nat /\ n \in Nat
      /\ n <= Len(messages) /\ n <= PageSize /\ shown[side] \in Nat /\ shown[side] <= n
  BY <1>2, ThreadsAssumption DEF ConversationInv, ThreadsTypeOK
<1>5. \A s \in ThreadSides : shown'[s] = IF s = side THEN n ELSE shown[s]
  BY <1>3 DEF ConversationInv, ThreadsTypeOK
<1>6. ThreadsTypeOK'
  BY <1>3, <1>4 DEF ConversationInv, ThreadsTypeOK
<1>7. \A s \in ThreadSides : shown'[s] <= Len(messages) /\ shown'[s] <= PageSize
  BY <1>4, <1>5 DEF ConversationInv
<1>8. x \in Visit /\ x.saw = Len(messages) /\ x.side = side
  BY <1>1, <1>4 DEF Visit
<1>9. visitor' \in [Visitors -> Visit \cup {Away}]
  BY <1>3, <1>8 DEF ConversationInv
<1>10. LookersRight'
  <2> SUFFICES ASSUME NEW w \in Visitors, LooksIn(visitor'[w])
               PROVE  /\ visitor'[w].saw <= Len(messages)
                      /\ visitor'[w].saw <= PageSize => visitor'[w].saw <= shown'[visitor'[w].side]
    BY <1>3 DEF LookersRight
  <2>1. CASE w = v
    <3>1. visitor'[w] = x
      BY <1>3, <2>1 DEF ConversationInv
    <3> QED
      BY <1>2, <1>4, <1>5, <1>8, <3>1
  <2>2. CASE w # v
    <3>1. visitor'[w] = visitor[w]
      BY <1>3, <2>2 DEF ConversationInv
    <3>2. visitor[w] \in Visit
      BY <3>1 DEF ConversationInv, LooksIn, Away
    <3>3. /\ visitor[w].saw <= Len(messages)
          /\ visitor[w].saw <= PageSize => visitor[w].saw <= shown[visitor[w].side]
          /\ visitor[w].saw \in Nat /\ visitor[w].side \in ThreadSides
      BY <3>1, <3>2 DEF ConversationInv, LookersRight, Visit
    <3>4. ASSUME NEW s \in ThreadSides
          PROVE  shown[s] <= shown'[s] /\ shown[s] \in Nat /\ shown'[s] \in Nat
      <4>1. shown[s] \in Nat
        BY DEF ConversationInv, ThreadsTypeOK
      <4>2. shown'[s] = IF s = side THEN n ELSE shown[s]
        BY <1>5
      <4> QED
        BY <1>4, <4>1, <4>2
    <3>5. shown[visitor[w].side] <= shown'[visitor[w].side]
          /\ shown[visitor[w].side] \in Nat /\ shown'[visitor[w].side] \in Nat
      BY <3>3, <3>4
    <3> QED
      BY <3>1, <3>3, <3>5
  <2> QED
    BY <2>1, <2>2
<1>11. BadgeKnows'
  <2> SUFFICES ASSUME NEW s \in ThreadSides, s \notin missed'
               PROVE  unread[s] >= Cardinality(Unseen(s)')
    BY <1>3 DEF BadgeKnows, ThreadSides
  <2>1. CASE s = side /\ Len(messages) <= PageSize
    <3>1. Unseen(s)' = {}
      BY <1>2, <1>3, <1>4, <1>5, <2>1 DEF Unseen, ConversationInv, ThreadsTypeOK
    <3>2. Cardinality({}) = 0 /\ unread[s] \in Nat
      BY FS_EmptySet DEF ConversationInv, ThreadsTypeOK
    <3> QED
      BY <3>1, <3>2
  <2>2. CASE ~(s = side /\ Len(messages) <= PageSize)
    <3>1. s \notin missed
      BY <1>3, <2>2
    <3>2. shown[s] <= shown'[s] /\ shown[s] \in Nat /\ shown'[s] \in Nat
      BY <1>4, <1>5 DEF ConversationInv, ThreadsTypeOK
    <3>3. Unseen(s)' \subseteq Unseen(s)
      <4>1. DOMAIN messages \subseteq Nat
        BY DEF ConversationInv, ThreadsTypeOK
      <4> QED
        BY <1>3, <3>2, <4>1 DEF Unseen
    <3>4. IsFiniteSet(Unseen(s)) /\ Cardinality(Unseen(s)) \in Nat
      BY UnseenFinite
    <3>5. Cardinality(Unseen(s)') <= Cardinality(Unseen(s)) /\ Cardinality(Unseen(s)') \in Nat
      BY <3>3, <3>4, FS_Subset, FS_CardinalityType
    <3>6. unread[s] >= Cardinality(Unseen(s)) /\ unread[s] \in Nat
      BY <3>1 DEF ConversationInv, BadgeKnows, ThreadsTypeOK
    <3> QED
      BY <3>4, <3>5, <3>6
  <2> QED
    BY <2>1, <2>2
<1> QED
  BY <1>3, <1>6, <1>7, <1>9, <1>10, <1>11 DEF ConversationInv

\* A visit that finds the badge at zero ends, another goes on to clear it.
LEMMA MarkReadKeeps ==
    ASSUME ConversationInv, NEW v \in Visitors, MarkRead(v)
    PROVE  ConversationInv'
<1>1. visitor[v] \in Visit /\ visitor[v].task = "read"
  BY DEF MarkRead, Visiting, ConversationInv, Away
<1>2. UNCHANGED <<messages, closedAt, unread, shown, missed>>
  BY DEF MarkRead
<1>3. CASE visitor' = [visitor EXCEPT ![v] = Away]
  <2>1. visitor' \in [Visitors -> Visit \cup {Away}] /\ LookersRight'
    BY <1>2, <1>3, AwayIs, VisitKeeps
  <2> QED
    BY <1>2, <2>1, ConversationRests DEF ConversationInv, ThreadsTypeOK
<1>4. CASE visitor' = [visitor EXCEPT ![v].task = "mark"]
  <2>1. PICK x : x = [visitor[v] EXCEPT !.task = "mark"]
    OBVIOUS
  <2>2. x \in Visit /\ x.saw = visitor[v].saw /\ x.side = visitor[v].side
    BY <1>1, <2>1 DEF Visit
  <2>3. visitor'[v] = x /\ \A w \in Visitors \ {v} : visitor'[w] = visitor[w]
    BY <1>4, <2>1 DEF ConversationInv
  <2>4. visitor' \in [Visitors -> Visit \cup {Away}]
    BY <1>4, <2>1, <2>2 DEF ConversationInv
  <2>5. LookersRight'
    <3>1. LooksIn(visitor[v])
      BY <1>1 DEF LooksIn
    <3> QED
      BY <1>2, <2>2, <2>3, <3>1 DEF ConversationInv, LookersRight, LooksIn
  <2> QED
    BY <1>2, <2>4, <2>5, ConversationRests DEF ConversationInv, ThreadsTypeOK
<1> QED
  BY <1>3, <1>4 DEF MarkRead, LeavesThread

\* The badge is cleared, and what came since the page was read is missed.
LEMMA MarkReadWritesKeeps ==
    ASSUME ConversationInv, NEW v \in Visitors, MarkReadWrites(v)
    PROVE  ConversationInv'
<1>1. visitor[v] \in Visit /\ visitor[v].task = "mark"
  BY DEF MarkReadWrites, Visiting, ConversationInv, Away
<1>2. PICK side \in ThreadSides, saw \in Nat : side = visitor[v].side /\ saw = visitor[v].saw
  BY <1>1 DEF Visit
<1>3. /\ unread' = [unread EXCEPT ![side] = 0]
      /\ missed' = IF Len(messages) > saw \/ Len(messages) > PageSize
                   THEN missed \cup {side} ELSE missed
      /\ visitor' = [visitor EXCEPT ![v] = Away]
      /\ UNCHANGED <<messages, closedAt, shown>>
  BY <1>2 DEF MarkReadWrites, ClearsUnread, LeavesThread
<1>4. visitor' \in [Visitors -> Visit \cup {Away}] /\ LookersRight'
  BY <1>3, AwayIs, VisitKeeps
<1>5. ThreadsTypeOK'
  BY <1>3 DEF ConversationInv, ThreadsTypeOK
<1>6. BadgeKnows'
  <2> SUFFICES ASSUME NEW s \in ThreadSides, s \notin missed'
               PROVE  unread'[s] >= Cardinality(Unseen(s)')
    BY DEF BadgeKnows, ThreadSides
  <2>1. Unseen(s)' = Unseen(s) /\ s \notin missed
    BY <1>3 DEF Unseen
  <2>2. CASE s = side
    <3>1. Len(messages) <= saw /\ Len(messages) <= PageSize /\ Len(messages) \in Nat
          /\ PageSize \in Nat
      BY <1>3, <2>2, ThreadsAssumption DEF ConversationInv, ThreadsTypeOK
    <3>2. shown[side] \in Nat /\ shown[side] <= Len(messages)
      BY DEF ConversationInv, ThreadsTypeOK
    <3>3. saw <= Len(messages) /\ (saw <= PageSize => saw <= shown[side])
      BY <1>1, <1>2 DEF ConversationInv, LookersRight, LooksIn
    <3>4. shown[side] = Len(messages)
      BY <3>1, <3>2, <3>3
    <3>5. Unseen(s) = {}
      BY <2>2, <3>4 DEF Unseen, ConversationInv, ThreadsTypeOK
    <3>6. unread'[s] = 0 /\ Cardinality({}) = 0
      BY <1>3, <2>2, FS_EmptySet DEF ConversationInv, ThreadsTypeOK
    <3> QED
      BY <2>1, <3>5, <3>6
  <2>3. CASE s # side
    BY <1>3, <2>1, <2>3 DEF ConversationInv, BadgeKnows, ThreadsTypeOK
  <2> QED
    BY <2>2, <2>3
<1> QED
  BY <1>3, <1>4, <1>5, <1>6 DEF ConversationInv

\* A visit that dies leaves the conversation as it is.
LEMMA VisitDiesKeeps ==
    ASSUME ConversationInv, NEW v \in Visitors, VisitDies(v)
    PROVE  ConversationInv'
<1>1. visitor' = [visitor EXCEPT ![v] = Away] /\ UNCHANGED <<messages, closedAt, unread, shown, missed>>
  BY DEF VisitDies, LeavesThread
<1>2. visitor' \in [Visitors -> Visit \cup {Away}] /\ LookersRight'
  BY <1>1, AwayIs, VisitKeeps
<1> QED
  BY <1>1, <1>2, ConversationRests DEF ConversationInv, ThreadsTypeOK

\* Every step keeps the conversation in order.
LEMMA ConversationStep == ConversationInv /\ [ThreadsNext]_threadsVars => ConversationInv'
<1> SUFFICES ASSUME ConversationInv, [ThreadsNext]_threadsVars PROVE ConversationInv'
  OBVIOUS
<1>1. CASE UNCHANGED threadsVars
  <2>1. visitor' \in [Visitors -> Visit \cup {Away}] /\ LookersRight'
    BY <1>1 DEF threadsVars, ConversationInv, LookersRight
  <2> QED
    BY <1>1, <2>1, ConversationRests DEF threadsVars, ConversationInv, ThreadsTypeOK
<1>2. CASE CloseThread \/ ReopenThread
  <2>1. UNCHANGED <<messages, unread, visitor, shown, missed>> /\ closedAt' \in BOOLEAN
    BY <1>2 DEF CloseThread, ReopenThread
  <2>2. visitor' \in [Visitors -> Visit \cup {Away}] /\ LookersRight'
    BY <2>1 DEF ConversationInv, LookersRight
  <2> QED
    BY <2>1, <2>2, ConversationRests
<1>3. CASE ThreadsNext /\ ~(CloseThread \/ ReopenThread)
  BY <1>3, OpenThreadKeeps, PostMessageKeeps, ReplyKeeps, ThreadDetailKeeps, MarkReadKeeps,
     MarkReadWritesKeeps, VisitDiesKeeps DEF ThreadsNext
<1> QED
  BY <1>1, <1>2, <1>3

\* The badge of a side counts every message it has not been shown, but those
\* that messaging.ts:299 zeroes away.
THEOREM ThreadsAreRight == ThreadsSpec => []ThreadsInv
<1>1. ConversationInv => ThreadsInv
  BY DEF ConversationInv, ThreadsInv
<1> QED
  BY ConversationStart, ConversationStep, <1>1, PTL DEF ThreadsSpec

-----------------------------------------------------------------------------
(***************************************************************************)
(* The telephone number                                                    *)
(***************************************************************************)

Call == [task : {"issue", "prove", "count", "remove"}, of : Accounts, codes : SUBSET Codes,
         late : BOOLEAN]
PhoneRows ==
    /\ code \in [Codes -> [of : Accounts \cup {NoAccount}, live : BOOLEAN,
                           expired : BOOLEAN, attempts : Nat]]
    /\ phoneOf \in Accounts \cup {NoAccount}
    /\ withdrawn \subseteq Codes
    /\ returned = FALSE
    /\ caller \in [Callers -> Call \cup {NotCalling}]

Counting(k) == {c \in Callers : Calling(c, "count") /\ k \in caller[c].codes}
Issuing(u) == {c \in Callers : Calling(c, "issue") /\ caller[c].of = u}

\* Every guess that is under way beside the last allowed one is a caller's.
GuessesRight ==
    \A k \in Codes : code[k].attempts + Cardinality(Counting(k)) < MAX_ATTEMPTS + Cardinality(Callers)

\* A caller has codes of its own account; those it is to prove were not
\* withdrawn before they were checked.
CallRight(x) ==
    /\ \A k \in x.codes : code[k].of = x.of
    /\ x.task = "prove" /\ ~x.late => x.codes \cap withdrawn = {}
CallsRight == \A c \in Callers : caller[c] # NotCalling => CallRight(caller[c])

\* A code that was withdrawn is somebody's, and spent.
WithdrawnRight == \A k \in withdrawn : code[k].of \in Accounts /\ ~code[k].live

\* One at most is being issued, and spends what is live.
IssuesRight ==
    \A u \in Accounts \ atOnce :
        /\ \A k, l \in LiveCodes(u) : k = l
        /\ \A c, d \in Issuing(u) : c = d
        /\ \A c \in Issuing(u) : LiveCodes(u) \subseteq caller[c].codes

PhoneInv == PhoneRows /\ GuessesRight /\ CallsRight /\ WithdrawnRight /\ IssuesRight

\* Who has a task has a call.
LEMMA CallIs ==
    ASSUME PhoneRows, NEW c \in Callers
    PROVE  caller[c] # NotCalling <=> caller[c] \in Call /\ caller[c].task # "idle"
<1>1. caller[c] \in Call \/ caller[c] = NotCalling
  BY DEF PhoneRows
<1>2. NotCalling.task = "idle" /\ \A x \in Call : x.task # "idle"
  BY DEF Call, NotCalling
<1> QED
  BY <1>1, <1>2

\* The requests that are counting a guess are finitely many.
LEMMA CountingFinite ==
    ASSUME NEW k
    PROVE  /\ IsFiniteSet(Counting(k)) /\ Cardinality(Counting(k)) \in Nat
           /\ Cardinality(Callers) \in Nat
           /\ Cardinality(Counting(k)) <= Cardinality(Callers)
<1>1. Counting(k) \subseteq Callers
  BY DEF Counting
<1> QED
  BY <1>1, PhonesAssumption, FS_Subset, FS_CardinalityType

\* No account has a number to begin with.
LEMMA PhoneStart == PhonesInit => PhoneInv
<1> SUFFICES ASSUME PhonesInit PROVE PhoneInv
  OBVIOUS
<1>1. \A k \in Codes : code[k].attempts = 0 /\ ~code[k].live
  BY DEF PhonesInit, Unissued
<1>2. PhoneRows
  <2>1. Unissued \in [of : Accounts \cup {NoAccount}, live : BOOLEAN,
                      expired : BOOLEAN, attempts : Nat]
    BY DEF Unissued
  <2> QED
    BY <2>1 DEF PhonesInit, PhoneRows
<1>3. GuessesRight
  <2> SUFFICES ASSUME NEW k \in Codes
               PROVE  code[k].attempts + Cardinality(Counting(k)) < MAX_ATTEMPTS + Cardinality(Callers)
    BY DEF GuessesRight
  <2> QED
    BY <1>1, CountingFinite, PhonesAssumption
<1>4. \A u : LiveCodes(u) = {} /\ Issuing(u) = {}
  BY <1>1 DEF PhonesInit, LiveCodes, Issuing, Calling, NotCalling
<1> QED
  BY <1>2, <1>3, <1>4 DEF PhonesInit, PhoneInv, CallsRight, WithdrawnRight, IssuesRight

\* The guesses stay within bounds while none is counted.
LEMMA GuessesKept ==
    ASSUME PhoneInv,
           \A k \in Codes : Counting(k)' \subseteq Counting(k) /\ code'[k].attempts = code[k].attempts
    PROVE  GuessesRight'
<1> SUFFICES ASSUME NEW k \in Codes
             PROVE  code'[k].attempts + Cardinality(Counting(k)') < MAX_ATTEMPTS + Cardinality(Callers)
  BY DEF GuessesRight, Codes
<1>1. IsFiniteSet(Counting(k)) /\ Cardinality(Counting(k)) \in Nat /\ Cardinality(Callers) \in Nat
  BY CountingFinite
<1>2. Cardinality(Counting(k)') <= Cardinality(Counting(k)) /\ Cardinality(Counting(k)') \in Nat
  BY <1>1, FS_Subset, FS_CardinalityType
<1>3. code[k].attempts + Cardinality(Counting(k)) < MAX_ATTEMPTS + Cardinality(Callers)
  BY DEF PhoneInv, GuessesRight
<1>4. code[k].attempts \in Nat
  BY DEF PhoneInv, PhoneRows
<1> QED
  BY <1>1, <1>2, <1>3, <1>4, PhonesAssumption

\* Callers that go on or hang up, while codes keep their owner and are at most
\* spent, keep what is said of calls.
LEMMA CallsKept ==
    ASSUME PhoneInv, UNCHANGED <<withdrawn, atOnce>>,
           \A k \in Codes : code'[k].of = code[k].of /\ (code'[k].live => code[k].live),
           \A d \in Callers : caller'[d] = caller[d] \/ caller'[d] = NotCalling
    PROVE  CallsRight' /\ WithdrawnRight' /\ IssuesRight'
<1>1. \A u : LiveCodes(u)' \subseteq LiveCodes(u)
  BY DEF LiveCodes, Codes
<1>2. \A u : \A d \in Issuing(u)' : d \in Issuing(u) /\ caller'[d] = caller[d]
  BY DEF Issuing, Calling, NotCalling
<1>3. IssuesRight'
  BY <1>1, <1>2 DEF PhoneInv, IssuesRight
<1>4. WithdrawnRight'
  BY DEF PhoneInv, PhoneRows, WithdrawnRight
<1>5. CallsRight'
  <2> SUFFICES ASSUME NEW d \in Callers, caller'[d] # NotCalling PROVE CallRight(caller[d])'
    BY DEF CallsRight
  <2>1. caller'[d] = caller[d] /\ CallRight(caller[d]) /\ caller[d] \in Call
    BY CallIs DEF PhoneInv, CallsRight
  <2>2. caller[d].codes \subseteq Codes
    BY <2>1 DEF Call
  <2> QED
    BY <2>1, <2>2 DEF CallRight
<1> QED
  BY <1>3, <1>4, <1>5

\* A caller begins: the codes it read are its account's.
LEMMA CallingKeeps ==
    ASSUME PhoneInv, NEW c \in Callers, NEW task \in {"issue", "prove", "count", "remove"},
           NEW u \in Accounts, NEW codes \in SUBSET LiveCodes(u), Calls(c, task, u, codes),
           UNCHANGED <<code, phoneOf, withdrawn, returned>>
    PROVE  /\ PhoneRows' /\ CallsRight' /\ WithdrawnRight'
           /\ caller[c] = NotCalling
           /\ caller'[c] = [task |-> task, of |-> u, codes |-> codes, late |-> FALSE]
           /\ \A d \in Callers \ {c} : caller'[d] = caller[d]
<1> DEFINE x == [task |-> task, of |-> u, codes |-> codes, late |-> FALSE]
<1>1. caller[c] = NotCalling /\ caller' = [caller EXCEPT ![c] = x]
  BY DEF Calls
<1>2. x \in Call
  BY DEF Call, LiveCodes
<1>3. caller'[c] = x /\ \A d \in Callers \ {c} : caller'[d] = caller[d]
  BY <1>1 DEF PhoneInv, PhoneRows
<1>4. \A k \in codes : code[k].of = u /\ code[k].live
  BY DEF LiveCodes
<1>5. x.of = u /\ x.codes = codes /\ x.task = task
  OBVIOUS
<1> HIDE DEF x
<1>6. PhoneRows'
  BY <1>1, <1>2 DEF PhoneInv, PhoneRows, Codes, Call
<1>7. WithdrawnRight'
  BY DEF PhoneInv, WithdrawnRight
<1>8. CallRight(x)
  BY <1>4, <1>5 DEF PhoneInv, WithdrawnRight, CallRight
<1>9. CallsRight'
  BY <1>3, <1>8 DEF PhoneInv, CallsRight, CallRight
<1> QED
  BY <1>1, <1>3, <1>6, <1>7, <1>9 DEF x

\* Asking for a code finds the number free, or ends.
LEMMA IssueKeeps ==
    ASSUME PhoneInv, NEW c \in Callers, NEW u \in Accounts, Issue(c, u)
    PROVE  PhoneInv'
<1>1. /\ Calls(c, "issue", u, LiveCodes(u))
      /\ atOnce' = IF \E d \in Callers : Calling(d, "issue") /\ caller[d].of = u
                   THEN atOnce \cup {u} ELSE atOnce
      /\ UNCHANGED <<code, phoneOf, withdrawn, returned>>
  BY DEF Issue
<1>2. PICK x : x = [task |-> "issue", of |-> u, codes |-> LiveCodes(u), late |-> FALSE]
  OBVIOUS
<1>3. /\ PhoneRows' /\ CallsRight' /\ WithdrawnRight'
      /\ caller[c] = NotCalling /\ caller'[c] = x
      /\ \A d \in Callers \ {c} : caller'[d] = caller[d]
  BY <1>1, <1>2, CallingKeeps
<1>4. x.task = "issue" /\ x.of = u /\ x.codes = LiveCodes(u)
  BY <1>2
<1>5. GuessesRight'
  <2>1. \A k \in Codes : Counting(k)' \subseteq Counting(k)
    BY <1>3, <1>4 DEF Counting, Calling
  <2> QED
    BY <1>1, <2>1, GuessesKept
<1>6. IssuesRight'
  <2> SUFFICES ASSUME NEW w \in Accounts, w \notin atOnce'
               PROVE  /\ \A k, l \in LiveCodes(w) : k = l
                      /\ \A d, e \in Issuing(w)' : d = e
                      /\ \A d \in Issuing(w)' : LiveCodes(w) \subseteq caller'[d].codes
    BY <1>1 DEF IssuesRight, LiveCodes, Codes
  <2>1. w \notin atOnce
    BY <1>1
  <2>2. CASE w # u
    <3>1. \A d \in Issuing(w)' : d \in Issuing(w) /\ caller'[d] = caller[d]
      BY <1>3, <1>4, <2>2 DEF Issuing, Calling
    <3> QED
      BY <2>1, <3>1 DEF PhoneInv, IssuesRight
  <2>3. CASE w = u
    <3>1. \A d \in Issuing(w)' : d = c
      BY <1>1, <1>3, <2>3 DEF Issuing, Calling
    <3> QED
      BY <1>3, <1>4, <2>1, <2>3, <3>1 DEF PhoneInv, IssuesRight
  <2> QED
    BY <2>2, <2>3
<1> QED
  BY <1>3, <1>5, <1>6 DEF PhoneInv

\* Removing a number notes the codes it is to spend.
LEMMA RemoveKeeps ==
    ASSUME PhoneInv, NEW c \in Callers, NEW u \in Accounts, Remove(c, u)
    PROVE  PhoneInv'
<1>1. /\ Calls(c, "remove", u, LiveCodes(u))
      /\ UNCHANGED <<code, phoneOf, withdrawn, atOnce, returned>>
  BY DEF Remove
<1>2. PICK x : x = [task |-> "remove", of |-> u, codes |-> LiveCodes(u), late |-> FALSE]
  OBVIOUS
<1>3. /\ PhoneRows' /\ CallsRight' /\ WithdrawnRight'
      /\ caller'[c] = x /\ \A d \in Callers \ {c} : caller'[d] = caller[d]
  BY <1>1, <1>2, CallingKeeps
<1>4. x.task = "remove"
  BY <1>2
<1>5. GuessesRight'
  <2>1. \A k \in Codes : Counting(k)' \subseteq Counting(k)
    BY <1>3, <1>4 DEF Counting, Calling
  <2> QED
    BY <1>1, <2>1, GuessesKept
<1>6. IssuesRight'
  <2>1. \A w : \A d \in Issuing(w)' : d \in Issuing(w) /\ caller'[d] = caller[d]
    BY <1>3, <1>4 DEF Issuing, Calling
  <2>2. \A w : LiveCodes(w)' = LiveCodes(w)
    BY <1>1 DEF LiveCodes, Codes
  <2> QED
    BY <1>1, <2>1, <2>2 DEF PhoneInv, IssuesRight
<1> QED
  BY <1>3, <1>5, <1>6 DEF PhoneInv

\* A guess reads the code it is held against.
LEMMA GuessKeeps ==
    ASSUME PhoneInv, NEW c \in Callers, NEW u \in Accounts, Guess(c, u)
    PROVE  PhoneInv'
<1> DEFINE latest == {k \in LiveCodes(u) : \A d \in LiveCodes(u) : d <= k}
<1>1. /\ \E k \in latest : ~code[k].expired /\ GuessesLeft(k)
      /\ \E task \in {"prove", "count"} : Calls(c, task, u, latest)
      /\ UNCHANGED <<code, phoneOf, withdrawn, atOnce, returned>>
  BY DEF Guess
<1>2. PICK task \in {"prove", "count"} : Calls(c, task, u, latest)
  BY <1>1
<1>3. PICK x : x = [task |-> task, of |-> u, codes |-> latest, late |-> FALSE]
  OBVIOUS
<1>4. /\ PhoneRows' /\ CallsRight' /\ WithdrawnRight'
      /\ caller[c] = NotCalling
      /\ caller'[c] = x /\ \A d \in Callers \ {c} : caller'[d] = caller[d]
  <2>1. latest \in SUBSET LiveCodes(u)
    OBVIOUS
  <2> HIDE DEF latest
  <2> QED
    BY <1>1, <1>2, <1>3, <2>1, CallingKeeps
<1>5. x.task = task /\ x.codes = latest
  BY <1>3
<1>6. \A k, l \in latest : k = l
  BY DEF LiveCodes, Codes
<1>7. \A k \in latest : code[k].attempts < MAX_ATTEMPTS
  BY <1>1, <1>6 DEF GuessesLeft
<1> HIDE DEF latest
<1>8. GuessesRight'
  <2> SUFFICES ASSUME NEW k \in Codes
               PROVE  code[k].attempts + Cardinality(Counting(k)') < MAX_ATTEMPTS + Cardinality(Callers)
    BY <1>1 DEF GuessesRight, Codes
  <2>1. Cardinality(Counting(k)') \in Nat /\ Cardinality(Counting(k)') <= Cardinality(Callers)
        /\ Cardinality(Callers) \in Nat
    <3>1. Counting(k)' \subseteq Callers
      BY DEF Counting
    <3> QED
      BY <3>1, PhonesAssumption, FS_Subset, FS_CardinalityType
  <2>2. code[k].attempts \in Nat
    BY DEF PhoneInv, PhoneRows
  <2>3. CASE k \in latest
    BY <1>7, <2>1, <2>2, <2>3, PhonesAssumption
  <2>4. CASE k \notin latest
    <3>1. Counting(k)' \subseteq Counting(k)
      BY <1>4, <1>5, <2>4 DEF Counting, Calling
    <3>2. Cardinality(Counting(k)') <= Cardinality(Counting(k)) /\ Cardinality(Counting(k)) \in Nat
      BY <3>1, CountingFinite, FS_Subset
    <3>3. code[k].attempts + Cardinality(Counting(k)) < MAX_ATTEMPTS + Cardinality(Callers)
      BY DEF PhoneInv, GuessesRight
    <3> QED
      BY <2>1, <2>2, <3>2, <3>3, PhonesAssumption
  <2> QED
    BY <2>3, <2>4
<1>9. IssuesRight'
  <2>1. \A w : \A d \in Issuing(w)' : d \in Issuing(w) /\ caller'[d] = caller[d]
    BY <1>4, <1>5 DEF Issuing, Calling
  <2>2. \A w : LiveCodes(w)' = LiveCodes(w)
    BY <1>1 DEF LiveCodes, Codes
  <2> QED
    BY <1>1, <2>1, <2>2 DEF PhoneInv, IssuesRight
<1> QED
  BY <1>4, <1>8, <1>9 DEF PhoneInv

\* Spending codes changes nothing else about them.
LEMMA SpendsIs ==
    ASSUME PhoneRows, NEW S
    PROVE  /\ Spends(S) \in [Codes -> [of : Accounts \cup {NoAccount}, live : BOOLEAN,
                                       expired : BOOLEAN, attempts : Nat]]
           /\ \A k \in Codes : /\ Spends(S)[k].of = code[k].of
                               /\ Spends(S)[k].attempts = code[k].attempts
                               /\ Spends(S)[k].live => code[k].live /\ k \notin S
<1> DEFINE row(k) == IF k \in S THEN [code[k] EXCEPT !.live = FALSE] ELSE code[k]
           Row == [of : Accounts \cup {NoAccount}, live : BOOLEAN, expired : BOOLEAN, attempts : Nat]
<1>1. Spends(S) = [k \in Codes |-> row(k)]
  BY DEF Spends
<1>2. \A k \in Codes : /\ row(k) \in Row
                       /\ row(k).of = code[k].of /\ row(k).attempts = code[k].attempts
                       /\ row(k).live => code[k].live /\ k \notin S
  <2> SUFFICES ASSUME NEW k \in Codes
               PROVE  /\ row(k) \in Row
                      /\ row(k).of = code[k].of /\ row(k).attempts = code[k].attempts
                      /\ row(k).live => code[k].live /\ k \notin S
    OBVIOUS
  <2>1. code[k] \in Row
    BY DEF PhoneRows
  <2>2. CASE k \in S
    <3>1. row(k) = [code[k] EXCEPT !.live = FALSE]
      BY <2>2
    <3> HIDE DEF row
    <3> QED
      BY <2>1, <3>1
  <2>3. CASE k \notin S
    BY <2>1, <2>3
  <2> QED
    BY <2>2, <2>3
<1> HIDE DEF row
<1> QED
  BY <1>1, <1>2

\* A caller that is done, and at most spent codes.
LEMMA DoneKeeps ==
    ASSUME PhoneInv, NEW c \in Callers, HangsUp(c), UNCHANGED <<withdrawn, atOnce>>,
           PhoneRows',
           \A k \in Codes : /\ code'[k].of = code[k].of /\ (code'[k].live => code[k].live)
                            /\ code'[k].attempts = code[k].attempts
    PROVE  PhoneInv'
<1>1. \A d \in Callers : caller'[d] = caller[d] \/ caller'[d] = NotCalling
  BY DEF HangsUp, PhoneInv, PhoneRows
<1>2. CallsRight' /\ WithdrawnRight' /\ IssuesRight'
  BY <1>1, CallsKept
<1>3. \A k \in Codes : Counting(k)' \subseteq Counting(k)
  BY <1>1 DEF Counting, Calling, NotCalling
<1>4. GuessesRight'
  BY <1>3, GuessesKept
<1> QED
  BY <1>2, <1>4 DEF PhoneInv

\* Who hangs up leaves rows of callers.
LEMMA HangsUpRows ==
    ASSUME PhoneInv, NEW c \in Callers, HangsUp(c)
    PROVE  caller' \in [Callers -> Call \cup {NotCalling}]
  BY DEF PhoneInv, PhoneRows, HangsUp

\* A new code spends the ones before it.
LEMMA IssueCommitsKeeps ==
    ASSUME PhoneInv, NEW c \in Callers, IssueCommits(c)
    PROVE  PhoneInv'
<1>1. /\ Calling(c, "issue") /\ HangsUp(c)
      /\ UNCHANGED <<phoneOf, withdrawn, atOnce, returned>>
  BY DEF IssueCommits
<1>2. caller[c] \in Call /\ caller[c] # NotCalling
  BY <1>1 DEF PhoneInv, PhoneRows, Calling, NotCalling
<1>3. PICK u \in Accounts, spent \in SUBSET Codes : u = caller[c].of /\ spent = caller[c].codes
  BY <1>2 DEF Call
<1>4. PICK new \in Codes :
        /\ code[new] = Unissued
        /\ code' = [Spends(spent) EXCEPT ![new] = [Unissued EXCEPT !.of = u, !.live = TRUE]]
  BY <1>3 DEF IssueCommits
<1>5. PICK row : row = [Unissued EXCEPT !.of = u, !.live = TRUE]
  OBVIOUS
<1>6. /\ row \in [of : Accounts \cup {NoAccount}, live : BOOLEAN, expired : BOOLEAN, attempts : Nat]
      /\ row.of = u /\ row.attempts = 0 /\ row.live
  BY <1>5 DEF Unissued
<1>7. code[new].of = NoAccount /\ code[new].attempts = 0 /\ ~code[new].live
  BY <1>4 DEF Unissued
<1>8. code'[new] = row /\ \A k \in Codes \ {new} : code'[k] = Spends(spent)[k]
  BY <1>4, <1>5, SpendsIs DEF PhoneInv
<1>9. PhoneRows'
  <2>1. code' \in [Codes -> [of : Accounts \cup {NoAccount}, live : BOOLEAN,
                             expired : BOOLEAN, attempts : Nat]]
    BY <1>4, <1>5, <1>6, SpendsIs DEF PhoneInv
  <2> QED
    BY <1>1, <2>1, HangsUpRows DEF PhoneInv, PhoneRows, Codes, Call
<1>10. caller'[c] = NotCalling /\ \A d \in Callers \ {c} : caller'[d] = caller[d]
  BY <1>1 DEF HangsUp, PhoneInv, PhoneRows
<1>11. \A k \in Codes \ {new} : /\ code'[k].of = code[k].of /\ code'[k].attempts = code[k].attempts
                                /\ code'[k].live => code[k].live /\ k \notin spent
  BY <1>8, SpendsIs DEF PhoneInv
<1>12. GuessesRight'
  <2>1. \A k \in Codes : Counting(k)' \subseteq Counting(k)
    BY <1>10 DEF Counting, Calling, NotCalling
  <2>2. \A k \in Codes : code'[k].attempts = code[k].attempts
    BY <1>6, <1>7, <1>8, <1>11
  <2> QED
    BY <2>1, <2>2, GuessesKept
<1>13. WithdrawnRight'
  <2>1. new \notin withdrawn
    BY <1>7, PhonesAssumption DEF PhoneInv, WithdrawnRight
  <2> QED
    BY <1>1, <1>11, <2>1 DEF PhoneInv, PhoneRows, WithdrawnRight
<1>14. CallsRight'
  <2> SUFFICES ASSUME NEW d \in Callers, caller'[d] # NotCalling PROVE CallRight(caller[d])'
    BY DEF CallsRight
  <2>1. caller'[d] = caller[d] /\ CallRight(caller[d]) /\ caller[d] \in Call
    BY <1>10, CallIs DEF PhoneInv, CallsRight
  <2>2. caller[d].codes \subseteq Codes /\ caller[d].of \in Accounts
    BY <2>1 DEF Call
  <2>3. new \notin caller[d].codes
    BY <1>7, <2>1, <2>2, PhonesAssumption DEF CallRight
  <2> QED
    BY <1>1, <1>11, <2>1, <2>2, <2>3 DEF CallRight
<1>15. IssuesRight'
  <2> SUFFICES ASSUME NEW w \in Accounts, w \notin atOnce
               PROVE  /\ \A k, l \in LiveCodes(w)' : k = l
                      /\ \A d, e \in Issuing(w)' : d = e
                      /\ \A d \in Issuing(w)' : LiveCodes(w)' \subseteq caller'[d].codes
    BY <1>1 DEF IssuesRight
  <2>1. \A d \in Issuing(w)' : d # c /\ d \in Issuing(w) /\ caller'[d] = caller[d]
    BY <1>10 DEF Issuing, Calling, NotCalling
  <2>2. \A k \in LiveCodes(w)' : k \in Codes /\ (k # new => k \in LiveCodes(w) /\ k \notin spent)
    BY <1>11 DEF LiveCodes, Codes
  <2>3. CASE w = u
    <3>1. c \in Issuing(w)
      BY <1>1, <1>3, <2>3 DEF Issuing
    <3>2. Issuing(w)' = {}
      BY <2>1, <3>1 DEF PhoneInv, IssuesRight
    <3>3. LiveCodes(w) \subseteq spent
      BY <1>3, <3>1 DEF PhoneInv, IssuesRight
    <3> QED
      BY <2>2, <3>2, <3>3
  <2>4. CASE w # u
    <3>1. new \notin LiveCodes(w)'
      BY <1>6, <1>8, <2>4 DEF LiveCodes
    <3>2. LiveCodes(w)' \subseteq LiveCodes(w)
      BY <2>2, <3>1
    <3> QED
      BY <2>1, <3>2 DEF PhoneInv, IssuesRight
  <2> QED
    BY <2>3, <2>4
<1> QED
  BY <1>9, <1>12, <1>13, <1>14, <1>15 DEF PhoneInv

\* A wrong guess is counted.
LEMMA CountGuessKeeps ==
    ASSUME PhoneInv, NEW c \in Callers, CountGuess(c)
    PROVE  PhoneInv'
<1>1. /\ Calling(c, "count") /\ HangsUp(c)
      /\ UNCHANGED <<phoneOf, withdrawn, atOnce, returned>>
  BY DEF CountGuess
<1>2. caller[c] \in Call
  BY <1>1 DEF PhoneInv, PhoneRows, Calling, NotCalling
<1>3. PICK k \in caller[c].codes : code' = [code EXCEPT ![k].attempts = @ + 1]
  BY DEF CountGuess
<1>4. k \in Codes
  BY <1>2 DEF Call
<1>5. PICK row : row = [code[k] EXCEPT !.attempts = @ + 1]
  OBVIOUS
<1>6. code[k] \in [of : Accounts \cup {NoAccount}, live : BOOLEAN, expired : BOOLEAN, attempts : Nat]
  BY <1>4 DEF PhoneInv, PhoneRows
<1>7. /\ row \in [of : Accounts \cup {NoAccount}, live : BOOLEAN, expired : BOOLEAN, attempts : Nat]
      /\ row.of = code[k].of /\ row.live = code[k].live /\ row.attempts = code[k].attempts + 1
      /\ code[k].attempts \in Nat
  BY <1>5, <1>6
<1>8. code' = [code EXCEPT ![k] = row]
  BY <1>3, <1>5
<1>9. PhoneRows'
  BY <1>1, <1>4, <1>7, <1>8, HangsUpRows DEF PhoneInv, PhoneRows, Codes, Call
<1>10. code'[k] = row /\ \A l \in Codes \ {k} : code'[l] = code[l]
  BY <1>4, <1>8 DEF PhoneInv, PhoneRows
<1>11. caller'[c] = NotCalling /\ \A d \in Callers \ {c} : caller'[d] = caller[d]
  BY <1>1 DEF HangsUp, PhoneInv, PhoneRows
<1>12. CallsRight' /\ WithdrawnRight' /\ IssuesRight'
  <2>1. \A l \in Codes : code'[l].of = code[l].of /\ (code'[l].live => code[l].live)
    BY <1>7, <1>10
  <2>2. \A d \in Callers : caller'[d] = caller[d] \/ caller'[d] = NotCalling
    BY <1>11
  <2> QED
    BY <1>1, <2>1, <2>2, CallsKept
<1>13. GuessesRight'
  <2> SUFFICES ASSUME NEW l \in Codes
               PROVE  code'[l].attempts + Cardinality(Counting(l)') < MAX_ATTEMPTS + Cardinality(Callers)
    BY DEF GuessesRight, Codes
  <2>1. Counting(l)' \subseteq Counting(l) /\ c \notin Counting(l)'
    BY <1>11 DEF Counting, Calling, NotCalling
  <2>2. /\ Cardinality(Counting(l)) \in Nat /\ IsFiniteSet(Counting(l)) /\ Cardinality(Callers) \in Nat
        /\ Cardinality(Counting(l)') \in Nat /\ IsFiniteSet(Counting(l)')
        /\ Cardinality(Counting(l)') <= Cardinality(Counting(l))
    BY <2>1, CountingFinite, FS_Subset, FS_CardinalityType
  <2>3. code[l].attempts + Cardinality(Counting(l)) < MAX_ATTEMPTS + Cardinality(Callers)
        /\ code[l].attempts \in Nat
    BY DEF PhoneInv, GuessesRight, PhoneRows
  <2>4. CASE l # k
    <3>1. code'[l].attempts = code[l].attempts
      BY <1>10, <2>4
    <3> QED
      BY <2>2, <2>3, <3>1, PhonesAssumption
  <2>5. CASE l = k
    <3>1. c \in Counting(l)
      BY <1>1, <2>5 DEF Counting
    <3>2. Counting(l)' \cup {c} \subseteq Counting(l)
      BY <2>1, <3>1
    <3>3. Cardinality(Counting(l)' \cup {c}) = Cardinality(Counting(l)') + 1
      BY <2>1, <2>2, FS_AddElement
    <3>4. Cardinality(Counting(l)' \cup {c}) <= Cardinality(Counting(l))
      BY <2>2, <3>2, FS_Subset
    <3>5. code'[l].attempts = code[l].attempts + 1
      BY <1>7, <1>10, <2>5
    <3> QED
      BY <2>2, <2>3, <3>3, <3>4, <3>5, PhonesAssumption
  <2> QED
    BY <2>4, <2>5
<1> QED
  BY <1>9, <1>12, <1>13 DEF PhoneInv

\* A right guess spends its code and gives the account the number.
LEMMA ProveKeeps ==
    ASSUME PhoneInv, NEW c \in Callers, Prove(c)
    PROVE  PhoneInv'
<1>1. Calling(c, "prove") /\ HangsUp(c) /\ UNCHANGED <<withdrawn, atOnce>>
  BY DEF Prove
<1>2. caller[c] \in Call /\ caller[c] # NotCalling
  BY <1>1 DEF PhoneInv, PhoneRows, Calling, NotCalling
<1>3. CASE phoneOf \in {caller[c].of, NoAccount}
  <2>1. PICK spent : spent = caller[c].codes
    OBVIOUS
  <2>2. /\ code' = Spends(spent) /\ phoneOf' = caller[c].of
        /\ returned' = (returned \/ (~caller[c].late /\ spent \cap withdrawn # {}))
    BY <1>3, <2>1 DEF Prove
  <2>3. CallRight(caller[c])
    BY <1>2 DEF PhoneInv, CallsRight
  <2>4. returned' = FALSE
    BY <1>1, <2>1, <2>2, <2>3 DEF CallRight, Calling, PhoneInv, PhoneRows
  <2>5. PhoneRows'
    BY <1>1, <1>2, <2>2, <2>4, SpendsIs, HangsUpRows DEF PhoneInv, PhoneRows, Codes, Call
  <2>6. \A k \in Codes : /\ code'[k].of = code[k].of /\ (code'[k].live => code[k].live)
                         /\ code'[k].attempts = code[k].attempts
    BY <2>2, SpendsIs DEF PhoneInv
  <2> QED
    BY <1>1, <2>5, <2>6, DoneKeeps
<1>4. CASE phoneOf \notin {caller[c].of, NoAccount}
  <2>1. UNCHANGED <<code, phoneOf, returned>>
    BY <1>4 DEF Prove
  <2>2. PhoneRows'
    BY <1>1, <2>1, HangsUpRows DEF PhoneInv, PhoneRows, Codes, Call
  <2> QED
    BY <1>1, <2>1, <2>2, DoneKeeps
<1> QED
  BY <1>3, <1>4

\* Removing a number spends its codes.
LEMMA RemoveCommitsKeeps ==
    ASSUME PhoneInv, NEW c \in Callers, RemoveCommits(c)
    PROVE  PhoneInv'
<1>1. Calling(c, "remove") /\ UNCHANGED <<atOnce, returned>>
  BY DEF RemoveCommits
<1>2. caller[c] \in Call /\ caller[c] # NotCalling
  BY <1>1 DEF PhoneInv, PhoneRows, Calling, NotCalling
<1>3. PICK u \in Accounts, spent \in SUBSET Codes : u = caller[c].of /\ spent = caller[c].codes
  BY <1>2 DEF Call
<1> DEFINE next(d) == IF d = c THEN NotCalling
                      ELSE IF Calling(d, "prove") /\ caller[d].of = u
                      THEN [caller[d] EXCEPT !.late = TRUE] ELSE caller[d]
<1>4. /\ code' = Spends(spent)
      /\ phoneOf' = IF phoneOf = u THEN NoAccount ELSE phoneOf
      /\ withdrawn' = withdrawn \cup spent
      /\ caller' = [d \in Callers |-> next(d)]
  BY <1>3 DEF RemoveCommits
<1>5. \A d \in Callers : Calling(d, "prove") => caller[d] \in Call
  BY DEF PhoneInv, PhoneRows, Calling, NotCalling
<1>6. /\ caller'[c] = NotCalling
      /\ \A d \in Callers \ {c} : ~(Calling(d, "prove") /\ caller[d].of = u) => caller'[d] = caller[d]
  BY <1>4
<1>7. ASSUME NEW d \in Callers \ {c}, Calling(d, "prove"), caller[d].of = u
      PROVE  /\ caller'[d] \in Call /\ caller'[d].task = "prove" /\ caller'[d].late
             /\ caller'[d].codes = caller[d].codes /\ caller'[d].of = u
  <2>1. caller'[d] = [caller[d] EXCEPT !.late = TRUE]
    BY <1>4, <1>7
  <2>2. caller[d] \in Call /\ caller[d].task = "prove"
    BY <1>5, <1>7 DEF Calling
  <2> QED
    BY <1>7, <2>1, <2>2 DEF Call
<1>8. caller' \in [Callers -> Call \cup {NotCalling}]
  <2>1. \A d \in Callers : caller'[d] \in Call \cup {NotCalling}
    BY <1>6, <1>7 DEF PhoneInv, PhoneRows
  <2> HIDE DEF next
  <2> QED
    BY <1>4, <2>1
<1> HIDE DEF next
<1>9. PhoneRows'
  BY <1>1, <1>3, <1>4, <1>8, SpendsIs DEF PhoneInv, PhoneRows, Codes, Call
<1>10. \A k \in Codes : /\ code'[k].of = code[k].of /\ code'[k].attempts = code[k].attempts
                        /\ code'[k].live => code[k].live /\ k \notin spent
  BY <1>4, SpendsIs DEF PhoneInv
<1>11. GuessesRight'
  <2>1. \A k \in Codes : Counting(k)' \subseteq Counting(k)
    BY <1>6, <1>7 DEF Counting, Calling, NotCalling
  <2> QED
    BY <1>10, <2>1, GuessesKept
<1>12. CallRight(caller[c])
  BY <1>2 DEF PhoneInv, CallsRight
<1>13. WithdrawnRight'
  <2> SUFFICES ASSUME NEW k \in withdrawn' PROVE code'[k].of \in Accounts /\ ~code'[k].live
    BY DEF WithdrawnRight
  <2>1. CASE k \in spent
    BY <1>3, <1>10, <1>12, <2>1 DEF CallRight
  <2>2. CASE k \notin spent
    <3>1. k \in withdrawn /\ k \in Codes
      BY <1>4, <2>2 DEF PhoneInv, PhoneRows
    <3> QED
      BY <1>10, <3>1 DEF PhoneInv, WithdrawnRight
  <2> QED
    BY <2>1, <2>2
<1>14. CallsRight'
  <2> SUFFICES ASSUME NEW d \in Callers, caller'[d] # NotCalling PROVE CallRight(caller[d])'
    BY DEF CallsRight
  <2>1. d # c
    BY <1>6
  <2>2. caller[d] # NotCalling
    BY <1>6, <1>7, <2>1 DEF Calling, NotCalling
  <2>3. CallRight(caller[d]) /\ caller[d] \in Call
    BY <2>2, CallIs DEF PhoneInv, CallsRight
  <2>4. caller[d].codes \subseteq Codes
    BY <2>3 DEF Call
  <2>5. CASE Calling(d, "prove") /\ caller[d].of = u
    <3>1. caller'[d].late /\ caller'[d].codes = caller[d].codes /\ caller'[d].of = caller[d].of
      BY <1>7, <2>1, <2>5
    <3> QED
      BY <1>10, <2>3, <2>4, <3>1 DEF CallRight
  <2>6. CASE ~(Calling(d, "prove") /\ caller[d].of = u)
    <3>1. caller'[d] = caller[d]
      BY <1>6, <2>1, <2>6
    <3>2. caller[d].task = "prove" => caller[d].codes \cap spent = {}
      BY <1>3, <1>12, <2>3, <2>6 DEF CallRight, Calling
    <3> QED
      BY <1>4, <1>10, <2>3, <2>4, <3>1, <3>2 DEF CallRight
  <2> QED
    BY <2>5, <2>6
<1>15. IssuesRight'
  <2>1. \A w : LiveCodes(w)' \subseteq LiveCodes(w)
    BY <1>10 DEF LiveCodes, Codes
  <2>2. \A w : \A d \in Issuing(w)' : d \in Issuing(w) /\ caller'[d] = caller[d]
    BY <1>6, <1>7 DEF Issuing, Calling, NotCalling
  <2> QED
    BY <1>1, <2>1, <2>2 DEF PhoneInv, IssuesRight
<1> QED
  BY <1>9, <1>11, <1>13, <1>14, <1>15 DEF PhoneInv

\* A request that dies leaves what it had committed.
LEMMA CallDiesKeeps ==
    ASSUME PhoneInv, NEW c \in Callers, CallDies(c)
    PROVE  PhoneInv'
<1>1. HangsUp(c) /\ UNCHANGED <<code, phoneOf, withdrawn, atOnce, returned>>
  BY DEF CallDies
<1>2. PhoneRows'
  BY <1>1, HangsUpRows DEF PhoneInv, PhoneRows, Codes, Call
<1> QED
  BY <1>1, <1>2, DoneKeeps

\* Time, or nothing, passes.
LEMMA CodeExpiresKeeps ==
    ASSUME PhoneInv, (\E k \in Codes : CodeExpires(k)) \/ UNCHANGED phonesVars
    PROVE  PhoneInv'
<1>1. UNCHANGED <<phoneOf, caller, withdrawn, atOnce, returned>>
  BY DEF CodeExpires, phonesVars
<1>2. /\ code' \in [Codes -> [of : Accounts \cup {NoAccount}, live : BOOLEAN,
                             expired : BOOLEAN, attempts : Nat]]
      /\ \A l \in Codes : /\ code'[l].of = code[l].of /\ (code'[l].live => code[l].live)
                          /\ code'[l].attempts = code[l].attempts
  <2>1. ASSUME NEW k \in Codes, CodeExpires(k)
        PROVE  /\ code' \in [Codes -> [of : Accounts \cup {NoAccount}, live : BOOLEAN,
                                       expired : BOOLEAN, attempts : Nat]]
               /\ \A l \in Codes : /\ code'[l].of = code[l].of /\ (code'[l].live => code[l].live)
                                   /\ code'[l].attempts = code[l].attempts
    <3>1. PICK row : row = [code[k] EXCEPT !.expired = TRUE]
      OBVIOUS
    <3>2. code[k] \in [of : Accounts \cup {NoAccount}, live : BOOLEAN, expired : BOOLEAN, attempts : Nat]
      BY DEF PhoneInv, PhoneRows
    <3>3. /\ row \in [of : Accounts \cup {NoAccount}, live : BOOLEAN, expired : BOOLEAN, attempts : Nat]
          /\ row.of = code[k].of /\ row.live = code[k].live /\ row.attempts = code[k].attempts
      BY <3>1, <3>2
    <3>4. code' = [code EXCEPT ![k] = row]
      BY <2>1, <3>1 DEF CodeExpires
    <3> QED
      BY <3>3, <3>4 DEF PhoneInv, PhoneRows
  <2>2. CASE UNCHANGED phonesVars
    BY <2>2 DEF phonesVars, PhoneInv, PhoneRows
  <2> QED
    BY <2>1, <2>2
<1>3. PhoneRows'
  BY <1>1, <1>2 DEF PhoneInv, PhoneRows, Codes, Call
<1>4. CallsRight' /\ WithdrawnRight' /\ IssuesRight'
  BY <1>1, <1>2, CallsKept
<1>5. \A k \in Codes : Counting(k)' \subseteq Counting(k)
  BY <1>1 DEF Counting, Calling
<1>6. GuessesRight'
  BY <1>2, <1>5, GuessesKept
<1> QED
  BY <1>3, <1>4, <1>6 DEF PhoneInv

\* Every step keeps numbers and codes in order.
LEMMA PhoneStep == PhoneInv /\ [PhonesNext]_phonesVars => PhoneInv'
  BY IssueKeeps, GuessKeeps, RemoveKeeps, IssueCommitsKeeps, CountGuessKeeps, ProveKeeps,
     RemoveCommitsKeeps, CallDiesKeeps, CodeExpiresKeeps DEF PhonesNext

\* Wrong guesses stay within the limit and the requests under way, one code of
\* an account is live unless two were asked for at once, and a number that was
\* removed does not come back by an older code (smsVerification.ts).
THEOREM PhonesAreRight == PhonesSpec => []PhonesInv
<1>1. PhoneInv => PhonesInv
  <2> SUFFICES ASSUME PhoneInv PROVE PhonesInv
    OBVIOUS
  <2>1. GuessesBounded
    <3> SUFFICES ASSUME NEW k \in Codes
                 PROVE  code[k].attempts < MAX_ATTEMPTS + Cardinality(Callers)
      BY DEF GuessesBounded
    <3>1. code[k].attempts + Cardinality(Counting(k)) < MAX_ATTEMPTS + Cardinality(Callers)
          /\ code[k].attempts \in Nat
      BY DEF PhoneInv, GuessesRight, PhoneRows
    <3> QED
      BY <3>1, CountingFinite, PhonesAssumption
  <2>2. OneLiveCode
    <3> SUFFICES ASSUME NEW u \in Accounts, u \notin atOnce PROVE Cardinality(LiveCodes(u)) <= 1
      BY DEF OneLiveCode
    <3>1. CASE LiveCodes(u) = {}
      <4>1. Cardinality({}) = 0
        BY FS_EmptySet
      <4> QED
        BY <3>1, <4>1
    <3>2. CASE LiveCodes(u) # {}
      <4>1. PICK k \in LiveCodes(u) : LiveCodes(u) = {k}
        BY <3>2 DEF PhoneInv, IssuesRight
      <4>2. Cardinality({k}) = 1
        BY FS_Singleton
      <4> QED
        BY <4>1, <4>2
    <3> QED
      BY <3>1, <3>2
  <2> QED
    BY <2>1, <2>2 DEF PhoneInv, PhoneRows, PhonesInv, PhonesTypeOK, RemovedStaysAway
<1> QED
  BY PhoneStart, PhoneStep, <1>1, PTL DEF PhonesSpec

-----------------------------------------------------------------------------
(***************************************************************************)
(* Payouts: money leaves once and as the rows say, and the books of what   *)
(* was promised, taken back and is still owed balance.                     *)
(*                                                                         *)
(* What was read may be stale when it is used, so that the invariant says  *)
(* what each clerk and each clawback may still rely on: a debt that was    *)
(* read stays a debt of as much, a decision of the provider stands, and a  *)
(* line stays with its payout.  The sum of the books counts what clawbacks *)
(* have claimed and not yet brought back (Owing).                          *)
(***************************************************************************)

\* What a clerk is about to net fits into what it pays, and its answer is what
\* the provider decided.
ClerkFits(x) ==
    /\ x \in Clerk
    /\ x.task = "claim" => x.netting \subseteq DOMAIN debts /\ Tally(x.netting, Cents) <= Sum(x.lines)
    /\ x.task = "settle" => x.payout \in Payouts /\ transfer[x.payout].made = 1
    /\ x.task = "fail" => x.payout \in Payouts /\ transfer[x.payout].refused
ClerksRight == \A w \in Clerks : ClerkFits(clerk[w])

\* Payouts are made one after the other, and none comes back before.
MadeRight ==
    /\ \E n \in 0..MaxPayouts : Made = 1..n
    /\ \A p \in Payouts : payout[p].status = "NONE" => transfer[p].back = 0

TransfersRight ==
    \A p \in Payouts :
        /\ transfer[p].made <= 1
        /\ transfer[p].refused => transfer[p].made = 0
        /\ payout[p].status = "PAID" /\ payout[p].cents > 0 => transfer[p].made = 1
        /\ payout[p].status = "FAILED" => transfer[p].refused

ItemsRight ==
    \A l \in Lines : IF item[l].payout = NoPayout THEN ~item[l].reversed
                     ELSE item[l].payout \in Made

\* A line that was claimed was claimed by one of its refunds, which had settled.
RecallsRight ==
    /\ RecalledOnce
    /\ \A r \in recalled : /\ refund[r].status = "SUCCEEDED" /\ LineOf(r) \in Lines
                           /\ clawback[r].task \in {"reverse", "record", "done", "died"}
                           /\ item[LineOf(r)].reversed
    /\ \A l \in Lines : item[l].reversed => \E q \in recalled : LineOf(q) = l

\* A clawback is of a settled refund of a line that was paid out, and takes
\* back what it claimed.
ClawbackFits(r) ==
    /\ clawback[r].task # "none" => refund[r].status = "SUCCEEDED"
    /\ clawback[r].task \in {"find", "claim", "reverse", "record"} => LineOf(r) \in Lines
    /\ clawback[r].task \in {"claim", "reverse", "record"} => item[LineOf(r)].payout # NoPayout
    /\ clawback[r].task \in {"reverse", "record"} => item[LineOf(r)].reversed
    /\ clawback[r].task = "done" /\ LineOf(r) # NoLine =>
           \/ item[LineOf(r)].payout = NoPayout
           \/ item[LineOf(r)].reversed
           \/ LineOf(r) \in crossed
ClawbacksRight == \A r \in Refunds : ClawbackFits(r)

\* What a clawback still has to bring back, or to write down.
Owing == [r \in Refunds |->
    IF clawback[r].task = "reverse" THEN Target(r)
    ELSE IF clawback[r].task = "record" THEN clawback[r].short ELSE 0]
Died == {r \in Refunds : clawback[r].task = "died"}
Flawed == Died # {} \/ twice # {} \/ unheard # {} \/ forgiven # {}

BooksRight ==
    ~Flawed => Tally(Made, Promised) + Tally(recalled, Targets) =
                   Tally(Made, Back) + Tally(Open, Cents) + Tally(Refunds, Owing) + Sum(PaidOut)

PayInv ==
    /\ TypeOK
    /\ ClerksRight
    /\ MadeRight /\ TransfersRight
    /\ ItemsRight /\ RecallsRight /\ ClawbacksRight
    /\ BooksRight

-----------------------------------------------------------------------------
\* Rows that hold nothing add up to nothing.
LEMMA TallyNothing ==
    ASSUME NEW S, NEW n, \A x \in S : n[x] = 0
    PROVE  Tally(S, n) = 0
<1>1. Tokens(S, n) = {}
  BY DEF Tokens
<1> QED
  BY <1>1, FS_EmptySet DEF Tally

\* A row that changes changes the sum by as much.
LEMMA TallyChange ==
    ASSUME NEW S, IsFiniteSet(S), NEW x \in S, NEW m, NEW n,
           \A y \in S : m[y] \in Nat /\ n[y] \in Nat, \A y \in S \ {x} : m[y] = n[y]
    PROVE  Tally(S, m) \in Nat /\ Tally(S, n) \in Nat
           /\ Tally(S, n) + m[x] = Tally(S, m) + n[x]
<1> DEFINE T == S \ {x}
<1>1. IsFiniteSet(T) /\ IsFiniteSet({x}) /\ T \cap {x} = {} /\ T \cup {x} = S
  BY FS_Subset, FS_Singleton
<1>2. \A y \in T : m[y] \in Nat /\ n[y] \in Nat /\ m[y] = n[y]
  OBVIOUS
<1>3. m[x] \in Nat /\ n[x] \in Nat
  OBVIOUS
<1> HIDE DEF T
<1>4. IsFiniteSet(Tokens(T, m)) /\ IsFiniteSet(Tokens(T, n))
  BY <1>1, <1>2, TokensFiniteRows
<1>5. IsFiniteSet(Tokens({x}, m)) /\ IsFiniteSet(Tokens({x}, n))
  BY <1>1, <1>3, TokensFiniteRows
<1>6. /\ Tally(T, m) \in Nat /\ Tally(T, n) \in Nat
      /\ Tally(S, m) = Tally(T, m) + Tally({x}, m)
      /\ Tally(S, n) = Tally(T, n) + Tally({x}, n)
  BY <1>1, <1>4, <1>5, TallySplit
<1>7. Tally(T, m) = Tally(T, n)
  BY <1>2, TallySame
<1>8. Tally({x}, m) = m[x] /\ Tally({x}, n) = n[x]
  BY <1>3, TallyOne
<1> QED
  BY <1>3, <1>6, <1>7, <1>8

\* Two kinds of rows add up.
LEMMA TallyJoin ==
    ASSUME NEW S, NEW T, NEW n, IsFiniteSet(S), IsFiniteSet(T),
           \A x \in S \cup T : n[x] \in Nat, S \cap T = {}
    PROVE  /\ Tally(S, n) \in Nat /\ Tally(T, n) \in Nat
           /\ Tally(S \cup T, n) = Tally(S, n) + Tally(T, n)
<1>1. IsFiniteSet(Tokens(S, n))
  BY TokensFiniteRows
<1>2. IsFiniteSet(Tokens(T, n))
  BY TokensFiniteRows
<1>3. Tally(S, n) \in Nat /\ Tally(T, n) \in Nat
  BY <1>1, <1>2, TallyType
<1>4. Tally(S \cup T, n) = Tally(S, n) + Tally(T, n)
  BY <1>1, <1>2, TallySplit
<1> QED
  BY <1>3, <1>4

\* A sum over finitely many rows is a number.
LEMMA TallyNat ==
    ASSUME NEW S, IsFiniteSet(S), NEW n, \A x \in S : n[x] \in Nat
    PROVE  Tally(S, n) \in Nat
  BY TokensFiniteRows, TallyType

-----------------------------------------------------------------------------
\* Rows are finitely many, and what they hold are numbers.
LEMMA BooksType ==
    ASSUME TypeOK
    PROVE  /\ IsFiniteSet(Made) /\ IsFiniteSet(DOMAIN debts) /\ IsFiniteSet(Open)
           /\ \A p \in Payouts : Promised[p] \in Nat /\ Back[p] \in Nat
           /\ \A i \in DOMAIN debts : Cents[i] \in Nat
           /\ DOMAIN debts = 1..Len(debts) /\ Len(debts) \in Nat
<1>1. IsFiniteSet(Payouts)
  BY PayoutsAssumption, FS_Interval DEF Payouts
<1>2. DOMAIN debts = 1..Len(debts) /\ Len(debts) \in Nat
  BY DEF TypeOK
<1>3. IsFiniteSet(DOMAIN debts)
  BY <1>2, FS_Interval
<1>4. IsFiniteSet(Made) /\ IsFiniteSet(Open)
  BY <1>1, <1>3, FS_Subset DEF Made, Open
<1>5. \A p \in Payouts : Promised[p] \in Nat /\ Back[p] \in Nat
  BY DEF TypeOK, Promised, Back, Payout, Transfer
<1>6. \A i \in DOMAIN debts : Cents[i] \in Nat
  <2>1. \A i \in DOMAIN debts : debts[i] \in Debt
    BY <1>2 DEF TypeOK
  <2> QED
    BY <2>1 DEF Cents, Debt
<1> QED
  BY <1>2, <1>3, <1>4, <1>5, <1>6

\* So is what lines are worth.
LEMMA SumNat ==
    ASSUME NEW S \in SUBSET Lines
    PROVE  Sum(S) \in Nat
<1>1. IsFiniteSet(S) /\ \A l \in S : Price[l] \in Nat
  BY PayoutsAssumption, FS_Subset
<1> QED
  BY <1>1, TallyNat DEF Sum

\* What is taken back for a refund of a line is a number.
LEMMA TargetNat ==
    ASSUME TypeOK, NEW r \in Refunds, LineOf(r) \in Lines
    PROVE  Target(r) \in Nat
<1>1. refund[r].cents \in Nat
  BY DEF TypeOK, Refund
<1>2. Price[LineOf(r)] \in Nat
  BY PayoutsAssumption
<1> QED
  BY <1>1, <1>2 DEF Target, Least

\* So is the sum of what was taken back.
LEMMA RecallsNat ==
    ASSUME PayInv
    PROVE  /\ IsFiniteSet(recalled) /\ \A r \in recalled : Targets[r] \in Nat
           /\ Tally(recalled, Targets) \in Nat
<1>1. recalled \subseteq Refunds /\ IsFiniteSet(recalled)
  BY PayoutsAssumption, FS_Subset DEF PayInv, TypeOK
<1>2. ASSUME NEW r \in recalled PROVE Targets[r] \in Nat
  <2>1. LineOf(r) \in Lines /\ TypeOK /\ r \in Refunds
    BY <1>1 DEF PayInv, RecallsRight
  <2> QED
    BY <2>1, TargetNat DEF Targets
<1>3. Tally(recalled, Targets) \in Nat
  BY <1>1, <1>2, TallyNat
<1> QED
  BY <1>1, <1>2, <1>3

\* What was recalled stays what it was while the refunds it is of do not move.
LEMMA RecallsStay ==
    ASSUME PayInv, \A r \in recalled : refund'[r] = refund[r]
    PROVE  Tally(recalled, Targets') = Tally(recalled, Targets)
<1>1. recalled \subseteq Refunds
  BY DEF PayInv, TypeOK
<1>2. \A r \in recalled : Targets[r] = Targets'[r]
  BY <1>1 DEF Targets, Target, LineOf, Least
<1> QED
  BY <1>2, TallySame

\* The debts that fit into what is owed are not more than that.
LEMMA NettedFits ==
    ASSUME TypeOK, NEW gross \in Nat
    PROVE  Netted(gross) \subseteq DOMAIN debts /\ Tally(Netted(gross), Cents) <= gross
<1> DEFINE N == Netted(gross)
<1>1. N \subseteq Open /\ Open \subseteq DOMAIN debts
  BY DEF Netted, Open
<1>2. IsFiniteSet(N) /\ N \subseteq Nat /\ Open \subseteq Nat
  BY <1>1, BooksType, FS_Subset
<1>3. CASE N = {}
  <2>1. Tally(N, Cents) = 0
    BY <1>3, TallyEmpty
  <2> QED
    BY <1>1, <2>1
<1>4. CASE N # {}
  <2>1. PICK m \in N : \A n \in N : n <= m
    BY <1>2, <1>4, GreatestOf
  <2>2. PICK P : P = {j \in Open : j <= m}
    OBVIOUS
  <2>3. Tally(P, Cents) <= gross
    BY <2>1, <2>2 DEF Netted
  <2>4. N \subseteq P
    BY <1>1, <2>1, <2>2
  <2>5. IsFiniteSet(P) /\ \A i \in P : Cents[i] \in Nat
    BY <1>1, <2>2, BooksType, FS_Subset
  <2>6. IsFiniteSet(Tokens(P, Cents))
    BY <2>5, TokensFiniteRows
  <2>7. Tally(N, Cents) <= Tally(P, Cents)
    BY <2>4, <2>6, TallyMonotone
  <2>8. Tally(P, Cents) \in Nat /\ Tally(N, Cents) \in Nat
    BY <1>1, <1>2, <2>5, BooksType, TallyNat
  <2> HIDE DEF N
  <2>9. Tally(N, Cents) <= gross
    BY <2>3, <2>7, <2>8
  <2> QED
    BY <1>1, <2>9 DEF N
<1> QED
  BY <1>3, <1>4

\* A clerk that fits still does when debts are added to and transfers decided.
LEMMA FitsStill ==
    ASSUME NEW x, ClerkFits(x),
           DOMAIN debts \subseteq DOMAIN debts',
           \A i \in DOMAIN debts : debts'[i].cents = debts[i].cents,
           \A p \in Payouts : /\ transfer[p].made = 1 => transfer'[p].made = 1
                              /\ transfer[p].refused => transfer'[p].refused
    PROVE  ClerkFits(x)'
<1>1. ASSUME x.task = "claim"
      PROVE  x.netting \subseteq DOMAIN debts' /\ Tally(x.netting, Cents') <= Sum(x.lines)
  <2>1. x.netting \subseteq DOMAIN debts /\ Tally(x.netting, Cents) <= Sum(x.lines)
    BY <1>1 DEF ClerkFits
  <2>2. \A i \in x.netting : Cents[i] = Cents'[i]
    BY <2>1 DEF Cents
  <2>3. Tally(x.netting, Cents) = Tally(x.netting, Cents')
    BY <2>2, TallySame
  <2> QED
    BY <2>1, <2>3
<1>2. x \in Clerk' /\ Payouts' = Payouts
  BY DEF ClerkFits, Clerk, Payouts, NoPayout
<1>3. Sum(x.lines)' = Sum(x.lines)
  BY DEF Sum
<1> QED
  BY <1>1, <1>2, <1>3 DEF ClerkFits, Payouts

\* The books stay right while nothing they are kept of changes.
LEMMA BooksKept ==
    ASSUME PayInv, Flawed => Flawed', Made' = Made,
           \A p \in Payouts : payout'[p].cents = payout[p].cents /\ transfer'[p].back = transfer[p].back,
           UNCHANGED <<item, debts, recalled>>,
           \A r \in recalled : refund'[r] = refund[r],
           \A r \in Refunds : Owing'[r] = Owing[r]
    PROVE  BooksRight'
<1>1. Cents' = Cents /\ Open' = Open /\ PaidOut' = PaidOut
  BY DEF Cents, Open, PaidOut, NoPayout
<1>2. Sum(PaidOut)' = Sum(PaidOut)
  BY <1>1 DEF Sum
<1>3. Made \subseteq Payouts
  BY DEF Made
<1>4. (\A p \in Made : Promised[p] = Promised'[p]) /\ \A p \in Made : Back[p] = Back'[p]
  BY <1>3 DEF Promised, Back, Payouts
<1>5. Tally(Made, Promised) = Tally(Made, Promised')
  BY <1>4, TallySame
<1>6. Tally(Made, Back) = Tally(Made, Back')
  BY <1>4, TallySame
<1>7. Tally(Refunds, Owing') = Tally(Refunds, Owing)
  BY TallySame
<1>8. Tally(recalled', Targets') = Tally(recalled, Targets)
  BY RecallsStay
<1> QED
  BY <1>1, <1>2, <1>5, <1>6, <1>7, <1>8 DEF PayInv, BooksRight

\* What was recalled stays so while lines, refunds and clawbacks stand.
LEMMA RecallsKept ==
    ASSUME PayInv, recalled' = recalled,
           \A r \in recalled : /\ refund'[r] = refund[r]
                              /\ clawback'[r].task \in {"reverse", "record", "done", "died"},
           \A l \in Lines : item'[l].reversed <=> item[l].reversed
    PROVE  RecallsRight'
<1>1. \A r \in recalled : LineOf(r)' = LineOf(r)
  BY DEF LineOf
<1>2. RecalledOnce'
  BY <1>1 DEF PayInv, RecallsRight, RecalledOnce
<1>3. ASSUME NEW r \in recalled
      PROVE  /\ refund'[r].status = "SUCCEEDED" /\ LineOf(r)' \in Lines
             /\ item'[LineOf(r)'].reversed
  BY <1>1 DEF PayInv, RecallsRight
<1>4. ASSUME NEW l \in Lines, item'[l].reversed PROVE \E q \in recalled : LineOf(q)' = l
  BY <1>1, <1>4 DEF PayInv, RecallsRight
<1> QED
  BY <1>2, <1>3, <1>4 DEF RecallsRight

\* Before anything is paid, nothing is owed.
LEMMA PayStart == Init => PayInv
<1> SUFFICES ASSUME Init PROVE PayInv
  OBVIOUS
<1>1. /\ refund = [r \in Refunds |-> [status |-> "NONE", line |-> NoLine, cents |-> 0]]
      /\ payout = [p \in Payouts |-> [status |-> "NONE", cents |-> 0]]
      /\ item = [l \in Lines |-> [payout |-> NoPayout, reversed |-> FALSE]]
      /\ debts = <<>>
      /\ transfer = [p \in Payouts |-> [made |-> 0, refused |-> FALSE, back |-> 0]]
      /\ clerk = [w \in Clerks |-> Resting]
      /\ clawback = [r \in Refunds |-> [task |-> "none", short |-> 0]]
      /\ matured = {} /\ crossed = {} /\ twice = {} /\ unheard = {} /\ forgiven = {} /\ recalled = {}
  BY DEF Init
<1>2. Resting \in Clerk
  BY DEF Resting, Clerk
<1>3. TypeOK
  <2>1. refund \in [Refunds -> Refund]
    BY <1>1 DEF Refund
  <2>2. payout \in [Payouts -> Payout]
    BY <1>1 DEF Payout
  <2>3. item \in [Lines -> Item]
    BY <1>1 DEF Item
  <2>4. transfer \in [Payouts -> Transfer]
    BY <1>1 DEF Transfer
  <2>5. clawback \in [Refunds -> Clawback]
    BY <1>1 DEF Clawback
  <2>6. DOMAIN clerk = Clerks /\ \A w \in Clerks : clerk[w] \in Clerk
    BY <1>1, <1>2
  <2>7. debts \in Seq(Debt)
    BY <1>1
  <2> QED
    BY <1>1, <2>1, <2>2, <2>3, <2>4, <2>5, <2>6, <2>7 DEF TypeOK
<1>4. ClerksRight
  <2>1. ClerkFits(Resting)
    BY <1>2 DEF ClerkFits, Resting
  <2> QED
    BY <1>1, <2>1 DEF ClerksRight
<1>5. Made = {} /\ PaidOut = {} /\ Open = {}
  BY <1>1 DEF Made, PaidOut, Open, Payouts
<1>6. MadeRight
  <2>1. 1..0 = {} /\ 0 \in 0..MaxPayouts
    BY PayoutsAssumption
  <2>2. \A p \in Payouts : transfer[p].back = 0
    BY <1>1
  <2> QED
    BY <1>5, <2>1, <2>2 DEF MadeRight
<1>7. TransfersRight
  BY <1>1 DEF TransfersRight
<1>8. ItemsRight /\ RecallsRight /\ ClawbacksRight
  BY <1>1 DEF ItemsRight, RecallsRight, RecalledOnce, ClawbacksRight, ClawbackFits
<1>9. BooksRight
  <2>1. Tally(Made, Promised) = 0 /\ Tally(Made, Back) = 0 /\ Tally(Open, Cents) = 0 /\ Sum(PaidOut) = 0
    BY <1>5, TallyEmpty DEF Sum
  <2>2. \A r \in Refunds : Owing[r] = 0
    BY <1>1 DEF Owing
  <2>3. Tally(Refunds, Owing) = 0
    BY <2>2, TallyNothing
  <2>4. Tally(recalled, Targets) = 0
    BY <1>1, TallyEmpty
  <2> QED
    BY <2>1, <2>3, <2>4 DEF BooksRight
<1> QED
  BY <1>3, <1>4, <1>6, <1>7, <1>8, <1>9 DEF PayInv

-----------------------------------------------------------------------------
\* One clerk moves, and the others still fit.
LEMMA ClerksAfter ==
    ASSUME PayInv, NEW w \in Clerks, NEW x, clerk' = [clerk EXCEPT ![w] = x], ClerkFits(x)',
           DOMAIN debts \subseteq DOMAIN debts',
           \A i \in DOMAIN debts : debts'[i].cents = debts[i].cents,
           \A p \in Payouts : /\ transfer[p].made = 1 => transfer'[p].made = 1
                              /\ transfer[p].refused => transfer'[p].refused
    PROVE  ClerksRight' /\ DOMAIN clerk' = Clerks /\ \A v \in Clerks : clerk'[v] \in Clerk
<1>1. DOMAIN clerk = Clerks
  BY DEF PayInv, TypeOK
<1>2. DOMAIN clerk' = Clerks /\ clerk'[w] = x /\ \A v \in Clerks \ {w} : clerk'[v] = clerk[v]
  BY <1>1
<1>3. ASSUME NEW v \in Clerks PROVE ClerkFits(clerk[v])' /\ clerk'[v] \in Clerk
  <2>1. CASE v = w
    <3>1. x \in Clerk
      BY DEF ClerkFits, Clerk, Payouts, NoPayout
    <3> QED
      BY <1>2, <2>1, <3>1 DEF ClerkFits
  <2>2. CASE v # w
    <3>1. PICK y : y = clerk[v]
      OBVIOUS
    <3>2. ClerkFits(y)
      BY <3>1 DEF PayInv, ClerksRight
    <3>3. ClerkFits(y)' /\ y \in Clerk
      BY <3>2, FitsStill DEF ClerkFits
    <3> QED
      BY <1>2, <2>2, <3>1, <3>3 DEF ClerkFits
  <2> QED
    BY <2>1, <2>2
<1> QED
  BY <1>2, <1>3 DEF ClerksRight

\* Clerks that do not move still fit as well.
LEMMA ClerksStay ==
    ASSUME PayInv, clerk' = clerk,
           DOMAIN debts \subseteq DOMAIN debts',
           \A i \in DOMAIN debts : debts'[i].cents = debts[i].cents,
           \A p \in Payouts : /\ transfer[p].made = 1 => transfer'[p].made = 1
                              /\ transfer[p].refused => transfer'[p].refused
    PROVE  ClerksRight' /\ DOMAIN clerk' = Clerks /\ \A v \in Clerks : clerk'[v] \in Clerk
<1>1. ASSUME NEW v \in Clerks PROVE ClerkFits(clerk[v])'
  <2>1. PICK y : y = clerk[v]
    OBVIOUS
  <2>2. ClerkFits(y)
    BY <2>1 DEF PayInv, ClerksRight
  <2>3. ClerkFits(y)'
    BY <2>2, FitsStill
  <2> QED
    BY <2>1, <2>3 DEF ClerkFits
<1> QED
  BY <1>1 DEF ClerksRight, PayInv, TypeOK

\* A decision stands.
TransferStands ==
    /\ transfer' \in [Payouts -> Transfer]
    /\ \A p \in Payouts :
        /\ transfer'[p].back = transfer[p].back
        /\ transfer[p].made = 1 => transfer'[p].made = 1
        /\ transfer[p].refused => transfer'[p].refused
        /\ transfer'[p].made <= 1
        /\ transfer'[p].refused => transfer'[p].made = 0

\* A clerk's turn that changes no row.
LEMMA ClerkTurns ==
    ASSUME PayInv, NEW w \in Clerks, NEW x, clerk' = [clerk EXCEPT ![w] = x], ClerkFits(x)',
           UNCHANGED <<rows, clawback, histories>>, TransferStands
    PROVE  PayInv'
<1>1. UNCHANGED <<matured, refund, payout, item, debts, clawback, crossed, twice, unheard, forgiven, recalled>>
  BY DEF rows, histories
<1>2. ClerksRight' /\ DOMAIN clerk' = Clerks /\ \A v \in Clerks : clerk'[v] \in Clerk
  BY <1>1, ClerksAfter DEF TransferStands
<1>3. TypeOK'
  BY <1>1, <1>2 DEF PayInv, TypeOK, TransferStands, Refund, Payout, Item, Debt, Transfer, Clerk,
     Clawback, Payouts, NoPayout
<1>4. Made' = Made
  BY <1>1 DEF Made, Payouts
<1>5. MadeRight' /\ ItemsRight'
  BY <1>1, <1>4 DEF PayInv, MadeRight, ItemsRight, TransferStands, Payouts, NoPayout
<1>9. RecallsRight'
  <2>1. \A r \in recalled : clawback'[r].task \in {"reverse", "record", "done", "died"}
    BY <1>1 DEF PayInv, RecallsRight
  <2> QED
    BY <1>1, <2>1, RecallsKept
<1>6. TransfersRight'
  BY <1>1 DEF PayInv, TransfersRight, TransferStands, Payouts
<1>7. ClawbacksRight'
  BY <1>1 DEF PayInv, ClawbacksRight, ClawbackFits, LineOf, NoPayout
<1>8. BooksRight'
  <2>1. Flawed' = Flawed
    BY <1>1 DEF Flawed, Died
  <2>2. \A r \in Refunds : Owing'[r] = Owing[r]
    BY <1>1 DEF Owing, LineOf, Target, Least
  <2> QED
    BY <1>1, <1>4, <2>1, <2>2, BooksKept DEF TransferStands
<1> QED
  BY <1>2, <1>3, <1>5, <1>6, <1>7, <1>8, <1>9 DEF PayInv

\* Nothing was decided.
LEMMA NothingDecided ==
    ASSUME PayInv, transfer' = transfer
    PROVE  TransferStands
  BY DEF PayInv, TypeOK, TransfersRight, TransferStands

\* Resting, and doing what needs nothing.
LEMMA RestingFits ==
    ASSUME NEW x \in Clerk, x.task \notin {"claim", "settle", "fail"}
    PROVE  ClerkFits(x)'
<1>1. x \in Clerk'
  BY DEF Clerk, Payouts, NoPayout
<1> QED
  BY <1>1 DEF ClerkFits

\* A clerk with nothing to do is a clerk.
LEMMA RestingIs == Resting \in Clerk /\ Resting.task = "idle"
  BY DEF Resting, Clerk

\* What a clerk is when only its task changes.
LEMMA TaskOnly ==
    ASSUME NEW y \in Clerk,
           NEW task \in {"idle", "debts", "claim", "send", "transfer", "settle", "fail"}
    PROVE  /\ [y EXCEPT !.task = task] \in Clerk
           /\ [y EXCEPT !.task = task].task = task
           /\ [y EXCEPT !.task = task].payout = y.payout
  BY DEF Clerk

\* Reading what is payable promises nothing.
LEMMA ReadPayableKeeps ==
    ASSUME PayInv, NEW w \in Clerks, ReadPayable(w)
    PROVE  PayInv'
<1>1. PICK x : x = [clerk[w] EXCEPT !.task = "debts", !.lines = Payable]
  OBVIOUS
<1>2. clerk' = [clerk EXCEPT ![w] = x] /\ UNCHANGED <<rows, transfer, clawback, histories>>
  BY <1>1 DEF ReadPayable, PayInv, TypeOK
<1>3. x \in Clerk /\ x.task = "debts"
  <2>1. clerk[w] \in Clerk /\ Payable \subseteq Lines
    BY DEF PayInv, TypeOK, Payable
  <2> QED
    BY <1>1, <2>1 DEF Clerk
<1> QED
  BY <1>2, <1>3, RestingFits, NothingDecided, ClerkTurns

\* What a clerk nets is what fitted when it read the debts, and no later step
\* makes a debt it read larger.
LEMMA ReadDebtsKeeps ==
    ASSUME PayInv, NEW w \in Clerks, ReadDebts(w)
    PROVE  PayInv'
<1>1. PICK gross : gross = Sum(clerk[w].lines)
  OBVIOUS
<1>2. clerk[w] \in Clerk
  BY DEF PayInv, TypeOK
<1>3. gross \in Nat
  BY <1>1, <1>2, SumNat DEF Clerk
<1>4. PICK netting : netting = Netted(gross)
  OBVIOUS
<1>5. netting \subseteq DOMAIN debts /\ Tally(netting, Cents) <= gross /\ netting \subseteq Nat
  BY <1>3, <1>4, NettedFits, BooksType DEF PayInv
<1>6. PICK x : x = [clerk[w] EXCEPT !.task = "claim", !.netting = netting]
  OBVIOUS
<1>7. clerk' = [clerk EXCEPT ![w] = x] /\ UNCHANGED <<rows, transfer, clawback, histories>>
  BY <1>1, <1>4, <1>6 DEF ReadDebts, PayInv, TypeOK
<1>8. x \in Clerk /\ x.task = "claim" /\ x.netting = netting /\ x.lines = clerk[w].lines
  BY <1>2, <1>5, <1>6 DEF Clerk
<1>9. ClerkFits(x)
  BY <1>1, <1>5, <1>8 DEF ClerkFits
<1>10. ClerkFits(x)'
  BY <1>7, <1>9, FitsStill DEF rows
<1> QED
  BY <1>7, <1>10, NothingDecided, ClerkTurns

\* The sweep takes up a payout that is still pending.
LEMMA SweepKeeps ==
    ASSUME PayInv, NEW w \in Clerks, NEW p \in Payouts, Sweep(w, p)
    PROVE  PayInv'
<1>1. PICK x : x = [clerk[w] EXCEPT !.task = "send", !.payout = p]
  OBVIOUS
<1>2. clerk' = [clerk EXCEPT ![w] = x] /\ UNCHANGED <<rows, transfer, clawback, histories>>
  BY <1>1 DEF Sweep, PayInv, TypeOK
<1>3. x \in Clerk /\ x.task = "send"
  <2>1. clerk[w] \in Clerk
    BY DEF PayInv, TypeOK
  <2> QED
    BY <1>1, <2>1 DEF Clerk
<1> QED
  BY <1>2, <1>3, RestingFits, NothingDecided, ClerkTurns

\* A clerk goes to the provider, or finds the payout decided.
LEMMA SendKeeps ==
    ASSUME PayInv, NEW w \in Clerks, NEW p \in Payouts, Send(w, p)
    PROVE  PayInv'
<1>1. UNCHANGED <<rows, transfer, clawback, histories>>
  BY DEF Send
<1>2. clerk[w] \in Clerk
  BY DEF PayInv, TypeOK
<1>3. CASE Does(w, "transfer")
  <2>1. PICK x : x = [clerk[w] EXCEPT !.task = "transfer"]
    OBVIOUS
  <2>2. clerk' = [clerk EXCEPT ![w] = x]
    BY <1>3, <2>1 DEF Does, PayInv, TypeOK
  <2>3. x \in Clerk /\ x.task = "transfer"
    BY <1>2, <2>1, TaskOnly
  <2> QED
    BY <1>1, <2>2, <2>3, RestingFits, NothingDecided, ClerkTurns
<1>4. CASE Rests(w)
  BY <1>1, <1>4, RestingIs, RestingFits, NothingDecided, ClerkTurns DEF Rests
<1> QED
  BY <1>3, <1>4 DEF Send

\* A clerk that dies leaves its rows as they are.
LEMMA ClerkDiesKeeps ==
    ASSUME PayInv, NEW w \in Clerks, ClerkDies(w)
    PROVE  PayInv'
  BY RestingIs, RestingFits, NothingDecided, ClerkTurns DEF ClerkDies, Rests

\* The provider decides once.
LEMMA DecidesOnce ==
    ASSUME PayInv, NEW p \in Payouts, Decides(p)
    PROVE  TransferStands /\ (transfer'[p].refused \/ transfer'[p].made = 1)
<1>1. transfer \in [Payouts -> Transfer] /\ transfer[p] \in Transfer
  BY DEF PayInv, TypeOK
<1>2. CASE ~KeyUnused(p)
  <2>1. transfer' = transfer
    BY <1>2 DEF Decides
  <2>2. transfer[p].refused \/ transfer[p].made = 1
    BY <1>1, <1>2 DEF KeyUnused, PayInv, TransfersRight, Transfer
  <2> QED
    BY <2>1, <2>2, NothingDecided
<1>3. CASE KeyUnused(p)
  <2>1. transfer[p].made = 0 /\ ~transfer[p].refused
    BY <1>3 DEF KeyUnused
  <2>2. PICK t \in Transfer :
          /\ transfer' = [transfer EXCEPT ![p] = t]
          /\ t.back = transfer[p].back
          /\ (t.made = 1 /\ ~t.refused) \/ (t.made = 0 /\ t.refused)
    <3>1. CASE transfer' = [transfer EXCEPT ![p].made = @ + 1]
      <4>1. PICK t : t = [transfer[p] EXCEPT !.made = @ + 1]
        OBVIOUS
      <4>2. t \in Transfer /\ t.back = transfer[p].back /\ t.made = 1 /\ t.refused = transfer[p].refused
        BY <1>1, <2>1, <4>1 DEF Transfer
      <4>3. transfer' = [transfer EXCEPT ![p] = t]
        BY <3>1, <4>1
      <4> QED
        BY <2>1, <4>2, <4>3
    <3>2. CASE transfer' = [transfer EXCEPT ![p].refused = TRUE]
      <4>1. PICK t : t = [transfer[p] EXCEPT !.refused = TRUE]
        OBVIOUS
      <4>2. t \in Transfer /\ t.back = transfer[p].back /\ t.made = transfer[p].made /\ t.refused
        BY <1>1, <4>1 DEF Transfer
      <4>3. transfer' = [transfer EXCEPT ![p] = t]
        BY <3>2, <4>1
      <4> QED
        BY <2>1, <4>2, <4>3
    <3> QED
      BY <1>3, <3>1, <3>2 DEF Decides
  <2>3. transfer'[p] = t /\ \A q \in Payouts \ {p} : transfer'[q] = transfer[q]
    BY <1>1, <2>2
  <2>4. transfer' \in [Payouts -> Transfer]
    BY <1>1, <2>2
  <2>5. ASSUME NEW q \in Payouts
        PROVE  /\ transfer'[q].back = transfer[q].back
               /\ transfer[q].made = 1 => transfer'[q].made = 1
               /\ transfer[q].refused => transfer'[q].refused
               /\ transfer'[q].made <= 1
               /\ transfer'[q].refused => transfer'[q].made = 0
    <3>1. CASE q = p
      BY <2>1, <2>2, <2>3, <3>1
    <3>2. CASE q # p
      BY <2>3, <3>2 DEF PayInv, TransfersRight
    <3> QED
      BY <3>1, <3>2
  <2> QED
    BY <2>2, <2>3, <2>4, <2>5 DEF TransferStands
<1> QED
  BY <1>2, <1>3

\* The answer a clerk takes away is what the provider decided.
LEMMA AnsweredKeeps ==
    ASSUME PayInv, NEW w \in Clerks, NEW p \in Payouts, Answered(w, p)
    PROVE  PayInv'
<1>1. clerk[w].payout = p /\ Decides(p) /\ UNCHANGED <<rows, clawback, histories>>
  BY DEF Answered
<1>2. TransferStands /\ (transfer'[p].refused \/ transfer'[p].made = 1)
  BY <1>1, DecidesOnce
<1>3. PICK task \in {"fail", "settle"} :
        /\ task = "fail" <=> transfer'[p].refused
        /\ Does(w, task)
  BY DEF Answered
<1>4. PICK x : x = [clerk[w] EXCEPT !.task = task]
  OBVIOUS
<1>5. clerk[w] \in Clerk
  BY DEF PayInv, TypeOK
<1>6. x \in Clerk /\ x.task = task /\ x.payout = p
  <2>1. x \in Clerk /\ x.task = task /\ x.payout = clerk[w].payout
    BY <1>4, <1>5 DEF Clerk
  <2> QED
    BY <1>1, <2>1
<1>7. clerk' = [clerk EXCEPT ![w] = x]
  BY <1>3, <1>4 DEF Does, PayInv, TypeOK
<1>8. ClerkFits(x)'
  <2>1. x \in Clerk' /\ p \in Payouts'
    BY <1>6 DEF Clerk, Payouts, NoPayout
  <2> QED
    BY <1>2, <1>3, <1>6, <2>1 DEF ClerkFits
<1> QED
  BY <1>1, <1>2, <1>7, <1>8, ClerkTurns

\* A lost answer leaves the decision with the provider.
LEMMA UnansweredKeeps ==
    ASSUME PayInv, NEW w \in Clerks, NEW p \in Payouts, Unanswered(w, p)
    PROVE  PayInv'
<1>1. Rests(w) /\ UNCHANGED <<rows, clawback, histories>>
  BY DEF Unanswered
<1>2. TransferStands
  BY DecidesOnce, NothingDecided DEF Unanswered
<1> QED
  BY <1>1, <1>2, RestingIs, RestingFits, ClerkTurns DEF Rests

\* The row is settled as the provider decided, or was settled before.
LEMMA SettleKeeps ==
    ASSUME PayInv, NEW w \in Clerks, NEW p \in Payouts, Settle(w, p)
    PROVE  PayInv'
<1>1. /\ clerk[w].task \in {"settle", "fail"} /\ clerk[w].payout = p /\ Rests(w)
      /\ UNCHANGED <<matured, refund, item, debts, transfer, clawback, crossed, twice, unheard, forgiven, recalled>>
  BY DEF Settle, histories
<1>2. CASE payout' = payout
  BY <1>1, <1>2, RestingIs, RestingFits, NothingDecided, ClerkTurns DEF Rests, rows, histories
<1>3. CASE payout' # payout
  <2>1. PICK status \in {"PAID", "FAILED"} :
          /\ status = IF clerk[w].task = "settle" THEN "PAID" ELSE "FAILED"
          /\ payout[p].status = "PENDING"
          /\ payout' = [payout EXCEPT ![p].status = status]
    BY <1>1, <1>3 DEF Settle
  <2>2. PICK row : row = [payout[p] EXCEPT !.status = status]
    OBVIOUS
  <2>3. payout \in [Payouts -> Payout] /\ payout[p] \in Payout
    BY DEF PayInv, TypeOK
  <2>4. row \in Payout /\ row.status = status /\ row.cents = payout[p].cents
    BY <2>2, <2>3 DEF Payout
  <2>5. payout' \in [Payouts -> Payout] /\ payout'[p] = row
        /\ \A q \in Payouts \ {p} : payout'[q] = payout[q]
    BY <2>1, <2>2, <2>3, <2>4
  <2>6. ClerksRight' /\ DOMAIN clerk' = Clerks /\ \A v \in Clerks : clerk'[v] \in Clerk
    BY <1>1, RestingIs, RestingFits, ClerksAfter DEF Rests
  <2>7. TypeOK'
    BY <1>1, <2>5, <2>6 DEF PayInv, TypeOK, Refund, Payout, Item, Debt, Transfer, Clerk,
       Clawback, Payouts, NoPayout
  <2>8. Made' = Made
    BY <2>1, <2>4, <2>5 DEF Made, Payouts
  <2>9. MadeRight'
    BY <1>1, <2>1, <2>4, <2>5, <2>8 DEF PayInv, MadeRight, Payouts
  <2>10. ItemsRight' /\ ClawbacksRight'
    BY <1>1, <2>8 DEF PayInv, ItemsRight, ClawbacksRight, ClawbackFits, LineOf, NoPayout
  <2>13. RecallsRight'
    <3>1. \A r \in recalled : clawback'[r].task \in {"reverse", "record", "done", "died"}
      BY <1>1 DEF PayInv, RecallsRight
    <3> QED
      BY <1>1, <3>1, RecallsKept
  <2>11. TransfersRight'
    <3>1. IF status = "PAID" THEN transfer[p].made = 1 ELSE transfer[p].refused
      BY <1>1, <2>1 DEF PayInv, ClerksRight, ClerkFits
    <3> QED
      BY <1>1, <2>1, <2>4, <2>5, <3>1 DEF PayInv, TransfersRight, Payouts
  <2>12. BooksRight'
    <3>1. Flawed' = Flawed
      BY <1>1 DEF Flawed, Died
    <3>2. \A r \in Refunds : Owing'[r] = Owing[r]
      BY <1>1 DEF Owing, LineOf, Target, Least
    <3>3. \A q \in Payouts : payout'[q].cents = payout[q].cents /\ transfer'[q].back = transfer[q].back
      BY <1>1, <2>4, <2>5
    <3> QED
      BY <1>1, <2>8, <3>1, <3>2, <3>3, BooksKept
  <2> QED
    BY <2>6, <2>7, <2>9, <2>10, <2>11, <2>12, <2>13 DEF PayInv
<1> QED
  BY <1>2, <1>3

-----------------------------------------------------------------------------
\* The payout that is made next is not there yet.
LEMMA NextIsNew ==
    ASSUME PayInv, NextPayout \in Payouts
    PROVE  /\ NextPayout \notin Made
           /\ payout[NextPayout].status = "NONE"
           /\ \E n \in 0..MaxPayouts : Made \cup {NextPayout} = 1..n
<1>1. PICK n \in 0..MaxPayouts : Made = 1..n
  BY DEF PayInv, MadeRight
<1>2. Cardinality(1..n) = n /\ MaxPayouts \in Nat
  <2>1. n \in Nat /\ MaxPayouts \in Nat
    BY PayoutsAssumption
  <2> QED
    BY <2>1, FS_Interval
<1>3. NextPayout = n + 1
  BY <1>1, <1>2 DEF NextPayout
<1>4. n + 1 \in 0..MaxPayouts /\ Made \cup {n + 1} = 1..n + 1 /\ n + 1 \notin Made
  BY <1>1, <1>2, <1>3 DEF Payouts
<1> QED
  BY <1>3, <1>4 DEF Made

\* A payout is made for the lines a clerk found, less the debts it nets.
LEMMA ClaimBooks ==
    ASSUME PayInv, NEW lines \in SUBSET Lines, NEW netting \in SUBSET DOMAIN debts,
           NEW remaining \in Nat, remaining = Sum(lines) - Tally(netting, Cents),
           NEW p \in Payouts \ Made, transfer[p].back = 0,
           Insertable(lines),
           Made' = Made \cup {p}, payout'[p].cents = remaining,
           \A q \in Made : payout'[q].cents = payout[q].cents,
           transfer' = transfer, clawback' = clawback, refund' = refund, recalled' = recalled,
           \A l \in Lines : /\ item'[l].reversed = item[l].reversed
                            /\ item'[l].payout = IF l \in lines THEN p ELSE item[l].payout,
           DOMAIN debts' = DOMAIN debts,
           \A i \in DOMAIN debts : /\ debts'[i].cents = debts[i].cents
                                   /\ debts'[i].settled <=> debts[i].settled \/ i \in netting,
           Flawed => Flawed', ~Flawed' => netting \subseteq Open
    PROVE  BooksRight'
<1> SUFFICES ASSUME ~Flawed'
             PROVE  Tally(Made', Promised') + Tally(recalled', Targets') =
                        Tally(Made', Back') + Tally(Open', Cents') + Tally(Refunds, Owing') + Sum(PaidOut')
  BY DEF BooksRight, Sum
<1>1. TypeOK /\ Made \subseteq Payouts /\ IsFiniteSet(Made) /\ IsFiniteSet(Open) /\ Open \subseteq DOMAIN debts
  BY BooksType DEF PayInv, Made, Open
<1>2. Tally(Made, Promised) + Tally(recalled, Targets) =
          Tally(Made, Back) + Tally(Open, Cents) + Tally(Refunds, Owing) + Sum(PaidOut)
  BY DEF PayInv, BooksRight
<1>3. IsFiniteSet({p}) /\ Made \cap {p} = {}
  BY FS_Singleton
<1>4. Tally(Made', Promised') = Tally(Made, Promised) + remaining /\ Tally(Made, Promised) \in Nat
  <2>1. (\A q \in Made : Promised'[q] = Promised[q]) /\ Promised'[p] = remaining
    BY <1>1 DEF Promised, Payouts
  <2>2. \A q \in Made : Promised[q] \in Nat
    BY <1>1, BooksType
  <2>3. \A q \in Made \cup {p} : Promised'[q] \in Nat
    BY <2>1, <2>2
  <2>4. PICK promised : promised = Promised'
    OBVIOUS
  <2>9. \A q \in Made \cup {p} : promised[q] \in Nat
    BY <2>3, <2>4
  <2>10. IsFiniteSet(Made) /\ IsFiniteSet({p})
    BY <1>1, <1>3
  <2>5. Tally(Made \cup {p}, promised) = Tally(Made, promised) + Tally({p}, promised)
    BY ONLY <1>3, <2>9, <2>10, TallyJoin
  <2>6. Tally(Made, promised) = Tally(Made, Promised)
    BY <2>1, <2>4, TallySame
  <2>7. Tally({p}, promised) = remaining
    BY <2>1, <2>4, TallyOne
  <2>8. Tally(Made, Promised) \in Nat
    BY <1>1, <2>2, TallyNat
  <2> QED
    BY <2>4, <2>5, <2>6, <2>7, <2>8
<1>5. Tally(Made', Back') = Tally(Made, Back) /\ Tally(Made, Back) \in Nat
  <2>1. Back' = Back /\ Back[p] = 0
    BY DEF Back, Payouts
  <2>2. \A q \in Made \cup {p} : Back[q] \in Nat
    BY <1>1, BooksType
  <2>5. IsFiniteSet(Made) /\ IsFiniteSet({p})
    BY <1>1, <1>3
  <2>3. Tally(Made \cup {p}, Back) = Tally(Made, Back) + Tally({p}, Back)
    BY ONLY <1>3, <2>2, <2>5, TallyJoin
  <2>7. Tally(Made, Back) \in Nat
    BY <2>2, <2>5, TallyNat
  <2>6. Back[p] = 0 /\ Back[p] \in Nat
    BY <2>1
  <2>4. Tally({p}, Back) = 0
    BY ONLY <2>6, TallyOne
  <2> QED
    BY <2>1, <2>3, <2>4, <2>7
<1>6. Tally(Open, Cents) = Tally(Open', Cents') + Tally(netting, Cents)
      /\ Tally(Open', Cents') \in Nat /\ Tally(netting, Cents) \in Nat
  <2>1. PICK rest : rest = Open \ netting
    OBVIOUS
  <2>2. Open' = rest
    BY <2>1 DEF Open
  <2>3. rest \cup netting = Open /\ rest \cap netting = {} /\ netting \subseteq Open
    BY <2>1
  <2>4. IsFiniteSet(rest) /\ IsFiniteSet(netting)
    BY <1>1, <2>3, FS_Subset
  <2>5. \A i \in rest \cup netting : Cents[i] \in Nat
    BY <1>1, <2>3, BooksType
  <2>6. Tally(rest \cup netting, Cents) = Tally(rest, Cents) + Tally(netting, Cents)
    BY ONLY <2>3, <2>4, <2>5, TallyJoin
  <2>9. Tally(rest, Cents) \in Nat /\ Tally(netting, Cents) \in Nat
    BY <2>4, <2>5, TallyNat
  <2>7. \A i \in rest : Cents'[i] = Cents[i]
    BY <1>1, <2>3 DEF Cents
  <2>8. Tally(rest, Cents') = Tally(rest, Cents)
    BY <2>7, TallySame
  <2> QED
    BY <2>2, <2>3, <2>6, <2>8, <2>9
<1>7. Sum(PaidOut') = Sum(PaidOut) + Sum(lines) /\ Sum(PaidOut) \in Nat /\ Sum(lines) \in Nat
  <2>1. PICK kept : kept = PaidOut
    OBVIOUS
  <2>2. kept \subseteq Lines /\ kept \cap lines = {}
    BY <2>1 DEF PaidOut, Insertable
  <2>3. PaidOut' = kept \cup lines
    <3>1. p # NoPayout
      BY PayoutsAssumption DEF Payouts, NoPayout
    <3> QED
      BY <2>1, <2>2, <3>1 DEF PaidOut, NoPayout
  <2>4. IsFiniteSet(kept) /\ IsFiniteSet(lines)
    BY <2>2, PayoutsAssumption, FS_Subset
  <2>5. \A l \in kept \cup lines : Price[l] \in Nat
    BY <2>2, PayoutsAssumption
  <2>6. Tally(kept \cup lines, Price) = Tally(kept, Price) + Tally(lines, Price)
    BY ONLY <2>2, <2>4, <2>5, TallyJoin
  <2>7. Tally(kept, Price) \in Nat /\ Tally(lines, Price) \in Nat
    BY <2>4, <2>5, TallyNat
  <2> QED
    BY <2>1, <2>3, <2>6, <2>7 DEF Sum
<1>8. Tally(Refunds, Owing') = Tally(Refunds, Owing)
  <2>1. Owing' = Owing
    BY DEF Owing, LineOf, Target, Least
  <2> QED
    BY <2>1
<1>9. Tally(Refunds, Owing) \in Nat
  <2>1. \A r \in Refunds : Owing[r] \in Nat
    <3> SUFFICES ASSUME NEW r \in Refunds PROVE Owing[r] \in Nat
      OBVIOUS
    <3>1. clawback[r].short \in Nat
      BY DEF PayInv, TypeOK, Clawback
    <3>2. clawback[r].task = "reverse" => Target(r) \in Nat
      BY TargetNat DEF PayInv, ClawbacksRight, ClawbackFits
    <3> QED
      BY <3>1, <3>2 DEF Owing
  <2> QED
    BY <2>1, PayoutsAssumption, TallyNat
<1>12. Tally(recalled', Targets') = Tally(recalled, Targets) /\ Tally(recalled, Targets) \in Nat
  BY RecallsStay, RecallsNat
<1> DEFINE a == Tally(Made, Promised)
           k == Tally(recalled, Targets)
           b == Tally(Made, Back)
           c == Tally(Open, Cents)
           d == Tally(Open', Cents')
           e == Tally(netting, Cents)
           f == Tally(Refunds, Owing)
           g == Sum(PaidOut)
           h == Sum(lines)
<1>10. a + k = b + c + f + g /\ k \in Nat /\ c = d + e /\ remaining = h - e
       /\ a \in Nat /\ b \in Nat /\ d \in Nat /\ e \in Nat /\ f \in Nat /\ g \in Nat /\ h \in Nat
  BY <1>2, <1>4, <1>5, <1>6, <1>7, <1>9, <1>12
<1> HIDE DEF a, b, c, d, e, f, g, h, k
<1>13. c \in Nat /\ remaining \in Nat
  BY <1>10
<1>11. a + remaining + k = b + d + f + (g + h)
  BY ONLY <1>10, <1>13
<1> QED
  BY <1>4, <1>5, <1>7, <1>8, <1>11, <1>12 DEF a, b, d, f, g, h, k

\* A payout is claimed for the lines the clerk found, or nothing happens.
LEMMA ClaimPayoutKeeps ==
    ASSUME PayInv, NEW w \in Clerks, ClaimPayout(w)
    PROVE  PayInv'
<1>1. PICK lines, netting, remaining :
        /\ lines = clerk[w].lines
        /\ netting = clerk[w].netting
        /\ remaining = Sum(lines) - Tally(netting, Cents)
  OBVIOUS
<1>2. clerk[w].task = "claim" /\ UNCHANGED <<matured, refund, transfer, clawback, unheard, forgiven, recalled>>
  BY DEF ClaimPayout
<1>3. lines \in SUBSET Lines /\ netting \in SUBSET DOMAIN debts /\ remaining \in Nat
  <2>1. ClerkFits(clerk[w])
    BY DEF PayInv, ClerksRight
  <2>2. lines \in SUBSET Lines
    BY <1>1, <2>1 DEF ClerkFits, Clerk
  <2>3. netting \in SUBSET DOMAIN debts /\ Tally(netting, Cents) <= Sum(lines)
    BY <1>1, <1>2, <2>1 DEF ClerkFits
  <2>4. TypeOK
    BY DEF PayInv
  <2>5. IsFiniteSet(netting)
    BY <2>3, <2>4, BooksType, FS_Subset
  <2>6. \A i \in netting : Cents[i] \in Nat
    BY <2>3, <2>4, BooksType
  <2>7. Tally(netting, Cents) \in Nat
    BY ONLY <2>5, <2>6, TallyNat
  <2>8. Sum(lines) \in Nat
    BY <2>2, SumNat
  <2> QED
    BY <1>1, <2>2, <2>3, <2>7, <2>8
<1>4. CASE ~Insertable(lines)
  <2>1. Rests(w) /\ UNCHANGED <<payout, item, debts, twice, crossed>>
    BY <1>1, <1>4 DEF ClaimPayout
  <2>2. UNCHANGED <<rows, clawback, histories>>
    BY <1>2, <2>1 DEF rows, histories
  <2> QED
    BY <1>2, <2>1, <2>2, RestingIs, RestingFits, NothingDecided, ClerkTurns DEF Rests
<1>5. CASE Insertable(lines)
  <2>1. PICK p \in Payouts : p = NextPayout
    BY <1>1, <1>5 DEF ClaimPayout
  <2>2. p \notin Made /\ payout[p].status = "NONE" /\ \E n \in 0..MaxPayouts : Made \cup {p} = 1..n
    BY <2>1, NextIsNew
  <2>3. PICK status \in {"PAID", "PENDING"} :
          /\ status = "PAID" <=> remaining = 0
          /\ payout' = [payout EXCEPT ![p] = [status |-> status, cents |-> remaining]]
    BY <1>1, <1>5, <2>1 DEF ClaimPayout
  <2>19. PICK x :
          /\ clerk' = [clerk EXCEPT ![w] = x]
          /\ x = IF remaining = 0 THEN Resting ELSE [Resting EXCEPT !.task = "send", !.payout = p]
    BY <1>1, <1>5, <2>1 DEF ClaimPayout
  <2>4. /\ item' = [l \in Lines |-> IF l \in lines THEN [item[l] EXCEPT !.payout = p] ELSE item[l]]
        /\ debts' = [i \in DOMAIN debts |-> [debts[i] EXCEPT !.settled = @ \/ i \in netting]]
        /\ twice' = twice \cup (netting \ Open)
        /\ crossed' = crossed \cup {l \in lines : Refunded(l)}
    BY <1>1, <1>5, <2>1 DEF ClaimPayout
  <2>5. /\ payout' \in [Payouts -> Payout] /\ payout'[p].status = status /\ payout'[p].cents = remaining
        /\ \A q \in Payouts \ {p} : payout'[q] = payout[q]
    <3>1. payout \in [Payouts -> Payout]
      BY DEF PayInv, TypeOK
    <3>2. [status |-> status, cents |-> remaining] \in Payout
      BY <1>3 DEF Payout
    <3> QED
      BY <2>3, <3>1, <3>2
  <2>6. Made' = Made \cup {p}
    BY <2>5 DEF Made, Payouts
  <2>7. p # NoPayout
    BY PayoutsAssumption DEF Payouts, NoPayout
  <2>8. item' \in [Lines -> Item]
        /\ \A l \in Lines : /\ item'[l].reversed = item[l].reversed
                            /\ item'[l].payout = IF l \in lines THEN p ELSE item[l].payout
    <3>1. ASSUME NEW l \in Lines
          PROVE  /\ item'[l] \in Item /\ item'[l].reversed = item[l].reversed
                 /\ item'[l].payout = IF l \in lines THEN p ELSE item[l].payout
      <4>1. item[l] \in Item
        BY DEF PayInv, TypeOK
      <4>2. PICK new : new = [item[l] EXCEPT !.payout = p]
        OBVIOUS
      <4>3. new \in Item /\ new.reversed = item[l].reversed /\ new.payout = p
        BY <4>1, <4>2 DEF Item
      <4>4. item'[l] = IF l \in lines THEN new ELSE item[l]
        BY <2>4, <4>2
      <4> QED
        BY <4>1, <4>3, <4>4
    <3>2. item' \in [Lines -> Item]
      BY <2>4, <3>1
    <3> QED
      BY <3>1, <3>2
  <2>9. DOMAIN debts' = DOMAIN debts /\ debts' \in Seq(Debt)
        /\ \A i \in DOMAIN debts : /\ debts'[i].cents = debts[i].cents
                                   /\ debts'[i].settled <=> debts[i].settled \/ i \in netting
    <3>1. debts \in Seq(Debt) /\ DOMAIN debts = 1..Len(debts) /\ Len(debts) \in Nat
      BY BooksType DEF PayInv, TypeOK
    <3>2. ASSUME NEW i \in DOMAIN debts
          PROVE  /\ debts'[i] \in Debt /\ debts'[i].cents = debts[i].cents
                 /\ debts'[i].settled <=> debts[i].settled \/ i \in netting
      <4>1. debts[i] \in Debt
        BY <3>1
      <4>2. PICK flag \in BOOLEAN : flag <=> debts[i].settled \/ i \in netting
        OBVIOUS
      <4>3. PICK new : new = [debts[i] EXCEPT !.settled = @ \/ i \in netting]
        OBVIOUS
      <4>4. new \in Debt
        BY <4>1, <4>3 DEF Debt
      <4>5. new.cents = debts[i].cents
        BY <4>1, <4>3 DEF Debt
      <4>6. new.settled = (debts[i].settled \/ i \in netting)
        BY <4>1, <4>3 DEF Debt
      <4>7. debts'[i] = new
        BY <2>4, <4>3
      <4> QED
        BY <4>4, <4>5, <4>6, <4>7
    <3>3. DOMAIN debts' = 1..Len(debts)
      BY <2>4, <3>1
    <3>4. debts' \in [1..Len(debts) -> Debt]
      <4>1. debts' = [i \in 1..Len(debts) |-> debts'[i]]
        BY <2>4, <3>1
      <4> QED
        BY <3>1, <3>2, <4>1
    <3>5. debts' \in Seq(Debt)
      BY <3>1, <3>4
    <3> QED
      BY <3>1, <3>2, <3>3, <3>5
  <2>10. ClerksRight' /\ DOMAIN clerk' = Clerks /\ \A v \in Clerks : clerk'[v] \in Clerk
    <3>1. x \in Clerk /\ x.task \notin {"claim", "settle", "fail"}
      BY <2>19 DEF Resting, Clerk
    <3>2. ClerkFits(x)'
      BY <3>1, RestingFits
    <3> QED
      BY <1>2, <2>19, <2>9, <3>2, ClerksAfter
  <2>11. TypeOK'
    <3>1. twice' \subseteq DOMAIN debts'
      BY <1>3, <2>4, <2>9 DEF PayInv, TypeOK
    <3>2. crossed' \subseteq Lines
      BY <1>3, <2>4 DEF PayInv, TypeOK
    <3> QED
      BY <1>2, <2>5, <2>8, <2>9, <2>10, <3>1, <3>2 DEF PayInv, TypeOK, Refund, Payout, Item, Debt,
         Transfer, Clerk, Clawback, Payouts, NoPayout
  <2>12. transfer[p].back = 0
    BY <2>2 DEF PayInv, MadeRight
  <2>13. MadeRight'
    <3>1. \A q \in Payouts : payout'[q].status = "NONE" => transfer[q].back = 0
      BY <2>3, <2>5 DEF PayInv, MadeRight
    <3> QED
      BY <1>2, <2>2, <2>6, <3>1 DEF MadeRight, Payouts
  <2>14. TransfersRight'
    <3>1. ASSUME NEW q \in Payouts
          PROVE  /\ transfer[q].made <= 1
                 /\ transfer[q].refused => transfer[q].made = 0
                 /\ payout'[q].status = "PAID" /\ payout'[q].cents > 0 => transfer[q].made = 1
                 /\ payout'[q].status = "FAILED" => transfer[q].refused
      <4>1. CASE q = p
        BY <2>3, <2>5, <4>1 DEF PayInv, TransfersRight
      <4>2. CASE q # p
        BY <2>5, <4>2 DEF PayInv, TransfersRight
      <4> QED
        BY <4>1, <4>2
    <3> QED
      BY <1>2, <3>1 DEF TransfersRight, Payouts
  <2>15. ItemsRight'
    BY <2>6, <2>7, <2>8 DEF PayInv, ItemsRight, NoPayout
  <2>16. RecallsRight'
    <3>1. \A r \in recalled : clawback'[r].task \in {"reverse", "record", "done", "died"}
      BY <1>2 DEF PayInv, RecallsRight
    <3> QED
      BY <1>2, <2>8, <3>1, RecallsKept
  <2>17. ClawbacksRight'
    <3>1. ASSUME NEW r \in Refunds PROVE ClawbackFits(r)'
      <4>1. PICK l : l = LineOf(r)
        OBVIOUS
      <4>2. LineOf(r)' = l
        BY <1>2, <4>1 DEF LineOf
      <4>3. ClawbackFits(r) /\ l \in Lines \cup {NoLine}
        BY <4>1 DEF PayInv, ClawbacksRight, TypeOK, Refund, LineOf
      <4>4. l \in Lines => /\ item[l].payout # NoPayout => item'[l].payout # NoPayout
                           /\ item'[l].reversed = item[l].reversed
        BY <2>7, <2>8
      <4>5. crossed \subseteq crossed'
        BY <2>4
      <4>6. ASSUME clawback[r].task = "done", l # NoLine
            PROVE  item'[l].payout = NoPayout \/ item'[l].reversed \/ l \in crossed'
        <5>1. l \in Lines /\ refund[r].status = "SUCCEEDED" /\ refund[r].line = l
          BY <4>1, <4>3, <4>6 DEF ClawbackFits, LineOf
        <5>2. CASE l \in lines
          <6>1. Refunded(l)
            BY <5>1 DEF Refunded
          <6> QED
            BY <2>4, <5>2, <6>1
        <5>3. CASE l \notin lines
          BY <2>8, <4>1, <4>3, <4>5, <4>6, <5>1, <5>3 DEF ClawbackFits
        <5> QED
          BY <5>2, <5>3
      <4> QED
        BY <1>2, <4>1, <4>2, <4>3, <4>4, <4>6 DEF ClawbackFits, NoPayout
    <3> QED
      BY <3>1 DEF ClawbacksRight
  <2>18. BooksRight'
    <3>1. Died' = Died
      BY <1>2 DEF Died
    <3>2. twice \subseteq twice' /\ (twice' = {} => netting \subseteq Open)
      BY <2>4
    <3>3. (Flawed => Flawed') /\ (~Flawed' => netting \subseteq Open)
      BY <1>2, <3>1, <3>2 DEF Flawed
    <3>4. \A q \in Made : payout'[q].cents = payout[q].cents
      BY <2>2, <2>5 DEF Made
    <3>5. transfer' = transfer /\ clawback' = clawback /\ refund' = refund /\ recalled' = recalled
      BY <1>2
    <3>6. remaining = Sum(lines) - Tally(netting, Cents) /\ payout'[p].cents = remaining
      BY <1>1, <2>5
    <3>7. p \in Payouts \ Made
      BY <2>2
    <3>8. PayInv
      OBVIOUS
    <3> QED
      BY ONLY <1>3, <1>5, <2>6, <2>8, <2>9, <2>12, <3>3, <3>4, <3>5, <3>6, <3>7, <3>8, ClaimBooks
  <2> QED
    BY <2>10, <2>11, <2>13, <2>14, <2>15, <2>16, <2>17, <2>18 DEF PayInv
<1> QED
  BY <1>4, <1>5

-----------------------------------------------------------------------------
\* What a clawback may do to the rows of others: lines stay with their payout,
\* what was reversed stays so, debts stay, decisions stand.
OthersStand ==
    /\ UNCHANGED <<matured, refund, payout, clerk, twice>>
    /\ item' \in [Lines -> Item]
    /\ \A l \in Lines : /\ item'[l].payout = item[l].payout
                        /\ item[l].reversed => item'[l].reversed
                        /\ item'[l].reversed => item[l].reversed \/ item[l].payout # NoPayout
    /\ debts' \in Seq(Debt) /\ DOMAIN debts \subseteq DOMAIN debts'
    /\ \A i \in DOMAIN debts : debts'[i].cents = debts[i].cents
    /\ transfer' \in [Payouts -> Transfer]
    /\ \A p \in Payouts : /\ transfer'[p].made = transfer[p].made
                          /\ transfer'[p].refused = transfer[p].refused
                          /\ payout[p].status = "NONE" => transfer'[p].back = transfer[p].back
    /\ crossed \subseteq crossed' /\ crossed' \subseteq Lines
    /\ forgiven' \subseteq Lines /\ unheard' \subseteq Refunds /\ recalled' \subseteq Refunds

\* A clawback takes a step.
LEMMA OneClawback ==
    ASSUME PayInv, NEW r \in Refunds, NEW row \in Clawback, clawback' = [clawback EXCEPT ![r] = row],
           OthersStand, ClawbackFits(r)', RecallsRight', BooksRight'
    PROVE  PayInv'
<1>1. clawback' \in [Refunds -> Clawback] /\ \A s \in Refunds \ {r} : clawback'[s] = clawback[s]
  BY DEF PayInv, TypeOK
<1>2. clerk' = clerk /\ ClerksRight' /\ DOMAIN clerk' = Clerks /\ \A v \in Clerks : clerk'[v] \in Clerk
  BY ClerksStay DEF OthersStand
<1>3. TypeOK'
  <2>1. twice' \subseteq DOMAIN debts'
    BY DEF OthersStand, PayInv, TypeOK
  <2> QED
    BY <1>1, <1>2, <2>1 DEF OthersStand, PayInv, TypeOK, Refund, Payout, Item, Debt,
       Transfer, Clerk, Clawback, Payouts, NoPayout
<1>4. Made' = Made
  BY DEF OthersStand, Made, Payouts
<1>5. MadeRight' /\ TransfersRight'
  BY <1>4 DEF OthersStand, PayInv, MadeRight, TransfersRight, Payouts
<1>6. ItemsRight'
  BY <1>4 DEF OthersStand, PayInv, ItemsRight, NoPayout
<1>7. ClawbacksRight'
  <2>1. ASSUME NEW s \in Refunds PROVE ClawbackFits(s)'
    <3>1. CASE s = r
      BY <3>1
    <3>2. CASE s # r
      <4>1. PICK l : l = LineOf(s)
        OBVIOUS
      <4>2. LineOf(s)' = l
        BY <4>1 DEF OthersStand, LineOf
      <4>3. ClawbackFits(s) /\ l \in Lines \cup {NoLine}
        BY <4>1 DEF PayInv, ClawbacksRight, TypeOK, Refund, LineOf
      <4>4. l \in Lines => item'[l].payout = item[l].payout /\ (item[l].reversed => item'[l].reversed)
        BY DEF OthersStand
      <4>5. crossed \subseteq crossed' /\ refund' = refund /\ clawback'[s] = clawback[s]
        BY <1>1, <3>2 DEF OthersStand
      <4> QED
        BY <4>1, <4>2, <4>3, <4>4, <4>5 DEF ClawbackFits, NoPayout
    <3> QED
      BY <3>1, <3>2
  <2> QED
    BY <2>1 DEF ClawbacksRight
<1> QED
  BY <1>2, <1>3, <1>5, <1>6, <1>7 DEF PayInv

\* What a clawback of this one's owes is a number.
LEMMA OwingNat ==
    ASSUME PayInv, NEW r \in Refunds
    PROVE  Owing[r] \in Nat
<1>1. clawback[r].short \in Nat
  BY DEF PayInv, TypeOK, Clawback
<1>2. clawback[r].task = "reverse" => Target(r) \in Nat
  BY TargetNat DEF PayInv, ClawbacksRight, ClawbackFits
<1> QED
  BY <1>1, <1>2 DEF Owing

\* What is owed changes by what one clawback owes.
LEMMA OwingChanges ==
    ASSUME PayInv, NEW r \in Refunds, NEW row \in Clawback, clawback' = [clawback EXCEPT ![r] = row],
           refund' = refund, NEW n \in Nat,
           n = IF row.task = "reverse" THEN Target(r)
               ELSE IF row.task = "record" THEN row.short ELSE 0
    PROVE  /\ Tally(Refunds, Owing) \in Nat /\ Tally(Refunds, Owing') \in Nat
           /\ Tally(Refunds, Owing') + Owing[r] = Tally(Refunds, Owing) + n
<1>1. clawback'[r] = row /\ \A s \in Refunds \ {r} : clawback'[s] = clawback[s]
  BY DEF PayInv, TypeOK
<1>2. \A s \in Refunds : Target(s)' = Target(s)
  BY DEF LineOf, Target, Least
<1>3. Owing'[r] = n /\ \A s \in Refunds \ {r} : Owing'[s] = Owing[s]
  BY <1>1, <1>2 DEF Owing
<1>4. \A s \in Refunds : Owing[s] \in Nat
  BY OwingNat
<1>5. PICK owed : owed = Owing'
  OBVIOUS
<1>6. \A s \in Refunds : Owing[s] \in Nat /\ owed[s] \in Nat
  BY <1>3, <1>4, <1>5
<1>7. \A s \in Refunds \ {r} : Owing[s] = owed[s]
  BY <1>3, <1>5
<1>8. IsFiniteSet(Refunds)
  BY PayoutsAssumption
<1>9. Tally(Refunds, owed) + Owing[r] = Tally(Refunds, Owing) + owed[r]
  BY ONLY <1>6, <1>7, <1>8, TallyChange
<1>10. Tally(Refunds, owed) \in Nat /\ Tally(Refunds, Owing) \in Nat
  BY <1>6, <1>8, TallyNat
<1> QED
  BY <1>3, <1>5, <1>9, <1>10

\* A clawback ends, or goes on without owing anything.
LEMMA FindKeeps ==
    ASSUME PayInv, NEW r \in Refunds, Find(r)
    PROVE  PayInv'
<1>1. PICK l, p : l = LineOf(r) /\ p = item[l].payout
  OBVIOUS
<1>2. clawback[r].task = "find" /\ UNCHANGED <<rows, transfer, clerk, twice, unheard, forgiven, recalled>>
  BY DEF Find
<1>3. UNCHANGED <<matured, refund, payout, item, debts>>
  BY <1>2 DEF rows
<1>4. l \in Lines /\ item[l] \in Item
  BY <1>1, <1>2 DEF PayInv, TypeOK, ClawbacksRight, ClawbackFits
<1>5. PICK task \in {"claim", "done"} :
        /\ task = "claim" <=> p # NoPayout /\ ~item[l].reversed /\ payout[p].status = "PAID"
        /\ clawback' = [clawback EXCEPT ![r].task = task]
  BY <1>1 DEF Find, ClawsTo
<1>6. crossed' = IF p # NoPayout /\ payout[p].status # "PAID" THEN crossed \cup {l} ELSE crossed
  BY <1>1 DEF Find
<1>7. PICK row : row = [clawback[r] EXCEPT !.task = task]
  OBVIOUS
<1>8. row \in Clawback /\ row.task = task /\ clawback' = [clawback EXCEPT ![r] = row]
  <2>1. clawback[r] \in Clawback /\ DOMAIN clawback = Refunds
    BY DEF PayInv, TypeOK
  <2> QED
    BY <1>5, <1>7, <2>1 DEF Clawback
<1>9. clawback'[r] = row
  BY <1>8 DEF PayInv, TypeOK
<1>10. OthersStand
  BY <1>2, <1>3, <1>4, <1>6 DEF OthersStand, PayInv, TypeOK
<1>11. ClawbackFits(r)'
  <2>1. LineOf(r)' = l
    BY <1>1, <1>3 DEF LineOf
  <2>2. refund[r].status = "SUCCEEDED"
    BY <1>2 DEF PayInv, ClawbacksRight, ClawbackFits
  <2> QED
    BY <1>1, <1>3, <1>4, <1>5, <1>6, <1>8, <1>9, <2>1, <2>2 DEF ClawbackFits, NoPayout
<1>12. BooksRight'
  <2>1. Flawed => Flawed'
    <3>1. Died \subseteq Died'
      <4>1. \A s \in Refunds : clawback[s].task = "died" => clawback'[s].task = "died"
        BY <1>2, <1>8 DEF PayInv, TypeOK
      <4> QED
        BY <4>1 DEF Died
    <3> QED
      BY <1>2, <3>1 DEF Flawed
  <2>2. \A s \in Refunds : Owing'[s] = Owing[s]
    <3>1. \A s \in Refunds \ {r} : clawback'[s] = clawback[s]
      BY <1>8 DEF PayInv, TypeOK
    <3> QED
      BY <1>2, <1>3, <1>8, <1>9, <3>1 DEF Owing, LineOf, Target, Least
  <2>3. Made' = Made
    BY <1>3 DEF Made, Payouts
  <2>4. \A q \in Payouts : payout'[q].cents = payout[q].cents /\ transfer'[q].back = transfer[q].back
    BY <1>2, <1>3
  <2>5. UNCHANGED <<item, debts, recalled>> /\ refund' = refund
    BY <1>2, <1>3
  <2> QED
    BY <2>1, <2>2, <2>3, <2>4, <2>5, BooksKept
<1>13. RecallsRight'
  <2>1. r \notin recalled
    BY <1>2 DEF PayInv, RecallsRight
  <2>2. \A s \in recalled : clawback'[s].task \in {"reverse", "record", "done", "died"}
    BY <1>8, <2>1 DEF PayInv, TypeOK, RecallsRight
  <2> QED
    BY <1>2, <1>3, <2>2, RecallsKept
<1> QED
  BY <1>8, <1>10, <1>11, <1>12, <1>13, OneClawback

\* A clawback dies, and the books say so.
LEMMA ClawbackDiesKeeps ==
    ASSUME PayInv, NEW r \in Refunds, ClawbackDies(r)
    PROVE  PayInv'
<1>1. /\ clawback[r].task \in {"find", "claim", "reverse", "record"}
      /\ UNCHANGED <<matured, refund, payout, item, debts, transfer, clerk, crossed, twice, unheard, forgiven, recalled>>
  BY DEF ClawbackDies, rows, histories
<1>2. PICK row : row = [task |-> "died", short |-> 0]
  OBVIOUS
<1>3. row \in Clawback /\ row.task = "died" /\ clawback' = [clawback EXCEPT ![r] = row]
  BY <1>2 DEF Clawback, ClawbackDies
<1>4. clawback'[r] = row
  BY <1>3 DEF PayInv, TypeOK
<1>5. OthersStand
  <2>1. \A l \in Lines : item'[l].reversed => item[l].reversed \/ item[l].payout # NoPayout
    BY <1>1
  <2> QED
    BY <1>1, <2>1 DEF OthersStand, PayInv, TypeOK
<1>6. ClawbackFits(r)'
  <2>1. refund'[r].status = "SUCCEEDED"
    BY <1>1 DEF PayInv, ClawbacksRight, ClawbackFits
  <2> QED
    BY <1>3, <1>4, <2>1 DEF ClawbackFits
<1>7. BooksRight'
  <2>1. r \in Died'
    BY <1>3, <1>4 DEF Died
  <2> QED
    BY <2>1 DEF BooksRight, Flawed
<1>8. RecallsRight'
  <2>1. \A s \in recalled : clawback'[s].task \in {"reverse", "record", "done", "died"}
    BY <1>3, <1>4 DEF PayInv, TypeOK, RecallsRight
  <2> QED
    BY <1>1, <2>1, RecallsKept
<1> QED
  BY <1>3, <1>5, <1>6, <1>7, <1>8, OneClawback

\* Who moved nothing but one clawback's row in the books moved only that row.
LEMMA DiedStay ==
    ASSUME PayInv, NEW r \in Refunds, NEW row \in Clawback, clawback' = [clawback EXCEPT ![r] = row],
           clawback[r].task # "died", twice' = twice,
           unheard \subseteq unheard', forgiven \subseteq forgiven'
    PROVE  Flawed => Flawed'
<1>1. \A s \in Refunds : clawback[s].task = "died" => clawback'[s].task = "died"
  BY DEF PayInv, TypeOK
<1>2. Died \subseteq Died'
  BY <1>1 DEF Died
<1> QED
  BY <1>2 DEF Flawed

\* The books are kept in numbers.
LEMMA BooksNat ==
    ASSUME PayInv
    PROVE  /\ Tally(Made, Promised) \in Nat /\ Tally(Made, Back) \in Nat
           /\ Tally(Open, Cents) \in Nat /\ Sum(PaidOut) \in Nat
<1>1. TypeOK /\ Made \subseteq Payouts /\ Open \subseteq DOMAIN debts
  BY DEF PayInv, Made, Open
<1>2. IsFiniteSet(Made) /\ IsFiniteSet(Open)
  BY <1>1, BooksType
<1>3. \A q \in Made : Promised[q] \in Nat
  BY <1>1, BooksType
<1>4. \A q \in Made : Back[q] \in Nat
  BY <1>1, BooksType
<1>5. \A i \in Open : Cents[i] \in Nat
  BY <1>1, BooksType
<1>6. PaidOut \in SUBSET Lines
  BY DEF PaidOut
<1> QED
  BY <1>2, <1>3, <1>4, <1>5, <1>6, TallyNat, SumNat

\* A line is claimed once, and from then on its money is on its way back.
LEMMA ClaimReversalKeeps ==
    ASSUME PayInv, NEW r \in Refunds, ClaimReversal(r)
    PROVE  PayInv'
<1>1. PICK l, allDebt : l = LineOf(r) /\ allDebt = (payout[item[l].payout].cents = 0)
  OBVIOUS
<1>2. /\ clawback[r].task = "claim"
      /\ UNCHANGED <<matured, refund, payout, debts, transfer, clerk, crossed, twice, unheard>>
      /\ r \notin recalled
  BY DEF ClaimReversal, PayInv, RecallsRight
<1>3. /\ refund[r].status = "SUCCEEDED" /\ l \in Lines /\ item[l].payout # NoPayout
      /\ item[l] \in Item /\ Price[l] \in Nat /\ LineOf(r)' = l
  BY <1>1, <1>2, PayoutsAssumption DEF PayInv, TypeOK, ClawbacksRight, ClawbackFits, LineOf
<1>4. PICK task \in {"reverse", "done"} :
        /\ clawback' = [clawback EXCEPT ![r].task = task]
        /\ IF StillUnreversed(l)
           THEN /\ item' = [item EXCEPT ![l].reversed = TRUE]
                /\ task = "done" <=> allDebt
                /\ forgiven' = IF allDebt THEN forgiven \cup {l} ELSE forgiven
                /\ recalled' = recalled \cup {r}
           ELSE task = "done" /\ item' = item /\ forgiven' = forgiven /\ recalled' = recalled
  BY <1>1 DEF ClaimReversal, ClawsTo
<1>5. PICK row : row = [clawback[r] EXCEPT !.task = task]
  OBVIOUS
<1>6. row \in Clawback /\ row.task = task /\ clawback' = [clawback EXCEPT ![r] = row]
  <2>1. clawback[r] \in Clawback /\ DOMAIN clawback = Refunds
    BY DEF PayInv, TypeOK
  <2> QED
    BY <1>4, <1>5, <2>1 DEF Clawback
<1>7. clawback'[r] = row
  BY <1>6 DEF PayInv, TypeOK
<1>8. /\ item' \in [Lines -> Item] /\ item'[l].reversed /\ item'[l].payout = item[l].payout
      /\ \A k \in Lines \ {l} : item'[k] = item[k]
  <2>1. item \in [Lines -> Item]
    BY DEF PayInv, TypeOK
  <2>2. CASE StillUnreversed(l)
    <3>1. PICK new : new = [item[l] EXCEPT !.reversed = TRUE]
      OBVIOUS
    <3>2. new \in Item /\ new.reversed /\ new.payout = item[l].payout
      BY <1>3, <3>1 DEF Item
    <3>3. item' = [item EXCEPT ![l] = new]
      BY <1>4, <2>2, <3>1
    <3> QED
      BY <1>3, <2>1, <3>2, <3>3
  <2>3. CASE ~StillUnreversed(l)
    BY <1>3, <1>4, <2>1, <2>3 DEF StillUnreversed
  <2> QED
    BY <2>2, <2>3
<1>9. OthersStand
  <2>1. \A k \in Lines : /\ item'[k].payout = item[k].payout
                         /\ item[k].reversed => item'[k].reversed
                         /\ item'[k].reversed => item[k].reversed \/ item[k].payout # NoPayout
    BY <1>3, <1>8
  <2>2. forgiven' \subseteq Lines /\ recalled' \subseteq Refunds
    BY <1>3, <1>4 DEF PayInv, TypeOK
  <2> QED
    BY <1>2, <1>8, <2>1, <2>2 DEF OthersStand, PayInv, TypeOK
<1>10. ClawbackFits(r)'
  BY <1>2, <1>3, <1>4, <1>6, <1>7, <1>8 DEF ClawbackFits, NoPayout
<1>11. BooksRight'
  <2>1. Flawed => Flawed'
    <3>1. forgiven \subseteq forgiven' /\ unheard \subseteq unheard'
      BY <1>2, <1>4
    <3> QED
      BY <1>2, <1>6, <3>1, DiedStay
  <2>2. Made' = Made
    BY <1>2 DEF Made, Payouts
  <2>3. CASE ~StillUnreversed(l)
    <3>1. \A s \in Refunds \ {r} : clawback'[s] = clawback[s]
      BY <1>6 DEF PayInv, TypeOK
    <3>2. \A s \in Refunds : Owing'[s] = Owing[s]
      BY <1>2, <1>4, <1>6, <1>7, <2>3, <3>1 DEF Owing, LineOf, Target, Least
    <3>3. \A q \in Payouts : payout'[q].cents = payout[q].cents /\ transfer'[q].back = transfer[q].back
      BY <1>2
    <3>4. UNCHANGED <<item, debts, recalled>> /\ refund' = refund
      BY <1>2, <1>4, <2>3
    <3> QED
      BY <2>1, <2>2, <3>2, <3>3, <3>4, BooksKept
  <2>4. CASE StillUnreversed(l)
    <3> SUFFICES ASSUME ~Flawed' PROVE BooksRight'
      BY DEF BooksRight
    <3>1. ~allDebt /\ task = "reverse"
      BY <1>4, <2>4 DEF Flawed
    <3>10. Target(r) \in Nat
      BY <1>1, <1>3, TargetNat DEF PayInv
    <3>2. /\ Tally(Refunds, Owing) \in Nat /\ Tally(Refunds, Owing') \in Nat
          /\ Tally(Refunds, Owing') + Owing[r] = Tally(Refunds, Owing) + Target(r)
      <4>1. Target(r) = IF row.task = "reverse" THEN Target(r)
                        ELSE IF row.task = "record" THEN row.short ELSE 0
        BY <1>6, <3>1
      <4>2. refund' = refund
        BY <1>2
      <4> QED
        BY <1>6, <3>10, <4>1, <4>2, OwingChanges
    <3>3. Owing[r] = 0
      BY <1>2 DEF Owing
    <3>4. Tally(recalled', Targets') = Tally(recalled, Targets) + Target(r) /\ Tally(recalled, Targets) \in Nat
      <4>1. recalled' = recalled \cup {r} /\ recalled \cap {r} = {}
        BY <1>2, <1>4, <2>4
      <4>2. Targets' = Targets
        BY <1>2 DEF Targets, Target, LineOf, Least
      <4>3. IsFiniteSet(recalled) /\ IsFiniteSet({r}) /\ Tally(recalled, Targets) \in Nat
        BY RecallsNat, FS_Singleton
      <4>4. Targets[r] = Target(r)
        BY DEF Targets
      <4>5. \A q \in recalled : Targets[q] \in Nat
        BY RecallsNat
      <4>6. \A q \in recalled \cup {r} : Targets[q] \in Nat
        BY <3>10, <4>4, <4>5
      <4>7. recalled \cap {r} = {}
        BY <4>1
      <4>8. Tally(recalled \cup {r}, Targets) = Tally(recalled, Targets) + Tally({r}, Targets)
        BY ONLY <4>3, <4>6, <4>7, TallyJoin
      <4>9. Targets[r] \in Nat
        BY <3>10, <4>4
      <4>10. Tally({r}, Targets) = Targets[r]
        BY ONLY <4>9, TallyOne
      <4> QED
        BY <4>1, <4>2, <4>3, <4>4, <4>8, <4>10
    <3>5. Promised' = Promised /\ Back' = Back /\ Cents' = Cents /\ Open' = Open /\ PaidOut' = PaidOut
      <4>1. PaidOut' = PaidOut
        BY <1>3, <1>8 DEF PaidOut, NoPayout
      <4> QED
        BY <1>2, <4>1 DEF Promised, Back, Cents, Open, Payouts
    <3>6. Tally(Made, Promised) + Tally(recalled, Targets) =
              Tally(Made, Back) + Tally(Open, Cents) + Tally(Refunds, Owing) + Sum(PaidOut)
      BY <2>1 DEF PayInv, BooksRight
    <3>8. Tally(Made, Promised) + Tally(recalled', Targets') =
              Tally(Made, Back) + Tally(Open, Cents) + Tally(Refunds, Owing') + Sum(PaidOut)
      BY <3>10, <3>2, <3>3, <3>4, <3>6, BooksNat
    <3>9. Sum(PaidOut)' = Sum(PaidOut)
      BY <3>5 DEF Sum
    <3> QED
      BY <2>2, <3>5, <3>8, <3>9 DEF BooksRight
  <2> QED
    BY <2>3, <2>4
<1>12. RecallsRight'
  <2>1. refund' = refund /\ \A s \in Refunds : LineOf(s)' = LineOf(s)
    BY <1>2 DEF LineOf
  <2>2. \A s \in Refunds \ {r} : clawback'[s] = clawback[s]
    BY <1>6 DEF PayInv, TypeOK
  <2>3. \A s \in recalled : clawback'[s].task \in {"reverse", "record", "done", "died"}
    BY <1>2, <2>2 DEF PayInv, TypeOK, RecallsRight
  <2>4. CASE ~StillUnreversed(l)
    <3>1. recalled' = recalled /\ item' = item
      BY <1>4, <2>4
    <3> QED
      BY <2>1, <2>3, <3>1, RecallsKept
  <2>5. CASE StillUnreversed(l)
    <3>1. recalled' = recalled \cup {r}
      BY <1>4, <2>5
    <3>2. \A s \in recalled : LineOf(s) # l
      BY <2>5 DEF PayInv, RecallsRight, StillUnreversed
    <3>3. recalled \subseteq Refunds
      BY DEF PayInv, TypeOK
    <3>4. RecalledOnce'
      BY <1>1, <2>1, <3>1, <3>2, <3>3 DEF PayInv, RecallsRight, RecalledOnce
    <3>5. ASSUME NEW s \in recalled'
          PROVE  /\ refund'[s].status = "SUCCEEDED" /\ LineOf(s)' \in Lines
                 /\ clawback'[s].task \in {"reverse", "record", "done", "died"}
                 /\ item'[LineOf(s)'].reversed
      <4>1. CASE s = r
        BY <1>1, <1>3, <1>6, <1>7, <1>8, <2>1, <4>1
      <4>2. CASE s # r
        <5>1. s \in recalled
          BY <3>1, <4>2
        <5>2. LineOf(s) \in Lines /\ item[LineOf(s)].reversed /\ refund[s].status = "SUCCEEDED"
          BY <5>1 DEF PayInv, RecallsRight
        <5>3. item'[LineOf(s)] = item[LineOf(s)]
          BY <1>8, <3>2, <5>1, <5>2
        <5> QED
          BY <2>1, <2>3, <3>3, <5>1, <5>2, <5>3
      <4> QED
        BY <4>1, <4>2
    <3>6. ASSUME NEW k \in Lines, item'[k].reversed PROVE \E q \in recalled' : LineOf(q)' = k
      <4>1. CASE k = l
        BY <1>1, <2>1, <3>1, <4>1
      <4>2. CASE k # l
        <5>1. item[k].reversed
          BY <1>8, <3>6, <4>2
        <5>2. PICK q \in recalled : LineOf(q) = k
          BY <5>1 DEF PayInv, RecallsRight
        <5> QED
          BY <2>1, <3>1, <3>3, <5>2
      <4> QED
        BY <4>1, <4>2
    <3> QED
      BY <3>4, <3>5, <3>6 DEF RecallsRight
  <2> QED
    BY <2>4, <2>5
<1> QED
  BY <1>6, <1>9, <1>10, <1>11, <1>12, OneClawback

\* What the provider takes back is no longer owed, and the rest still is.
LEMMA ReverseKeeps ==
    ASSUME PayInv, NEW r \in Refunds, Reverse(r)
    PROVE  PayInv'
<1>1. PICK l, p : l = LineOf(r) /\ p = item[l].payout
  OBVIOUS
<1>2. clawback[r].task = "reverse" /\ UNCHANGED <<rows, clerk, crossed, twice, forgiven, recalled>>
  BY DEF Reverse
<1>3. UNCHANGED <<matured, refund, payout, item, debts>>
  BY <1>2 DEF rows
<1>4. /\ refund[r].status = "SUCCEEDED" /\ l \in Lines /\ p \in Made /\ item[l].reversed
      /\ LineOf(r)' = l
  <2>1. l \in Lines /\ item[l].payout # NoPayout /\ item[l].reversed /\ refund[r].status = "SUCCEEDED"
    BY <1>1, <1>2 DEF PayInv, ClawbacksRight, ClawbackFits
  <2> QED
    BY <1>1, <1>3, <2>1 DEF PayInv, ItemsRight, LineOf
<1>5. Target(r) \in Nat
  BY <1>1, <1>4, TargetNat DEF PayInv
<1>6. p \in Payouts /\ transfer[p] \in Transfer /\ payout[p] \in Payout /\ transfer \in [Payouts -> Transfer]
  BY <1>4 DEF Made, PayInv, TypeOK
<1>7. PICK n \in 0..Least(payout[p].cents - transfer[p].back, Target(r)), heard \in BOOLEAN :
        LET short == IF heard THEN Target(r) - n ELSE Target(r)
        IN  /\ transfer' = [transfer EXCEPT ![p].back = @ + n]
            /\ clawback' = [clawback EXCEPT ![r] =
                   [task |-> IF short > 0 THEN "record" ELSE "done", short |-> short]]
            /\ unheard' = IF ~heard /\ n > 0 THEN unheard \cup {r} ELSE unheard
  BY <1>1 DEF Reverse
<1>16. PICK short :
        /\ short = IF heard THEN Target(r) - n ELSE Target(r)
        /\ clawback' = [clawback EXCEPT ![r] =
               [task |-> IF short > 0 THEN "record" ELSE "done", short |-> short]]
  BY <1>7
<1>8. n \in Nat /\ n <= Target(r) /\ short \in Nat
  <2>1. payout[p].cents \in Nat /\ transfer[p].back \in Nat
    BY <1>6 DEF Payout, Transfer
  <2>2. PICK left \in Int : left = payout[p].cents - transfer[p].back
    BY <2>1
  <2>3. n \in 0..Least(left, Target(r))
    BY <1>5, <1>7, <2>2
  <2>4. n \in Nat /\ n <= Target(r)
    BY <1>5, <2>2, <2>3 DEF Least
  <2> QED
    BY <1>5, <1>16, <2>4
<1>9. PICK row : row = [task |-> IF short > 0 THEN "record" ELSE "done", short |-> short]
  OBVIOUS
<1>10. /\ row \in Clawback /\ row.task = (IF short > 0 THEN "record" ELSE "done") /\ row.short = short
       /\ clawback' = [clawback EXCEPT ![r] = row]
  BY <1>8, <1>9, <1>16 DEF Clawback
<1>11. clawback'[r] = row
  BY <1>10 DEF PayInv, TypeOK
<1>12. /\ transfer' \in [Payouts -> Transfer] /\ transfer'[p].back = transfer[p].back + n
       /\ transfer'[p].made = transfer[p].made /\ transfer'[p].refused = transfer[p].refused
       /\ \A q \in Payouts \ {p} : transfer'[q] = transfer[q]
  <2>1. PICK new : new = [transfer[p] EXCEPT !.back = @ + n]
    OBVIOUS
  <2>2. new \in Transfer
    BY <1>6, <1>8, <2>1 DEF Transfer
  <2>3. new.back = transfer[p].back + n /\ new.made = transfer[p].made
    BY <1>6, <2>1 DEF Transfer
  <2>4. new.refused = transfer[p].refused
    BY <1>6, <2>1 DEF Transfer
  <2>5. transfer' = [transfer EXCEPT ![p] = new]
    BY <1>7, <2>1
  <2> QED
    BY <1>6, <2>2, <2>3, <2>4, <2>5
<1>13. OthersStand
  <2>1. \A q \in Payouts : /\ transfer'[q].made = transfer[q].made
                           /\ transfer'[q].refused = transfer[q].refused
                           /\ payout[q].status = "NONE" => transfer'[q].back = transfer[q].back
    BY <1>4, <1>12 DEF Made
  <2>2. \A k \in Lines : item'[k].reversed => item[k].reversed \/ item[k].payout # NoPayout
    BY <1>3
  <2>3. unheard' \subseteq Refunds
    BY <1>7 DEF PayInv, TypeOK
  <2> QED
    BY <1>2, <1>3, <1>12, <2>1, <2>2, <2>3 DEF OthersStand, PayInv, TypeOK
<1>14. ClawbackFits(r)'
  <2>1. item'[l].payout # NoPayout
    BY <1>1, <1>2, <1>3 DEF PayInv, ClawbacksRight, ClawbackFits
  <2> QED
    BY <1>3, <1>4, <1>10, <1>11, <2>1 DEF ClawbackFits, NoPayout
<1>15. BooksRight'
  <2> SUFFICES ASSUME ~Flawed' PROVE BooksRight'
    BY DEF BooksRight
  <2>1. ~Flawed
    <3>1. clawback[r].task # "died" /\ twice' = twice /\ unheard \subseteq unheard' /\ forgiven \subseteq forgiven'
      BY <1>2, <1>7
    <3> QED
      BY <1>10, <3>1, DiedStay
  <2>2. Target(r) = n + short
    <3>1. heard \/ n = 0
      BY <1>7, <1>8 DEF Flawed
    <3> QED
      BY <1>5, <1>8, <1>16, <3>1
  <2>3. /\ Tally(Refunds, Owing) \in Nat /\ Tally(Refunds, Owing') \in Nat
        /\ Tally(Refunds, Owing') + Owing[r] = Tally(Refunds, Owing) + short
    <3>1. short = IF row.task = "reverse" THEN Target(r)
                  ELSE IF row.task = "record" THEN row.short ELSE 0
      BY <1>8, <1>10
    <3>2. refund' = refund
      BY <1>3
    <3> QED
      BY <1>8, <1>10, <3>1, <3>2, OwingChanges
  <2>4. Owing[r] = Target(r)
    BY <1>1, <1>2 DEF Owing
  <2>5. Made' = Made /\ Promised' = Promised /\ Cents' = Cents /\ Open' = Open /\ PaidOut' = PaidOut
    BY <1>3 DEF Made, Promised, Cents, Open, Payouts, PaidOut, NoPayout
  <2>6. Tally(Made, Back') = Tally(Made, Back) + n
    <3>1. PICK back : back = Back'
      OBVIOUS
    <3>2. Back'[p] = Back[p] + n /\ \A q \in Payouts \ {p} : Back'[q] = Back[q]
      BY <1>6, <1>12 DEF Back, Payouts
    <3>3. TypeOK /\ Made \subseteq Payouts
      BY DEF PayInv, Made
    <3>4. IsFiniteSet(Made)
      BY <3>3, BooksType
    <3>5. \A q \in Made : Back[q] \in Nat
      BY <3>3, BooksType
    <3>6. \A q \in Made : Back[q] \in Nat /\ back[q] \in Nat
      BY <1>8, <3>1, <3>2, <3>3, <3>5
    <3>7. \A q \in Made \ {p} : Back[q] = back[q]
      BY <3>1, <3>2, <3>3
    <3>8. p \in Made
      BY <1>4
    <3>9. Tally(Made, back) + Back[p] = Tally(Made, Back) + back[p]
      BY ONLY <3>4, <3>6, <3>7, <3>8, TallyChange
    <3>10. Tally(Made, back) \in Nat /\ Tally(Made, Back) \in Nat /\ back[p] \in Nat /\ Back[p] \in Nat
      BY <3>4, <3>6, <3>8, TallyNat
    <3>11. back[p] = Back[p] + n
      BY <3>1, <3>2
    <3>12. Tally(Made, back) = Tally(Made, Back) + n
      BY <1>8, <3>9, <3>10, <3>11
    <3> QED
      BY <3>1, <3>12
  <2>7. Tally(Made, Promised) + Tally(recalled, Targets) =
            Tally(Made, Back) + Tally(Open, Cents) + Tally(Refunds, Owing) + Sum(PaidOut)
    BY <2>1 DEF PayInv, BooksRight
  <2>8. Tally(Made, Promised) + Tally(recalled, Targets) =
            Tally(Made, Back') + Tally(Open, Cents) + Tally(Refunds, Owing') + Sum(PaidOut)
    BY <1>5, <1>8, <2>2, <2>3, <2>4, <2>6, <2>7, BooksNat, RecallsNat
  <2>9. Sum(PaidOut)' = Sum(PaidOut)
    BY <2>5 DEF Sum
  <2>10. Tally(recalled', Targets') = Tally(recalled, Targets)
    BY <1>2, <1>3, RecallsStay
  <2> QED
    BY <2>5, <2>8, <2>9, <2>10 DEF BooksRight
<1>17. RecallsRight'
  <2>1. \A s \in recalled : clawback'[s].task \in {"reverse", "record", "done", "died"}
    BY <1>10, <1>11 DEF PayInv, TypeOK, RecallsRight
  <2> QED
    BY <1>2, <1>3, <2>1, RecallsKept
<1> QED
  BY <1>10, <1>13, <1>14, <1>15, <1>17, OneClawback

\* What did not come back is written down as a debt.
LEMMA RecordDebtKeeps ==
    ASSUME PayInv, NEW r \in Refunds, RecordDebt(r)
    PROVE  PayInv'
<1>1. PICK l, short : l = LineOf(r) /\ short = clawback[r].short
  OBVIOUS
<1>2. /\ clawback[r].task = "record"
      /\ UNCHANGED <<matured, refund, payout, item, transfer, clerk, crossed, twice, unheard, forgiven, recalled>>
  BY DEF RecordDebt, histories
<1>3. /\ refund[r].status = "SUCCEEDED" /\ l \in Lines /\ item[l].payout # NoPayout /\ item[l].reversed
      /\ LineOf(r)' = l /\ short \in Nat
  <2>1. short \in Nat
    BY <1>1 DEF PayInv, TypeOK, Clawback
  <2> QED
    BY <1>1, <1>2, <2>1 DEF PayInv, ClawbacksRight, ClawbackFits, LineOf
<1>4. PICK debt : debt = [line |-> l, cents |-> short, settled |-> FALSE]
  OBVIOUS
<1>5. debt \in Debt /\ debt.cents = short /\ ~debt.settled /\ debts' = Append(debts, debt)
  BY <1>1, <1>3, <1>4 DEF Debt, RecordDebt
<1>6. PICK n \in Nat : n = Len(debts)
  BY DEF PayInv, TypeOK
<1>7. /\ debts' \in Seq(Debt) /\ DOMAIN debts = 1..n /\ DOMAIN debts' = 1..(n + 1)
      /\ debts'[n + 1] = debt /\ \A i \in 1..n : debts'[i] = debts[i]
  BY <1>5, <1>6 DEF PayInv, TypeOK
<1>8. PICK row : row = [task |-> "done", short |-> 0]
  OBVIOUS
<1>9. row \in Clawback /\ row.task = "done" /\ clawback' = [clawback EXCEPT ![r] = row]
  BY <1>8 DEF RecordDebt, Clawback
<1>10. clawback'[r] = row
  BY <1>9 DEF PayInv, TypeOK
<1>11. OthersStand
  <2>1. \A k \in Lines : item'[k].reversed => item[k].reversed \/ item[k].payout # NoPayout
    BY <1>2
  <2>2. DOMAIN debts \subseteq DOMAIN debts' /\ \A i \in DOMAIN debts : debts'[i].cents = debts[i].cents
    BY <1>7
  <2> QED
    BY <1>2, <1>7, <2>1, <2>2 DEF OthersStand, PayInv, TypeOK
<1>12. ClawbackFits(r)'
  BY <1>2, <1>3, <1>9, <1>10 DEF ClawbackFits, NoPayout
<1>13. BooksRight'
  <2> SUFFICES ASSUME ~Flawed' PROVE BooksRight'
    BY DEF BooksRight
  <2>1. ~Flawed
    <3>1. clawback[r].task # "died" /\ twice' = twice /\ unheard \subseteq unheard' /\ forgiven \subseteq forgiven'
      BY <1>2
    <3> QED
      BY <1>9, <3>1, DiedStay
  <2>2. /\ Tally(Refunds, Owing) \in Nat /\ Tally(Refunds, Owing') \in Nat
        /\ Tally(Refunds, Owing') + Owing[r] = Tally(Refunds, Owing) + 0
    <3>1. 0 = IF row.task = "reverse" THEN Target(r)
              ELSE IF row.task = "record" THEN row.short ELSE 0
      BY <1>9
    <3>2. refund' = refund /\ 0 \in Nat
      BY <1>2
    <3> QED
      BY <1>9, <3>1, <3>2, OwingChanges
  <2>3. Owing[r] = short
    BY <1>1, <1>2 DEF Owing
  <2>4. Made' = Made /\ Promised' = Promised /\ Back' = Back /\ PaidOut' = PaidOut
    BY <1>2 DEF Made, Promised, Back, Payouts, PaidOut, NoPayout
  <2>5. Tally(Open', Cents') = Tally(Open, Cents) + short
    <3>1. PICK open, new, cents : open = Open /\ new = n + 1 /\ cents = Cents'
      OBVIOUS
    <3>2. Open' = open \cup {new} /\ open \cap {new} = {} /\ open \subseteq 1..n
      BY <1>5, <1>7, <3>1 DEF Open
    <3>3. cents[new] = short /\ \A i \in open : Cents[i] = cents[i]
      BY <1>5, <1>7, <3>1, <3>2 DEF Cents
    <3>4. TypeOK
      BY DEF PayInv
    <3>5. IsFiniteSet(open) /\ IsFiniteSet({new})
      BY <3>1, <3>4, BooksType, FS_Singleton
    <3>6. \A i \in open : Cents[i] \in Nat
      BY <1>7, <3>2, <3>4, BooksType
    <3>7. \A i \in open \cup {new} : cents[i] \in Nat
      BY <1>3, <3>3, <3>6
    <3>8. open \cap {new} = {}
      BY <3>2
    <3>9. Tally(open \cup {new}, cents) = Tally(open, cents) + Tally({new}, cents)
      BY ONLY <3>5, <3>7, <3>8, TallyJoin
    <3>10. cents[new] \in Nat
      BY <1>3, <3>3
    <3>11. Tally({new}, cents) = cents[new]
      BY ONLY <3>10, TallyOne
    <3>12. \A i \in open : Cents[i] = cents[i]
      BY <3>3
    <3>13. Tally(open, Cents) = Tally(open, cents)
      BY ONLY <3>12, TallySame
    <3> QED
      BY <3>1, <3>2, <3>3, <3>9, <3>11, <3>13
  <2>6. Tally(Made, Promised) + Tally(recalled, Targets) =
            Tally(Made, Back) + Tally(Open, Cents) + Tally(Refunds, Owing) + Sum(PaidOut)
    BY <2>1 DEF PayInv, BooksRight
  <2>7. Tally(Made, Promised) + Tally(recalled, Targets) =
            Tally(Made, Back) + Tally(Open', Cents') + Tally(Refunds, Owing') + Sum(PaidOut)
    BY <1>3, <2>2, <2>3, <2>5, <2>6, BooksNat, RecallsNat
  <2>8. Sum(PaidOut)' = Sum(PaidOut)
    BY <2>4 DEF Sum
  <2>9. Tally(recalled', Targets') = Tally(recalled, Targets)
    BY <1>2, RecallsStay
  <2> QED
    BY <1>2, <2>4, <2>7, <2>8, <2>9 DEF BooksRight
<1>14. RecallsRight'
  <2>1. \A s \in recalled : clawback'[s].task \in {"reverse", "record", "done", "died"}
    BY <1>9, <1>10 DEF PayInv, TypeOK, RecallsRight
  <2> QED
    BY <1>2, <2>1, RecallsKept
<1> QED
  BY <1>9, <1>11, <1>12, <1>13, <1>14, OneClawback

-----------------------------------------------------------------------------
\* A line matures: no row of the payouts changes.
LEMMA MaturesKeeps ==
    ASSUME PayInv, NEW l \in Lines, Matures(l)
    PROVE  PayInv'
<1>1. /\ matured' = matured \cup {l} /\ clerk' = clerk
      /\ UNCHANGED <<refund, payout, item, debts, transfer, clawback, crossed, twice, unheard, forgiven, recalled>>
  BY DEF Matures, histories
<1>2. ClerksRight' /\ DOMAIN clerk' = Clerks /\ \A v \in Clerks : clerk'[v] \in Clerk
  BY <1>1, ClerksStay
<1>3. TypeOK'
  BY <1>1, <1>2 DEF PayInv, TypeOK, Refund, Payout, Item, Debt, Transfer, Clerk, Clawback,
     Payouts, NoPayout
<1>4. Made' = Made
  BY <1>1 DEF Made, Payouts
<1>5. MadeRight' /\ TransfersRight' /\ ItemsRight' /\ ClawbacksRight'
  BY <1>1, <1>4 DEF PayInv, MadeRight, TransfersRight, ItemsRight, ClawbacksRight,
     ClawbackFits, LineOf, Payouts, NoPayout
<1>7. RecallsRight'
  <2>1. \A r \in recalled : clawback'[r].task \in {"reverse", "record", "done", "died"}
    BY <1>1 DEF PayInv, RecallsRight
  <2> QED
    BY <1>1, <2>1, RecallsKept
<1>6. BooksRight'
  <2>1. Flawed' = Flawed
    BY <1>1 DEF Flawed, Died
  <2>2. \A r \in Refunds : Owing'[r] = Owing[r]
    BY <1>1 DEF Owing, LineOf, Target, Least
  <2>3. \A q \in Payouts : payout'[q].cents = payout[q].cents /\ transfer'[q].back = transfer[q].back
    BY <1>1
  <2> QED
    BY <1>1, <1>4, <2>1, <2>2, <2>3, BooksKept
<1> QED
  BY <1>2, <1>3, <1>5, <1>6, <1>7 DEF PayInv

\* A refund that has not settled moves, and its clawback begins at most.
LEMMA OneRefund ==
    ASSUME PayInv, NEW r \in Refunds, refund[r].status # "SUCCEEDED",
           NEW row \in Refund, refund' = [refund EXCEPT ![r] = row],
           NEW claw \in Clawback, clawback' = [clawback EXCEPT ![r] = claw],
           \/ claw.task = "none"
           \/ claw.task = "done" /\ row.status = "SUCCEEDED" /\ row.line = NoLine
           \/ claw.task = "find" /\ row.status = "SUCCEEDED" /\ row.line # NoLine,
           UNCHANGED <<matured, payout, item, debts, transfer, clerk, crossed, twice, unheard, forgiven, recalled>>
    PROVE  PayInv'
<1>1. /\ refund' \in [Refunds -> Refund] /\ refund'[r] = row
      /\ clawback' \in [Refunds -> Clawback] /\ clawback'[r] = claw
      /\ \A s \in Refunds \ {r} : refund'[s] = refund[s] /\ clawback'[s] = clawback[s]
  BY DEF PayInv, TypeOK
<1>2. clawback[r].task = "none"
  BY DEF PayInv, ClawbacksRight, ClawbackFits
<1>3. ClerksRight' /\ DOMAIN clerk' = Clerks /\ \A v \in Clerks : clerk'[v] \in Clerk
  BY ClerksStay
<1>4. TypeOK'
  BY <1>1, <1>3 DEF PayInv, TypeOK, Refund, Payout, Item, Debt, Transfer, Clerk, Clawback,
     Payouts, NoPayout
<1>5. Made' = Made
  BY DEF Made, Payouts
<1>6. MadeRight' /\ TransfersRight' /\ ItemsRight'
  BY <1>5 DEF PayInv, MadeRight, TransfersRight, ItemsRight, Payouts, NoPayout
<1>10. \A s \in recalled : refund'[s] = refund[s] /\ clawback'[s] = clawback[s]
  <2>1. r \notin recalled /\ recalled \subseteq Refunds
    BY DEF PayInv, TypeOK, RecallsRight
  <2> QED
    BY <1>1, <2>1
<1>7. RecallsRight'
  <2>1. \A s \in recalled : clawback'[s].task \in {"reverse", "record", "done", "died"}
    BY <1>10 DEF PayInv, RecallsRight
  <2> QED
    BY <1>10, <2>1, RecallsKept
<1>8. ClawbacksRight'
  <2>1. ASSUME NEW s \in Refunds PROVE ClawbackFits(s)'
    <3>1. CASE s = r
      <4>1. LineOf(s)' = row.line /\ row.line \in Lines \cup {NoLine}
        BY <1>1, <3>1 DEF LineOf, Refund
      <4> QED
        BY <1>1, <3>1, <4>1 DEF ClawbackFits
    <3>2. CASE s # r
      <4>1. LineOf(s)' = LineOf(s) /\ refund'[s] = refund[s] /\ clawback'[s] = clawback[s]
        BY <1>1, <3>2 DEF LineOf
      <4>2. ClawbackFits(s)
        BY DEF PayInv, ClawbacksRight
      <4> QED
        BY <4>1, <4>2 DEF ClawbackFits, NoPayout
    <3> QED
      BY <3>1, <3>2
  <2> QED
    BY <2>1 DEF ClawbacksRight
<1>9. BooksRight'
  <2>1. Flawed' = Flawed
    <3>1. \A s \in Refunds : clawback'[s].task = "died" <=> clawback[s].task = "died"
      BY <1>1, <1>2
    <3>2. Died' = Died
      BY <3>1 DEF Died
    <3> QED
      BY <3>2 DEF Flawed
  <2>2. \A s \in Refunds : Owing'[s] = Owing[s]
    <3>1. ASSUME NEW s \in Refunds PROVE Owing'[s] = Owing[s]
      <4>1. CASE s = r
        BY <1>1, <1>2, <4>1 DEF Owing
      <4>2. CASE s # r
        <5>1. Target(s)' = Target(s) /\ clawback'[s] = clawback[s]
          BY <1>1, <4>2 DEF LineOf, Target, Least
        <5> QED
          BY <5>1 DEF Owing
      <4> QED
        BY <4>1, <4>2
    <3> QED
      BY <3>1
  <2>3. \A q \in Payouts : payout'[q].cents = payout[q].cents /\ transfer'[q].back = transfer[q].back
    OBVIOUS
  <2> QED
    BY <1>5, <1>10, <2>1, <2>2, <2>3, BooksKept
<1> QED
  BY <1>3, <1>4, <1>6, <1>7, <1>8, <1>9 DEF PayInv

\* A refund begins: of any amount there is headroom for.
LEMMA RefundBeginsKeeps ==
    ASSUME PayInv, NEW r \in Refunds, NEW l \in Lines \cup {NoLine}, RefundBegins(r, l)
    PROVE  PayInv'
<1>1. PICK cents \in 1..Headroom :
        refund' = [refund EXCEPT ![r] = [status |-> "PENDING", line |-> l, cents |-> cents]]
  BY DEF RefundBegins
<1>2. PICK row : row = [status |-> "PENDING", line |-> l, cents |-> cents]
  OBVIOUS
<1>3. refund[r].status = "NONE" /\ refund' = [refund EXCEPT ![r] = row]
      /\ UNCHANGED <<matured, payout, item, debts, transfer, clerk, clawback, crossed, twice, unheard, forgiven, recalled>>
  BY <1>1, <1>2 DEF RefundBegins, histories
<1>4. cents \in Nat
  BY <1>1
<1>5. row \in Refund /\ row.status = "PENDING"
  BY <1>2, <1>4 DEF Refund
<1>6. PICK claw : claw = clawback[r]
  OBVIOUS
<1>7. claw \in Clawback /\ claw.task = "none" /\ clawback' = [clawback EXCEPT ![r] = claw]
  BY <1>3, <1>6 DEF PayInv, TypeOK, ClawbacksRight, ClawbackFits
<1> QED
  BY <1>3, <1>5, <1>7, OneRefund

\* A refund fails, or settles and starts its clawback.
LEMMA RefundEndsKeeps ==
    ASSUME PayInv, NEW r \in Refunds, RefundFails(r) \/ RefundSettles(r)
    PROVE  PayInv'
<1>1. refund[r] \in Refund /\ DOMAIN refund = Refunds
  BY DEF PayInv, TypeOK
<1>2. /\ refund[r].status = "PENDING"
      /\ UNCHANGED <<matured, payout, item, debts, transfer, clerk, crossed, twice, unheard, forgiven, recalled>>
  BY DEF RefundFails, RefundSettles, histories
<1>3. clawback[r] \in Clawback /\ DOMAIN clawback = Refunds /\ clawback[r].task = "none"
  BY <1>2 DEF PayInv, TypeOK, ClawbacksRight, ClawbackFits
<1>4. PICK status \in {"FAILED", "SUCCEEDED"}, task \in {"none", "done", "find"} :
        /\ refund' = [refund EXCEPT ![r].status = status]
        /\ clawback' = [clawback EXCEPT ![r].task = task]
        /\ \/ task = "none"
           \/ task = "done" /\ status = "SUCCEEDED" /\ refund[r].line = NoLine
           \/ task = "find" /\ status = "SUCCEEDED" /\ refund[r].line # NoLine
  <2>1. CASE RefundFails(r)
    <3>1. refund' = [refund EXCEPT ![r].status = "FAILED"] /\ clawback' = clawback
      BY <2>1 DEF RefundFails
    <3>2. clawback' = [clawback EXCEPT ![r].task = "none"]
      BY <1>3, <3>1 DEF PayInv, TypeOK, Clawback
    <3> QED
      BY <3>1, <3>2
  <2>2. CASE RefundSettles(r)
    BY <2>2 DEF RefundSettles, ClawsTo
  <2> QED
    BY <2>1, <2>2
<1>5. PICK row, claw : row = [refund[r] EXCEPT !.status = status] /\ claw = [clawback[r] EXCEPT !.task = task]
  OBVIOUS
<1>6. row \in Refund /\ row.status = status
  BY <1>1, <1>5 DEF Refund
<1>7. row.line = refund[r].line
  BY <1>1, <1>5 DEF Refund
<1>8. claw \in Clawback /\ claw.task = task
  BY <1>3, <1>5 DEF Clawback
<1>9. refund' = [refund EXCEPT ![r] = row] /\ clawback' = [clawback EXCEPT ![r] = claw]
  BY <1>4, <1>5
<1>11. \/ claw.task = "none"
       \/ claw.task = "done" /\ row.status = "SUCCEEDED" /\ row.line = NoLine
       \/ claw.task = "find" /\ row.status = "SUCCEEDED" /\ row.line # NoLine
  BY <1>4, <1>6, <1>7, <1>8
<1>12. refund[r].status # "SUCCEEDED" /\ row \in Refund /\ claw \in Clawback
  BY <1>2, <1>6, <1>8
<1>13. UNCHANGED <<matured, payout, item, debts, transfer, clerk, crossed, twice, unheard, forgiven, recalled>>
  BY <1>2
<1> QED
  BY <1>9, <1>11, <1>12, <1>13, OneRefund

-----------------------------------------------------------------------------
\* Every step keeps payouts, decisions and books right.
LEMMA PayStep == PayInv /\ [Next]_vars => PayInv'
<1> SUFFICES ASSUME PayInv, [Next]_vars PROVE PayInv'
  OBVIOUS
<1>1. CASE \E w \in Clerks : ReadPayable(w) \/ ClerkStep(w)
  <2>1. PICK w \in Clerks : ReadPayable(w) \/ ClerkStep(w)
    BY <1>1
  <2>2. CASE \E p \in Payouts : Sending(w, p)
    BY <2>2, SendKeeps, AnsweredKeeps, UnansweredKeeps, SettleKeeps DEF Sending
  <2> QED
    BY <2>1, <2>2, ReadPayableKeeps, ReadDebtsKeeps, ClaimPayoutKeeps, ClerkDiesKeeps DEF ClerkStep
<1>2. CASE \E w \in Clerks, p \in Payouts : Sweep(w, p)
  BY <1>2, SweepKeeps
<1>3. CASE Clawing
  BY <1>3, FindKeeps, ClaimReversalKeeps, ReverseKeeps, RecordDebtKeeps, ClawbackDiesKeeps DEF Clawing
<1>4. CASE Elsewhere
  BY <1>4, MaturesKeeps, RefundBeginsKeeps, RefundEndsKeeps DEF Elsewhere
<1>5. CASE UNCHANGED vars
  <2>1. UNCHANGED <<matured, refund, payout, item, debts, transfer, clerk, clawback,
                    crossed, twice, unheard, forgiven, recalled>>
    BY <1>5 DEF vars, rows, histories
  <2>2. UNCHANGED <<rows, clawback, histories>>
    BY <2>1 DEF rows, histories
  <2>3. ClerksRight' /\ TypeOK' /\ Made' = Made
    <3>1. ClerksRight' /\ DOMAIN clerk' = Clerks /\ \A v \in Clerks : clerk'[v] \in Clerk
      BY <2>1, ClerksStay
    <3> QED
      BY <2>1, <3>1 DEF PayInv, TypeOK, Refund, Payout, Item, Debt, Transfer, Clerk, Clawback,
         Payouts, NoPayout, Made
  <2>4. MadeRight' /\ TransfersRight' /\ ItemsRight' /\ ClawbacksRight'
    BY <2>1, <2>3 DEF PayInv, MadeRight, TransfersRight, ItemsRight, ClawbacksRight,
       ClawbackFits, LineOf, Payouts, NoPayout
  <2>6. RecallsRight'
    <3>1. \A r \in recalled : clawback'[r].task \in {"reverse", "record", "done", "died"}
      BY <2>1 DEF PayInv, RecallsRight
    <3> QED
      BY <2>1, <3>1, RecallsKept
  <2>5. BooksRight'
    <3>1. Flawed' = Flawed
      BY <2>1 DEF Flawed, Died
    <3>2. \A r \in Refunds : Owing'[r] = Owing[r]
      BY <2>1 DEF Owing, LineOf, Target, Least
    <3>3. \A q \in Payouts : payout'[q].cents = payout[q].cents /\ transfer'[q].back = transfer[q].back
      BY <2>1
    <3> QED
      BY <2>1, <2>3, <3>1, <3>2, <3>3, BooksKept
  <2> QED
    BY <2>3, <2>4, <2>5, <2>6 DEF PayInv
<1> QED
  BY <1>1, <1>2, <1>3, <1>4, <1>5 DEF Next

\* What payouts promise, less what came back and what is still owed, is what
\* the lines not taken back are worth.
LEMMA BooksFromInv == PayInv => PayoutsInv
<1> SUFFICES ASSUME PayInv PROVE PayoutsInv
  OBVIOUS
<1>1. RefundedIsTakenBack /\ RecalledOnce
  <2>1. \A r \in Refunds : LineOf(r) \in Lines \cup {NoLine}
    BY DEF PayInv, TypeOK, Refund, LineOf
  <2> QED
    BY <2>1 DEF RefundedIsTakenBack, PayInv, ClawbacksRight, ClawbackFits, RecallsRight
<1>2. BooksBalance
  <2> SUFFICES ASSUME Quiet, twice = {}, unheard = {}, forgiven = {} PROVE Books
    BY DEF BooksBalance
  <2>1. Died = {}
    BY DEF Quiet, Died
  <2>2. \A r \in Refunds : Owing[r] = 0
    BY DEF Quiet, Owing
  <2>3. Tally(Refunds, Owing) = 0
    BY <2>2, TallyNothing
  <2>4. Tally(Made, Promised) + Tally(recalled, Targets) =
            Tally(Made, Back) + Tally(Open, Cents) + Tally(Refunds, Owing) + Sum(PaidOut)
    BY <2>1 DEF PayInv, BooksRight, Flawed
  <2>5. Tally(Made, Promised) - Tally(Made, Back) - Tally(Open, Cents)
            = Sum(PaidOut) - Tally(recalled, Targets)
    BY <2>3, <2>4, BooksNat, RecallsNat
  <2> QED
    BY <2>5 DEF Books
<1> QED
  BY <1>1, <1>2 DEF PayoutsInv, PayInv

\* Whatever lines, refunds, payouts and clerks there are, what is refunded is
\* taken back and the books of the payouts balance (payouts.ts:645).
THEOREM PayoutsBalance == Spec => []PayoutsInv
<1> QED
  BY PayStart, PayStep, BooksFromInv, PTL DEF Spec

\* A payout's money leaves at most once, and its row ends as the provider
\* decided, whoever sends it, however often and whatever answers are lost.
THEOREM PayoutsSettleAsDecided == Spec => []SettledAsDecided
<1>1. PayInv => SettledAsDecided
  BY DEF PayInv, TransfersRight, SettledAsDecided
<1> QED
  BY <1>1, PayStart, PayStep, PTL DEF Spec

-----------------------------------------------------------------------------
(***************************************************************************)
(* The payout account                                                      *)
(***************************************************************************)

Standings == [details : BOOLEAN, enabled : BOOLEAN, version : 0..MaxChanges]
Notices == [account : AccountIds, said : Standings]
Days == {Never, 1, 2}
HandJobs ==
    [task : {"create"}] \cup [task : {"store"}, id : AccountIds]
    \cup [task : {"ask"}, id : AccountIds, day : Days]
    \cup [task : {"write"}, said : Standings, notice : SUBSET Notices, day : Days]

AccountShape ==
    /\ created \in 0..MaxAccounts /\ connectAccountId \in 0..created
    /\ payoutsReady \in BOOLEAN /\ twofold \in BOOLEAN /\ outdated \in BOOLEAN
    /\ overlapped \in BOOLEAN /\ moved \in BOOLEAN
    /\ connectOnboardedAt \in Days /\ today \in {1, 2}
    /\ changes \in 0..MaxChanges /\ newest \in 0..MaxChanges
    /\ linked \subseteq 1..created
    /\ standing \in [AccountIds -> Standings]
    /\ notices \subseteq Notices /\ \A n \in notices : n.account \in linked
    /\ hand \in [Hands -> {Empty} \cup HandJobs]

\* What a hand holds refers to accounts there are, and a write repeats what the
\* notice it answers said.
HandRight(h) ==
    LET x == hand[h]
    IN  /\ x.task = "store" => x.id <= created
        /\ x.task = "ask" => x.id <= created /\ connectAccountId # NoId
        /\ x.task = "write" => connectAccountId # NoId /\ \A n \in x.notice : n.said = x.said
HandsRight == \A h \in Hands : HandRight(h)

\* While no two hands connect at once, and none dies half way, one account is
\* made, by the one who found none.
Connects(h) == hand[h].task \in {"create", "store"}
OneConnects ==
    /\ \A h, k \in Hands : Connects(h) /\ Connects(k) => h = k
    /\ created <= 1
    /\ \A h \in Hands : hand[h].task = "create" => created = 0
    /\ created = 1 => connectAccountId = 1 \/ \E h \in Hands : hand[h].task = "store"
    /\ linked # {} => connectAccountId # NoId

\* What was said tells its version; what the provider said last is on its way,
\* or was written, and then nothing older comes over it unseen.
SaidOf(said) == said.version <= changes /\ (said.version = changes => said = standing[1])
LastSaid ==
    /\ newest <= changes
    /\ \A n \in notices : SaidOf(n.said)
    /\ \A h \in Hands : hand[h].task = "write" => SaidOf(hand[h].said)
    /\ SaidOf(standing[1])
    /\ newest = changes => payoutsReady = standing[1].enabled
    /\ ~outdated => newest = changes \/ \E n \in notices : n.said.version = changes

\* What a hand read of the day of onboarding is still so when it writes.
DayStands == \A h \in Hands : hand[h].task \in {"ask", "write"} => hand[h].day = connectOnboardedAt

AccountIInv ==
    /\ AccountShape /\ HandsRight
    /\ connectAccountId = NoId => ~payoutsReady
    /\ ~twofold => OneConnects /\ LastSaid
    /\ ~overlapped => DayStands /\ ~moved

-----------------------------------------------------------------------------
LEMMA AccountFollows == AccountIInv => PayoutAccountInv
<1> SUFFICES ASSUME AccountIInv PROVE PayoutAccountInv
  OBVIOUS
<1>1. PayoutAccountTypeOK
  BY DEF AccountIInv, AccountShape, PayoutAccountTypeOK, Days
<1>2. OneAccount
  <2>1. ~twofold => created <= 1 /\ created \in 0..MaxAccounts
    BY DEF AccountIInv, AccountShape, OneConnects
  <2> QED BY <2>1, PayoutAccountAssumption DEF OneAccount
<1>3. ReadyAsSaid
  <2> SUFFICES ASSUME notices = {}, \A h \in Hands : hand[h] = Empty, ~twofold, ~outdated
               PROVE  /\ connectAccountId # NoId => payoutsReady = standing[connectAccountId].enabled
                      /\ connectAccountId = NoId => ~payoutsReady
    BY DEF ReadyAsSaid
  <2>1. LastSaid /\ OneConnects
    BY DEF AccountIInv
  <2>2. payoutsReady = standing[1].enabled
    BY <2>1 DEF LastSaid
  <2>3. connectAccountId # NoId => connectAccountId = 1
    BY <2>1, PayoutAccountAssumption DEF AccountIInv, AccountShape, OneConnects, NoId
  <2> QED BY <2>2, <2>3 DEF AccountIInv
<1>4. OnboardedOnce
  BY DEF AccountIInv, OnboardedOnce
<1> QED BY <1>1, <1>2, <1>3, <1>4 DEF PayoutAccountInv

LEMMA AccountStarts == PayoutAccountInit => AccountIInv
<1> SUFFICES ASSUME PayoutAccountInit PROVE AccountIInv
  OBVIOUS
<1>1. \A h \in Hands : hand[h] = Empty /\ hand[h].task = "idle"
  BY DEF PayoutAccountInit, Empty
<1>2. 1 \in AccountIds /\ 0 \in 0..MaxChanges /\ 0 \in 0..MaxAccounts
  BY PayoutAccountAssumption DEF AccountIds
<1>3. Untold \in Standings /\ Untold.version = 0 /\ Untold.enabled = FALSE
  BY <1>2 DEF Untold, Standings
<1>4. standing \in [AccountIds -> Standings] /\ standing[1] = Untold
  BY <1>2, <1>3 DEF PayoutAccountInit
<1>5. AccountShape
  <2>1. hand \in [Hands -> {Empty} \cup HandJobs]
    BY DEF PayoutAccountInit
  <2>2. created = 0 /\ connectAccountId = 0 /\ changes = 0 /\ newest = 0 /\ today = 1
        /\ connectOnboardedAt = 0 /\ linked = {} /\ notices = {}
        /\ payoutsReady = FALSE /\ twofold = FALSE /\ outdated = FALSE
        /\ overlapped = FALSE /\ moved = FALSE
    BY DEF PayoutAccountInit, Never, NoId
  <2>3. connectAccountId \in 0..created
    BY <2>2
  <2> QED BY <1>2, <1>4, <2>1, <2>2, <2>3 DEF AccountShape, Never, Days
<1>6. HandsRight
  BY <1>1 DEF HandsRight, HandRight
<1>7. OneConnects
  BY <1>1 DEF OneConnects, PayoutAccountInit, Connects
<1>8. LastSaid
  <2>1. newest = 0 /\ changes = 0 /\ notices = {} /\ payoutsReady = standing[1].enabled
    BY <1>3, <1>4 DEF PayoutAccountInit
  <2>2. SaidOf(standing[1])
    BY <1>3, <1>4, <2>1 DEF SaidOf
  <2>3. \A h \in Hands : hand[h].task # "write"
    BY <1>1
  <2> QED BY <2>1, <2>2, <2>3 DEF LastSaid
<1>9. DayStands
  BY <1>1 DEF DayStands
<1> QED BY <1>5, <1>6, <1>7, <1>8, <1>9 DEF AccountIInv, PayoutAccountInit

\* One hand takes something up or puts it down.
LEMMA HandChanges ==
    ASSUME AccountShape, NEW h \in Hands, NEW x, hand' = [hand EXCEPT ![h] = x]
    PROVE  hand'[h] = x /\ \A k \in Hands : k # h => hand'[k] = hand[k]
BY DEF AccountShape

LEMMA HandIs ==
    ASSUME AccountShape, NEW h \in Hands
    PROVE  /\ hand[h].task = "store" => hand[h].id \in AccountIds
           /\ hand[h].task = "ask" => hand[h].id \in AccountIds /\ hand[h].day \in Days
           /\ hand[h].task = "write" => /\ hand[h].said \in Standings /\ hand[h].day \in Days
                                        /\ hand[h].notice \subseteq Notices
BY DEF AccountShape, HandJobs, Empty

\* The frame: what the hands leave alone of the provider and the profile.
LEMMA ProviderStays ==
    ASSUME AccountShape, UNCHANGED <<connectAccountId, created, standing, changes, linked>>,
           {payoutsReady', twofold', outdated', overlapped', moved'} \subseteq BOOLEAN,
           connectOnboardedAt' \in Days, today' \in {1, 2}, newest' \in 0..MaxChanges,
           notices' \subseteq notices, hand' \in [Hands -> {Empty} \cup HandJobs]
    PROVE  AccountShape'
BY DEF AccountShape, Standings, Notices, AccountIds, HandJobs, Days

LEMMA AccountConnect ==
    ASSUME AccountIInv, NEW h \in Hands, Connect(h) PROVE AccountIInv'
<1>1. /\ UNCHANGED <<connectAccountId, payoutsReady, connectOnboardedAt, created, standing, changes,
                     outdated, newest, overlapped, moved, today, notices>>
      /\ twofold' = (twofold \/ OthersAt(h, {"create", "store"}))
  BY DEF Connect, profileVars
<1>2. AccountShape /\ HandsRight
  BY DEF AccountIInv
<1>3. twofold' \in BOOLEAN
  BY <1>1, <1>2 DEF AccountShape
<1>4. CASE connectAccountId = NoId
  <2>1. PICK x : x = [task |-> "create"]
    OBVIOUS
  <2>2. x \in HandJobs /\ x.task = "create"
    BY <2>1 DEF HandJobs
  <2>3. hand[h] = Empty /\ hand' = [hand EXCEPT ![h] = x] /\ linked' = linked
    BY <1>4, <2>1 DEF Connect, NeedsOne, TakesUp
  <2>4. hand'[h] = x /\ \A k \in Hands : k # h => hand'[k] = hand[k]
    BY <1>2, <2>3, HandChanges
  <2>5. AccountShape'
    <3>1. hand' \in [Hands -> {Empty} \cup HandJobs]
      BY <1>2, <2>2, <2>3 DEF AccountShape
    <3> QED BY <1>1, <1>2, <1>3, <2>3, <3>1, ProviderStays DEF AccountShape
  <2>6. HandsRight'
    BY <1>1, <1>2, <2>2, <2>4 DEF HandsRight, HandRight
  <2>7. ASSUME ~twofold' PROVE OneConnects' /\ LastSaid'
    <3>1. OneConnects /\ LastSaid /\ \A k \in Hands : k # h => ~Connects(k)
      BY <1>1, <2>7 DEF AccountIInv, OthersAt, Connects
    <3>2. hand[h].task = "idle"
      BY <2>3 DEF Empty
    <3>3. \A k \in Hands : hand[k].task # "store"
      BY <3>1, <3>2 DEF Connects
    <3>4. created = 0
      BY <1>2, <1>4, <3>1, <3>3, PayoutAccountAssumption DEF OneConnects, AccountShape, NoId
    <3>5. OneConnects'
      BY <1>1, <2>2, <2>3, <2>4, <3>1, <3>4 DEF OneConnects, Connects
    <3>6. LastSaid'
      BY <1>1, <2>2, <2>4, <3>1 DEF LastSaid, SaidOf
    <3> QED BY <3>5, <3>6
  <2>8. ~overlapped' => DayStands' /\ ~moved'
    BY <1>1, <2>2, <2>4 DEF AccountIInv, DayStands
  <2> QED BY <1>1, <2>5, <2>6, <2>7, <2>8 DEF AccountIInv
<1>5. CASE connectAccountId # NoId
  <2>1. hand' = hand /\ linked' = linked \cup {connectAccountId}
    BY <1>5 DEF Connect, NeedsOne, Link
  <2>2. connectAccountId \in 1..created
    BY <1>2, <1>5, PayoutAccountAssumption DEF AccountShape, NoId
  <2>3. AccountShape'
    BY <1>1, <1>2, <1>3, <2>1, <2>2
       DEF AccountShape, Standings, Notices, AccountIds, HandJobs, Days
  <2>4. HandsRight'
    BY <1>1, <1>2, <2>1 DEF HandsRight, HandRight
  <2>5. ~twofold' => OneConnects' /\ LastSaid'
    BY <1>1, <1>5, <2>1 DEF AccountIInv, OneConnects, LastSaid, SaidOf, Connects
  <2>6. ~overlapped' => DayStands' /\ ~moved'
    BY <1>1, <2>1 DEF AccountIInv, DayStands
  <2> QED BY <1>1, <2>3, <2>4, <2>5, <2>6 DEF AccountIInv
<1> QED BY <1>4, <1>5

LEMMA AccountCreate ==
    ASSUME AccountIInv, NEW h \in Hands, CreateAccount(h) PROVE AccountIInv'
<1>1. /\ hand[h].task = "create" /\ created < MaxAccounts /\ created' = created + 1
      /\ UNCHANGED <<connectAccountId, payoutsReady, connectOnboardedAt, standing, changes, linked,
                     twofold, outdated, newest, overlapped, moved, today, notices>>
  BY DEF CreateAccount, profileVars, accountHistory
<1>2. AccountShape /\ HandsRight
  BY DEF AccountIInv
<1>3. PICK x : x = [task |-> "store", id |-> created + 1]
  OBVIOUS
<1>4. created \in Nat /\ created + 1 \in AccountIds /\ created + 1 \in 0..MaxAccounts
  BY <1>1, <1>2, PayoutAccountAssumption DEF AccountShape, AccountIds
<1>5. x \in HandJobs /\ x.task = "store" /\ x.id = created + 1
  BY <1>3, <1>4 DEF HandJobs
<1>6. hand' = [hand EXCEPT ![h] = x]
  BY <1>3 DEF CreateAccount, Becomes
<1>7. hand'[h] = x /\ \A k \in Hands : k # h => hand'[k] = hand[k]
  BY <1>2, <1>6, HandChanges
<1>8. AccountShape'
  <2>1. hand' \in [Hands -> {Empty} \cup HandJobs]
    BY <1>2, <1>5, <1>6 DEF AccountShape
  <2>2. connectAccountId \in 0..created' /\ linked \subseteq 1..created'
    BY <1>1, <1>2, <1>4 DEF AccountShape
  <2> QED BY <1>1, <1>2, <1>4, <2>1, <2>2
             DEF AccountShape, Standings, Notices, AccountIds, HandJobs, Days
<1>9. HandsRight'
  <2> SUFFICES ASSUME NEW k \in Hands PROVE HandRight(k)'
    BY DEF HandsRight
  <2>1. CASE k = h
    BY <1>1, <1>4, <1>5, <1>7, <2>1 DEF HandRight
  <2>2. CASE k # h
    <3>1. HandRight(k) /\ hand'[k] = hand[k]
      BY <1>2, <1>7, <2>2 DEF HandsRight
    <3>2. hand[k].task \in {"store", "ask"} => hand[k].id \in Nat
      BY <1>2, <1>4, HandIs DEF AccountIds
    <3> QED BY <1>1, <1>4, <3>1, <3>2 DEF HandRight
  <2> QED BY <2>1, <2>2
<1>10. ASSUME ~twofold PROVE OneConnects' /\ LastSaid'
  <2>1. OneConnects /\ LastSaid
    BY <1>10 DEF AccountIInv
  <2>2. created = 0 /\ created' = 1
    BY <1>1, <2>1 DEF OneConnects
  <2>3. \A k \in Hands : Connects(k)' <=> Connects(k)
    BY <1>1, <1>5, <1>7 DEF Connects
  <2>4. \A k \in Hands : hand'[k].task # "create"
    BY <1>1, <1>5, <1>7, <2>1 DEF OneConnects, Connects
  <2>5. OneConnects'
    BY <1>1, <1>5, <1>7, <2>1, <2>2, <2>3, <2>4 DEF OneConnects
  <2>6. LastSaid'
    BY <1>1, <1>5, <1>7, <2>1 DEF LastSaid, SaidOf
  <2> QED BY <2>5, <2>6
<1>11. ~overlapped' => DayStands' /\ ~moved'
  BY <1>1, <1>5, <1>7 DEF AccountIInv, DayStands
<1> QED BY <1>1, <1>8, <1>9, <1>10, <1>11 DEF AccountIInv

LEMMA AccountStore ==
    ASSUME AccountIInv, NEW h \in Hands, StoreAccount(h) PROVE AccountIInv'
<1>1. PICK id : id = hand[h].id
  OBVIOUS
<1>2. /\ hand[h].task = "store" /\ connectAccountId' = id /\ linked' = linked \cup {id}
      /\ hand' = [hand EXCEPT ![h] = Empty]
      /\ UNCHANGED <<payoutsReady, connectOnboardedAt, created, standing, changes,
                     twofold, outdated, newest, overlapped, moved, today, notices>>
  BY <1>1 DEF StoreAccount, Link, Drops, accountHistory
<1>3. AccountShape /\ HandsRight
  BY DEF AccountIInv
<1>4. id \in 1..created /\ id # NoId /\ id \in 0..created
  <2>1. id \in AccountIds /\ id <= created
    BY <1>1, <1>2, <1>3, HandIs DEF HandsRight, HandRight
  <2> QED BY <1>3, <2>1, PayoutAccountAssumption DEF AccountShape, AccountIds, NoId
<1>5. hand'[h] = Empty /\ \A k \in Hands : k # h => hand'[k] = hand[k]
  BY <1>2, <1>3, HandChanges
<1>6. Empty.task = "idle"
  BY DEF Empty
<1>7. AccountShape'
  BY <1>2, <1>3, <1>4 DEF AccountShape, Standings, Notices, AccountIds, HandJobs, Days
<1>8. HandsRight'
  BY <1>2, <1>3, <1>4, <1>5, <1>6 DEF HandsRight, HandRight
<1>9. ASSUME ~twofold PROVE OneConnects' /\ LastSaid'
  <2>1. OneConnects /\ LastSaid
    BY <1>9 DEF AccountIInv
  <2>2. id = 1
    BY <1>3, <1>4, <2>1, PayoutAccountAssumption DEF OneConnects, AccountShape
  <2>3. OneConnects'
    BY <1>2, <1>4, <1>5, <1>6, <2>1, <2>2 DEF OneConnects, Connects
  <2>4. LastSaid'
    BY <1>2, <1>5, <1>6, <2>1 DEF LastSaid, SaidOf
  <2> QED BY <2>3, <2>4
<1>10. ~overlapped' => DayStands' /\ ~moved'
  BY <1>2, <1>5, <1>6 DEF AccountIInv, DayStands
<1> QED BY <1>2, <1>4, <1>7, <1>8, <1>9, <1>10 DEF AccountIInv

\* The provider changes its mind: the notice says so, and is the newest.
LEMMA AccountChanges ==
    ASSUME AccountIInv, NEW a \in AccountIds, NEW details \in BOOLEAN, NEW enabled \in BOOLEAN,
           Changes(a, details, enabled)
    PROVE  AccountIInv'
<1>1. PICK s : s = [details |-> details, enabled |-> enabled, version |-> changes']
  OBVIOUS
<1>2. PICK n : n = [account |-> a, said |-> s]
  OBVIOUS
<1>3. AccountShape /\ HandsRight
  BY DEF AccountIInv
<1>4. /\ a \in linked /\ changes < MaxChanges /\ changes' = changes + 1
      /\ standing' = [standing EXCEPT ![a] = s]
      /\ UNCHANGED <<connectAccountId, payoutsReady, connectOnboardedAt, created, linked,
                     twofold, outdated, newest, overlapped, moved, today, hand>>
  BY <1>1 DEF Changes, profileVars, accountHistory
<1>5. changes \in Nat /\ changes' \in 0..MaxChanges
  BY <1>3, <1>4, PayoutAccountAssumption DEF AccountShape
<1>6. s \in Standings /\ s.version = changes' /\ n \in Notices /\ n.account = a /\ n.said = s
  BY <1>1, <1>2, <1>5 DEF Standings, Notices
<1>7. notices' = notices \cup {n}
  <2>1. standing'[a] = s
    BY <1>3, <1>4 DEF AccountShape
  <2> QED BY <1>2, <2>1 DEF Changes
<1>8. AccountShape'
  BY <1>3, <1>4, <1>5, <1>6, <1>7 DEF AccountShape, Standings, Notices, AccountIds, HandJobs, Days
<1>9. HandsRight'
  BY <1>3, <1>4 DEF HandsRight, HandRight
<1>10. ASSUME ~twofold PROVE OneConnects' /\ LastSaid'
  <2>1. OneConnects /\ LastSaid
    BY <1>10 DEF AccountIInv
  <2>2. a = 1
    BY <1>3, <1>4, <2>1, PayoutAccountAssumption DEF AccountShape, OneConnects
  <2>3. OneConnects'
    BY <1>4, <2>1 DEF OneConnects, Connects
  <2>4. standing'[1] = s
    BY <1>3, <1>4, <2>2 DEF AccountShape
  <2>5. \A m \in notices : m.said.version <= changes /\ m.said.version \in Nat
    BY <1>3, <2>1, PayoutAccountAssumption DEF LastSaid, SaidOf, AccountShape, Notices, Standings
  <2>6. \A k \in Hands : hand[k].task = "write" =>
            hand[k].said.version <= changes /\ hand[k].said.version \in Nat
    BY <1>3, <2>1, HandIs, PayoutAccountAssumption DEF LastSaid, SaidOf, Standings
  <2>7. \A m \in notices' : SaidOf(m.said)'
    <3>1. \A m \in notices : SaidOf(m.said)'
      BY <1>4, <1>5, <2>5 DEF SaidOf
    <3>2. SaidOf(n.said)'
      BY <1>5, <1>6, <2>4 DEF SaidOf
    <3> QED BY <1>7, <3>1, <3>2
  <2>8. \A k \in Hands : hand'[k].task = "write" => SaidOf(hand[k].said)'
    <3> SUFFICES ASSUME NEW k \in Hands, hand[k].task = "write" PROVE SaidOf(hand[k].said)'
      BY <1>4
    <3>1. hand[k].said.version <= changes /\ hand[k].said.version \in Nat
      BY <2>6
    <3> QED BY <1>4, <1>5, <3>1 DEF SaidOf
  <2>9. SaidOf(standing[1])'
    BY <1>5, <1>6, <2>4 DEF SaidOf
  <2>10. newest' < changes'
    BY <1>3, <1>4, <1>5, <2>1, PayoutAccountAssumption DEF LastSaid, AccountShape
  <2>11. newest' <= changes' /\ newest' # changes'
    BY <1>3, <1>4, <1>5, <2>10 DEF AccountShape
  <2>12. \E m \in notices' : m.said.version = changes'
    BY <1>6, <1>7
  <2>13. LastSaid'
    BY <1>4, <2>7, <2>8, <2>9, <2>11, <2>12 DEF LastSaid, SaidOf
  <2> QED BY <2>3, <2>13
<1>11. ~overlapped' => DayStands' /\ ~moved'
  BY <1>4 DEF AccountIInv, DayStands
<1> QED BY <1>4, <1>8, <1>9, <1>10, <1>11 DEF AccountIInv

\* A hand reads, and does not write: what it takes up says what is, or repeats
\* a notice, and the day as it stands.
LEMMA HandReads ==
    ASSUME AccountIInv, NEW h \in Hands, NEW x \in HandJobs \cup {Empty},
           x.task \in {"idle", "ask", "write"},
           hand' = [hand EXCEPT ![h] = x],
           x.task \in {"ask", "write"} =>
               connectAccountId # NoId /\ (~overlapped => x.day = connectOnboardedAt),
           x.task = "ask" => x.id <= created,
           x.task = "write" =>
               (\A n \in x.notice : n.said = x.said) /\ (~twofold => SaidOf(x.said)),
           hand[h].task = "store" => twofold',
           twofold => twofold', twofold' \in BOOLEAN,
           UNCHANGED <<connectAccountId, payoutsReady, connectOnboardedAt, created, standing,
                       changes, linked, outdated, newest, overlapped, moved, today, notices>>
    PROVE  AccountIInv'
<1>1. AccountShape /\ HandsRight
  BY DEF AccountIInv
<1>2. hand'[h] = x /\ \A k \in Hands : k # h => hand'[k] = hand[k]
  BY <1>1, HandChanges
<1>3. AccountShape'
  <2>1. hand' \in [Hands -> {Empty} \cup HandJobs]
    BY <1>1 DEF AccountShape
  <2> QED BY <1>1, <2>1, ProviderStays DEF AccountShape
<1>4. HandsRight'
  BY <1>1, <1>2 DEF HandsRight, HandRight
<1>5. ASSUME ~twofold' PROVE OneConnects' /\ LastSaid'
  <2>1. OneConnects /\ LastSaid /\ hand[h].task # "store" /\ ~twofold
    BY <1>5 DEF AccountIInv
  <2>2. \A k \in Hands : Connects(k)' => Connects(k) /\ hand'[k] = hand[k]
    BY <1>2 DEF Connects
  <2>3. OneConnects'
    BY <1>2, <2>1, <2>2 DEF OneConnects, Connects
  <2>4. LastSaid'
    BY <1>2, <2>1 DEF LastSaid, SaidOf
  <2> QED BY <2>3, <2>4
<1>6. ~overlapped' => DayStands' /\ ~moved'
  BY <1>2 DEF AccountIInv, DayStands
<1> QED BY <1>3, <1>4, <1>5, <1>6 DEF AccountIInv

LEMMA AccountHear ==
    ASSUME AccountIInv, NEW h \in Hands, NEW n \in notices, Hear(h, n) PROVE AccountIInv'
<1>1. UNCHANGED <<connectAccountId, payoutsReady, connectOnboardedAt, created, standing, changes,
                  linked, twofold, outdated, newest, overlapped, moved, today>>
  BY DEF Hear, profileVars, accountVars, accountHistory
<1>2. AccountShape /\ HandsRight
  BY DEF AccountIInv
<1>3. CASE n.account = connectAccountId
  <2>1. PICK x : x = [task |-> "write", said |-> n.said, notice |-> {n}, day |-> connectOnboardedAt]
    OBVIOUS
  <2>2. hand[h] = Empty /\ hand' = [hand EXCEPT ![h] = x] /\ notices' = notices
    BY <1>3, <2>1 DEF Hear, TakesUp, ToWrite
  <2>3. x \in HandJobs /\ x.task = "write" /\ x.notice = {n} /\ x.said = n.said
        /\ x.day = connectOnboardedAt
    BY <1>2, <2>1 DEF HandJobs, AccountShape, Notices
  <2>4. connectAccountId # NoId
    BY <1>2, <1>3 DEF AccountShape, NoId
  <2>5. ~twofold => SaidOf(n.said)
    BY DEF AccountIInv, LastSaid
  <2>6. hand[h].task = "idle" /\ twofold \in BOOLEAN
    BY <1>2, <2>2 DEF Empty, AccountShape
  <2> QED BY <1>1, <2>2, <2>3, <2>4, <2>5, <2>6, HandReads
<1>4. CASE n.account # connectAccountId
  <2>1. hand' = hand /\ notices' = notices \ {n}
    BY <1>4 DEF Hear
  <2>2. AccountShape'
    BY <1>1, <1>2, <2>1, ProviderStays DEF AccountShape
  <2>3. HandsRight'
    BY <1>1, <1>2, <2>1 DEF HandsRight, HandRight
  <2>4. twofold
    <3> SUFFICES ASSUME ~twofold PROVE FALSE
      OBVIOUS
    <3>1. OneConnects
      BY DEF AccountIInv
    <3>2. n.account \in linked /\ n.account \in 1..created /\ created <= 1
          /\ connectAccountId # NoId
      BY <1>2, <3>1 DEF AccountShape, OneConnects
    <3> QED BY <1>2, <1>4, <3>2, PayoutAccountAssumption DEF AccountShape, NoId
  <2>5. ~overlapped' => DayStands' /\ ~moved'
    BY <1>1, <2>1 DEF AccountIInv, DayStands
  <2> QED BY <1>1, <2>2, <2>3, <2>4, <2>5 DEF AccountIInv
<1> QED BY <1>3, <1>4

LEMMA AccountReads ==
    ASSUME AccountIInv, NEW h \in Hands, Refresh(h) \/ Retrieve(h) \/ HandDies(h)
    PROVE  AccountIInv'
<1>1. UNCHANGED <<connectAccountId, payoutsReady, connectOnboardedAt, created, standing, changes,
                  linked, outdated, newest, overlapped, moved, today, notices>>
  BY DEF Refresh, Retrieve, HandDies, profileVars, accountVars, accountHistory
<1>2. AccountShape /\ HandsRight
  BY DEF AccountIInv
<1>3. twofold \in BOOLEAN
  BY <1>2 DEF AccountShape
<1>4. CASE Refresh(h)
  <2>1. PICK x : x = [task |-> "ask", id |-> connectAccountId, day |-> connectOnboardedAt]
    OBVIOUS
  <2>2. connectAccountId # NoId /\ hand[h] = Empty /\ hand' = [hand EXCEPT ![h] = x]
        /\ twofold' = twofold
    BY <1>4, <2>1 DEF Refresh, TakesUp, accountHistory
  <2>3. connectAccountId \in AccountIds /\ connectAccountId <= created
    BY <1>2, <2>2, PayoutAccountAssumption DEF AccountShape, AccountIds, NoId
  <2>4. x \in HandJobs /\ x.task = "ask" /\ x.id = connectAccountId /\ x.day = connectOnboardedAt
    BY <1>2, <2>1, <2>3 DEF HandJobs, AccountShape
  <2>5. hand[h].task = "idle"
    BY <2>2 DEF Empty
  <2> QED BY <1>1, <1>3, <2>2, <2>3, <2>4, <2>5, HandReads
<1>5. CASE Retrieve(h)
  <2>1. PICK id, day : id = hand[h].id /\ day = hand[h].day
    OBVIOUS
  <2>2. PICK y : y = [task |-> "write", said |-> standing[id], notice |-> {},
                      day |-> connectOnboardedAt]
    OBVIOUS
  <2>3. PICK x : x = [y EXCEPT !.day = day]
    OBVIOUS
  <2>4. hand[h].task = "ask" /\ hand' = [hand EXCEPT ![h] = x] /\ twofold' = twofold
    BY <1>5, <2>1, <2>2, <2>3 DEF Retrieve, Becomes, ToWrite, accountHistory
  <2>5. id \in AccountIds /\ day \in Days /\ id <= created /\ connectAccountId # NoId
    BY <1>2, <2>1, <2>4, HandIs DEF HandsRight, HandRight
  <2>6. x = [task |-> "write", said |-> standing[id], notice |-> {}, day |-> day]
    BY <2>2, <2>3
  <2>7. x \in HandJobs /\ x.task = "write" /\ x.said = standing[id] /\ x.notice = {} /\ x.day = day
    BY <1>2, <2>5, <2>6 DEF HandJobs, AccountShape
  <2>8. ~twofold => SaidOf(standing[id])
    <3> SUFFICES ASSUME ~twofold PROVE SaidOf(standing[id])
      OBVIOUS
    <3>1. LastSaid /\ created <= 1
      BY DEF AccountIInv, OneConnects
    <3>2. id = 1
      BY <1>2, <2>5, <3>1, PayoutAccountAssumption DEF AccountIds, AccountShape
    <3> QED BY <3>1, <3>2 DEF LastSaid
  <2>9. ~overlapped => day = connectOnboardedAt
    BY <2>1, <2>4 DEF AccountIInv, DayStands
  <2> QED BY <1>1, <1>3, <2>4, <2>5, <2>7, <2>8, <2>9, HandReads
<1>6. CASE HandDies(h)
  <2>1. hand' = [hand EXCEPT ![h] = Empty] /\ twofold' = (twofold \/ hand[h].task = "store")
    BY <1>6 DEF HandDies, Drops
  <2>2. Empty.task = "idle"
    BY DEF Empty
  <2> QED BY <1>1, <1>3, <2>1, <2>2, HandReads
<1> QED BY <1>4, <1>5, <1>6

\* What was said is written; the notice of it is answered.
LEMMA AccountWrite ==
    ASSUME AccountIInv, NEW h \in Hands, WriteStanding(h) PROVE AccountIInv'
<1>1. AccountShape /\ HandsRight
  BY DEF AccountIInv
<1>2. PICK w : w = hand[h]
  OBVIOUS
<1>3. /\ w.task = "write"
      /\ payoutsReady' = w.said.enabled
      /\ connectOnboardedAt' = IF w.said.details THEN (IF w.day # Never THEN w.day ELSE today)
                               ELSE Never
      /\ notices' = notices \ w.notice
      /\ outdated' = (outdated \/ w.said.version < newest)
      /\ newest' = w.said.version
      /\ overlapped' = (overlapped \/ OthersAt(h, {"ask", "write"}))
      /\ moved' = (moved \/ /\ Never \notin {connectOnboardedAt, connectOnboardedAt'}
                            /\ connectOnboardedAt' # connectOnboardedAt)
      /\ hand' = [hand EXCEPT ![h] = Empty]
      /\ UNCHANGED <<connectAccountId, created, standing, changes, linked, twofold, today>>
  BY <1>2 DEF WriteStanding, Ready, Onboarded, Drops, accountVars
<1>4. w.said \in Standings /\ w.day \in Days /\ w.notice \subseteq Notices
      /\ connectAccountId # NoId /\ \A n \in w.notice : n.said = w.said
  BY <1>1, <1>2, <1>3, HandIs DEF HandsRight, HandRight
<1>5. w.said.enabled \in BOOLEAN /\ w.said.version \in 0..MaxChanges
  BY <1>4 DEF Standings
<1>6. hand'[h] = Empty /\ (\A k \in Hands : k # h => hand'[k] = hand[k]) /\ Empty.task = "idle"
  BY <1>1, <1>3, HandChanges DEF Empty
<1>7. AccountShape'
  <2>1. hand' \in [Hands -> {Empty} \cup HandJobs]
    BY <1>1, <1>3 DEF AccountShape
  <2>2. connectOnboardedAt' \in Days
    BY <1>1, <1>3, <1>4 DEF AccountShape, Days
  <2>3. {payoutsReady', twofold', outdated', overlapped', moved'} \subseteq BOOLEAN
    BY <1>1, <1>3, <1>5 DEF AccountShape
  <2>4. notices' \subseteq notices /\ newest' \in 0..MaxChanges /\ today' \in {1, 2}
    BY <1>1, <1>3, <1>5 DEF AccountShape
  <2> QED BY <1>1, <1>3, <2>1, <2>2, <2>3, <2>4, ProviderStays
<1>8. HandsRight'
  BY <1>1, <1>3, <1>6 DEF HandsRight, HandRight
<1>9. ASSUME ~twofold PROVE OneConnects' /\ LastSaid'
  <2>1. OneConnects /\ LastSaid
    BY <1>9 DEF AccountIInv
  <2>2. \A k \in Hands : Connects(k)' <=> Connects(k)
    BY <1>2, <1>3, <1>6 DEF Connects
  <2>3. \A k \in Hands : Connects(k) => hand'[k] = hand[k]
    BY <1>2, <1>3, <1>6 DEF Connects
  <2>4. OneConnects'
    BY <1>3, <1>6, <2>1, <2>2, <2>3 DEF OneConnects, Connects
  <2>5. SaidOf(w.said)
    BY <1>2, <1>3, <2>1 DEF LastSaid
  <2>6. newest' <= changes' /\ (newest' = changes' => payoutsReady' = standing[1].enabled)
    BY <1>3, <2>5 DEF SaidOf
  <2>7. /\ \A n \in notices' : SaidOf(n.said)'
        /\ \A k \in Hands : hand'[k].task = "write" => SaidOf(hand[k].said)'
        /\ SaidOf(standing[1])'
    <3>1. \A n \in notices' : SaidOf(n.said)'
      BY <1>3, <2>1 DEF LastSaid, SaidOf
    <3>2. ASSUME NEW k \in Hands, hand'[k].task = "write" PROVE SaidOf(hand[k].said)'
      <4>1. k # h /\ hand'[k] = hand[k]
        BY <1>6, <3>2
      <4>2. SaidOf(hand[k].said)
        BY <2>1, <3>2, <4>1 DEF LastSaid
      <4> QED BY <1>3, <4>1, <4>2 DEF SaidOf
    <3>3. SaidOf(standing[1])'
      BY <1>3, <2>1 DEF LastSaid, SaidOf
    <3> QED BY <3>1, <3>2, <3>3
  <2>8. ASSUME ~outdated', w.said.version # changes
        PROVE  \E n \in notices' : n.said.version = changes
    <3>1. ~outdated /\ ~(w.said.version < newest)
      BY <1>3, <2>8
    <3>2. newest # changes
      <4>1. w.said.version <= changes /\ changes \in Nat /\ w.said.version \in Nat
        BY <1>1, <1>5, <2>5, PayoutAccountAssumption DEF SaidOf, AccountShape
      <4> QED BY <2>8, <3>1, <4>1
    <3>3. PICK n \in notices : n.said.version = changes
      BY <2>1, <3>1, <3>2 DEF LastSaid
    <3>4. n \notin w.notice
      BY <1>4, <2>8, <3>3
    <3> QED BY <1>3, <3>3, <3>4
  <2>9. LastSaid'
    BY <1>3, <2>6, <2>7, <2>8 DEF LastSaid, SaidOf
  <2> QED BY <2>4, <2>9
<1>10. ASSUME ~overlapped' PROVE DayStands' /\ ~moved'
  <2>1. ~overlapped /\ \A k \in Hands : k # h => hand[k].task \notin {"ask", "write"}
    BY <1>3, <1>10 DEF OthersAt
  <2>2. ~moved /\ w.day = connectOnboardedAt
    BY <1>2, <1>3, <2>1 DEF AccountIInv, DayStands
  <2> QED BY <1>3, <1>6, <2>1, <2>2 DEF DayStands
<1> QED BY <1>3, <1>4, <1>7, <1>8, <1>9, <1>10 DEF AccountIInv

LEMMA AccountRests ==
    ASSUME AccountIInv, NextDay \/ UNCHANGED payoutAccountVars PROVE AccountIInv'
<1>1. /\ UNCHANGED <<connectAccountId, payoutsReady, connectOnboardedAt, created, standing, changes,
                     linked, twofold, outdated, newest, overlapped, moved, notices, hand>>
      /\ today' = today \/ today' = 2
  BY DEF NextDay, payoutAccountVars, profileVars, accountVars, accountHistory
<1>2. AccountShape /\ HandsRight
  BY DEF AccountIInv
<1>3. AccountShape'
  BY <1>1, <1>2, ProviderStays DEF AccountShape
<1>4. HandsRight'
  BY <1>1, <1>2 DEF HandsRight, HandRight
<1>5. ~twofold' => OneConnects' /\ LastSaid'
  BY <1>1 DEF AccountIInv, OneConnects, LastSaid, SaidOf, Connects
<1>6. ~overlapped' => DayStands' /\ ~moved'
  BY <1>1 DEF AccountIInv, DayStands
<1> QED BY <1>1, <1>3, <1>4, <1>5, <1>6 DEF AccountIInv

\* For any number of hands, accounts and changes of mind: a seller has one
\* account unless two connections overlap or one dies half way; with all notices
\* answered the padlock shows what the provider said last, unless something older
\* was written over it; and the day of onboarding moves only if writes overlap.
THEOREM PayoutAccountIsRight == PayoutAccountSpec => []PayoutAccountInv
<1>1. ASSUME AccountIInv, [PayoutAccountNext]_payoutAccountVars PROVE AccountIInv'
  BY <1>1, AccountConnect, AccountCreate, AccountStore, AccountHear, AccountReads, AccountWrite,
     AccountChanges, AccountRests DEF PayoutAccountNext
<1> QED BY <1>1, AccountStarts, AccountFollows, PTL DEF PayoutAccountSpec

-----------------------------------------------------------------------------
(***************************************************************************)
(* Saved listings                                                          *)
(***************************************************************************)

HeartCalls == [n : Nat, tab : Tabs, wish : Wishes, next : BOOLEAN, before : SUBSET Wishes,
          at : {"sent", "insert", "done"}]

Agrees(t, w) == w \in ids[t] <=> w \in saved
Pair(c) == <<c.tab, c.wish>>

\* Of a pair that is not in doubt there is one call at most; the heart is what
\* the call makes of it, and what the server has, once the call is done.
HeartCallRight(c) ==
    /\ c \in HeartCalls
    /\ c.at = "insert" => c.next
    /\ Pair(c) \in doubt \/ ((c.wish \in ids[c.tab]) = c.next)
    /\ Pair(c) \in doubt \/ c.at # "done" \/ Agrees(c.tab, c.wish)
    /\ \A d \in calls : d = c \/ Pair(d) # Pair(c) \/ Pair(c) \in doubt

Called(t, w) == \E c \in calls : c.tab = t /\ c.wish = w

HeartInv ==
    /\ saved \subseteq Wishes /\ ids \in [Tabs -> SUBSET Wishes] /\ clicks \in Nat
    /\ loading \in [Tabs -> {Nothing} \cup SUBSET Wishes]
    /\ \A c \in calls : HeartCallRight(c)
    /\ \A t \in Tabs, w \in Wishes : Called(t, w) \/ <<t, w>> \in doubt \/ Agrees(t, w)

LEMMA HeartsFollow == HeartInv => HeartsInv
BY DEF HeartInv, HeartsInv, HeartsTypeOK, HeartsAreRight, Called, HeartCallRight, HeartCalls, Agrees

LEMMA HeartsStart == HeartsInit => HeartInv
BY DEF HeartsInit, HeartInv, Called, Agrees

LEMMA ToggleKeeps ==
    ASSUME HeartInv, NEW t \in Tabs, NEW w \in Wishes, Toggle(t, w)
    PROVE  HeartInv'
<1>1. PICK next \in BOOLEAN : next = (w \notin ids[t])
  OBVIOUS
<1>2. PICK new : new = [n |-> clicks, tab |-> t, wish |-> w, next |-> next,
                        before |-> ids[t], at |-> "sent"]
  OBVIOUS
<1>3. PICK heart : heart = IF next THEN ids[t] \cup {w} ELSE ids[t] \ {w}
  OBVIOUS
<1>4. /\ ids' = [ids EXCEPT ![t] = heart] /\ calls' = calls \cup {new}
      /\ saved' = saved /\ loading' = loading /\ clicks' = clicks + 1
      /\ doubt' = doubt \cup (IF Called(t, w) THEN {<<t, w>>} ELSE {})
  BY <1>1, <1>2, <1>3 DEF Toggle, Doubted, Called
<1>5. new \in HeartCalls /\ new.tab = t /\ new.wish = w /\ new.at = "sent" /\ new.next = next
      /\ Pair(new) = <<t, w>>
  BY <1>2 DEF HeartInv, HeartCalls, Pair
<1>6. heart \subseteq Wishes /\ (w \in heart) = next
      /\ \A v \in Wishes : v # w => (v \in heart) = (v \in ids[t])
  <2>1. ids[t] \subseteq Wishes
    BY DEF HeartInv
  <2>2. CASE next = TRUE
    <3>1. heart = ids[t] \cup {w}
      BY <1>3, <2>2
    <3>2. heart \subseteq Wishes /\ w \in heart
      BY <2>1, <3>1
    <3>3. \A v \in Wishes : v # w => (v \in heart) = (v \in ids[t])
      BY ONLY <3>1
    <3> QED BY <2>2, <3>2, <3>3
  <2>3. CASE next = FALSE
    <3>1. heart = ids[t] \ {w}
      BY <1>3, <2>3
    <3> QED BY <2>1, <2>3, <3>1
  <2> QED BY <2>2, <2>3
<1>7. ids' \in [Tabs -> SUBSET Wishes] /\ ids'[t] = heart
      /\ \A u \in Tabs : u # t => ids'[u] = ids[u]
  BY <1>4, <1>6 DEF HeartInv
<1>8. ASSUME NEW c \in calls PROVE HeartCallRight(c)'
  <2>1. HeartCallRight(c) /\ c \in HeartCalls /\ c.tab \in Tabs /\ c.wish \in Wishes
    BY DEF HeartInv, HeartCallRight, HeartCalls
  <2>2. CASE Pair(c) = <<t, w>>
    <3>1. c.tab = t /\ c.wish = w
      BY <2>2 DEF Pair
    <3>2. Called(t, w)
      BY <3>1 DEF Called
    <3>3. Pair(c) \in doubt'
      BY <1>4, <2>2, <3>2
    <3> QED BY <2>1, <3>3 DEF HeartCallRight, Pair
  <2>3. CASE Pair(c) # <<t, w>>
    <3>1. c.tab # t \/ c.wish # w
      BY <2>3 DEF Pair
    <3>2. (c.wish \in ids'[c.tab]) = (c.wish \in ids[c.tab])
      BY <1>6, <1>7, <2>1, <3>1
    <3>3. \A d \in calls' : d = c \/ Pair(d) # Pair(c) \/ Pair(c) \in doubt'
      BY <1>4, <1>5, <2>1, <2>3 DEF HeartCallRight
    <3> QED BY <1>4, <2>1, <3>2, <3>3 DEF HeartCallRight, Agrees, Pair
  <2> QED BY <2>2, <2>3
<1>9. HeartCallRight(new)'
  <2>1. \A d \in calls : Pair(d) = <<t, w>> => <<t, w>> \in doubt'
    BY <1>4 DEF Pair, Called
  <2> QED BY <1>4, <1>5, <1>6, <1>7, <2>1 DEF HeartCallRight, Pair
<1>10. ASSUME NEW u \in Tabs, NEW v \in Wishes
       PROVE  Called(u, v)' \/ <<u, v>> \in doubt' \/ Agrees(u, v)'
  <2>1. CASE u = t /\ v = w
    BY <1>4, <1>5, <2>1 DEF Called
  <2>2. CASE ~(u = t /\ v = w)
    <3>1. (v \in ids'[u]) = (v \in ids[u])
      BY <1>6, <1>7, <2>2
    <3> QED BY <1>4, <3>1 DEF HeartInv, Called, Agrees
  <2> QED BY <2>1, <2>2
<1> QED BY <1>4, <1>7, <1>8, <1>9, <1>10 DEF HeartInv

\* A call goes on, and no heart changes; the server may.
LEMMA CallGoesOn ==
    ASSUME HeartInv, NEW c \in calls, NEW at \in {"sent", "insert", "done"}, Moves(c, at),
           at = "insert" => c.next,
           UNCHANGED <<ids, loading, clicks>>, saved' \subseteq Wishes,
           doubt \subseteq doubt',
           \A w \in Wishes : w # c.wish => (w \in saved') = (w \in saved),
           saved' = saved \/ \A t \in Tabs : <<t, c.wish>> \in doubt' \/ Agrees(t, c.wish)',
           at = "done" => Pair(c) \in doubt' \/ Agrees(c.tab, c.wish)'
    PROVE  HeartInv'
<1>1. HeartCallRight(c) /\ c \in HeartCalls /\ c.tab \in Tabs /\ c.wish \in Wishes
  BY DEF HeartInv, HeartCallRight, HeartCalls
<1>2. PICK new : new = [c EXCEPT !.at = at]
  OBVIOUS
<1>3. new \in HeartCalls /\ new.tab = c.tab /\ new.wish = c.wish /\ new.next = c.next /\ new.at = at
      /\ Pair(new) = Pair(c)
  BY <1>1, <1>2 DEF HeartCalls, Pair
<1>4. calls' = (calls \ {c}) \cup {new}
  BY <1>2 DEF Moves
<1>5. ASSUME NEW d \in calls \ {c} PROVE HeartCallRight(d)'
  <2>1. HeartCallRight(d) /\ d \in HeartCalls /\ d.tab \in Tabs /\ d.wish \in Wishes
    BY DEF HeartInv, HeartCallRight, HeartCalls
  <2>2. Pair(d) \in doubt' \/ d.at # "done" \/ Agrees(d.tab, d.wish)'
    <3>1. CASE d.wish = c.wish
      BY <2>1, <3>1 DEF HeartCallRight, Agrees, Pair
    <3>2. CASE d.wish # c.wish
      BY <2>1, <3>2 DEF HeartCallRight, Agrees, Pair
    <3> QED BY <3>1, <3>2
  <2>3. \A e \in calls' : e = d \/ Pair(e) # Pair(d) \/ Pair(d) \in doubt'
    BY <1>3, <1>4, <2>1 DEF HeartCallRight
  <2> QED BY <2>1, <2>2, <2>3 DEF HeartCallRight, Pair
<1>6. HeartCallRight(new)'
  <2>1. \A e \in calls' : e = new \/ Pair(e) # Pair(new) \/ Pair(new) \in doubt'
    BY <1>1, <1>3, <1>4 DEF HeartCallRight
  <2>2. Pair(new) \in doubt' \/ ((new.wish \in ids'[new.tab]) = new.next)
    BY <1>1, <1>3 DEF HeartCallRight
  <2>3. Pair(new) \in doubt' \/ new.at # "done" \/ Agrees(new.tab, new.wish)'
    BY <1>3 DEF Agrees
  <2> QED BY <1>3, <2>1, <2>2, <2>3 DEF HeartCallRight, Pair
<1>7. ASSUME NEW u \in Tabs, NEW v \in Wishes
      PROVE  Called(u, v)' \/ <<u, v>> \in doubt' \/ Agrees(u, v)'
  <2>1. CASE v = c.wish /\ saved' # saved
    BY <2>1
  <2>2. CASE v # c.wish \/ saved' = saved
    <3>1. Called(u, v) => Called(u, v)'
      BY <1>3, <1>4 DEF Called
    <3>2. Agrees(u, v) => Agrees(u, v)'
      BY <2>2 DEF Agrees
    <3> QED BY <3>1, <3>2 DEF HeartInv
  <2> QED BY <2>1, <2>2
<1> QED BY <1>4, <1>5, <1>6, <1>7 DEF HeartInv

\* A call is over, and leaves its heart as the server has it or in doubt.
LEMMA CallEnds ==
    ASSUME HeartInv, NEW c \in calls, calls' = calls \ {c},
           UNCHANGED <<saved, loading, clicks>>, ids' \in [Tabs -> SUBSET Wishes],
           doubt \subseteq doubt',
           \A t \in Tabs, w \in Wishes :
               <<t, w>> # Pair(c) => (w \in ids'[t]) = (w \in ids[t]),
           Pair(c) \in doubt' \/ Agrees(c.tab, c.wish)'
    PROVE  HeartInv'
<1>1. HeartCallRight(c) /\ c \in HeartCalls /\ c.tab \in Tabs /\ c.wish \in Wishes
  BY DEF HeartInv, HeartCallRight, HeartCalls
<1>2. ASSUME NEW d \in calls \ {c} PROVE HeartCallRight(d)'
  <2>1. HeartCallRight(d) /\ d \in HeartCalls /\ d.tab \in Tabs /\ d.wish \in Wishes
    BY DEF HeartInv, HeartCallRight, HeartCalls
  <2>2. Pair(d) \in doubt' \/ ((d.wish \in ids'[d.tab]) = (d.wish \in ids[d.tab]))
    BY <1>1, <2>1 DEF HeartCallRight, Pair
  <2>3. Pair(d) \in doubt' \/ d.at # "done" \/ Agrees(d.tab, d.wish)'
    BY <2>1, <2>2 DEF HeartCallRight, Agrees, Pair
  <2>4. \A e \in calls' : e = d \/ Pair(e) # Pair(d) \/ Pair(d) \in doubt'
    BY <2>1 DEF HeartCallRight
  <2> QED BY <2>1, <2>2, <2>3, <2>4 DEF HeartCallRight, Pair
<1>3. ASSUME NEW u \in Tabs, NEW v \in Wishes
      PROVE  Called(u, v)' \/ <<u, v>> \in doubt' \/ Agrees(u, v)'
  <2>1. CASE <<u, v>> = Pair(c)
    BY <2>1 DEF Pair
  <2>2. CASE <<u, v>> # Pair(c)
    <3>1. Called(u, v) => Called(u, v)'
      BY <2>2 DEF Called, Pair
    <3> QED BY <2>2, <3>1 DEF HeartInv, Agrees
  <2> QED BY <2>1, <2>2
<1> QED BY <1>2, <1>3 DEF HeartInv

LEMMA FailsKeeps ==
    ASSUME HeartInv, NEW c \in calls, Fails(c)
    PROVE  HeartInv'
<1>1. HeartCallRight(c) /\ c \in HeartCalls /\ c.tab \in Tabs /\ c.wish \in Wishes /\ c.at # "refused"
  BY DEF HeartInv, HeartCallRight, HeartCalls
<1>2. PICK back : back = PutBack(c)
  OBVIOUS
<1>3. /\ ids' = [ids EXCEPT ![c.tab] = back] /\ calls' = calls \ {c}
      /\ UNCHANGED <<saved, loading, clicks>>
      /\ doubt' = doubt \cup (IF (c.wish \in ids'[c.tab]) # (c.wish \in saved)
                              THEN {Pair(c)} ELSE {})
  BY <1>1, <1>2 DEF Fails, Doubted, Pair
<1>4. back \subseteq Wishes /\ \A w \in Wishes : w # c.wish => (w \in back) = (w \in ids[c.tab])
  BY <1>1, <1>2 DEF HeartInv, PutBack
<1>5. ids' \in [Tabs -> SUBSET Wishes]
      /\ \A t \in Tabs, w \in Wishes : <<t, w>> # Pair(c) => (w \in ids'[t]) = (w \in ids[t])
  BY <1>1, <1>3, <1>4 DEF HeartInv, Pair
<1>6. Pair(c) \in doubt' \/ Agrees(c.tab, c.wish)'
  BY <1>3 DEF Agrees
<1>7. doubt \subseteq doubt'
  BY <1>3
<1> QED BY <1>3, <1>5, <1>6, <1>7, CallEnds

\* What tab t shows is replaced, and each heart of it is right or in doubt.
LEMMA TabReplaced ==
    ASSUME HeartInv, NEW t \in Tabs, NEW loadedIds \in SUBSET Wishes,
           ids' = [ids EXCEPT ![t] = loadedIds], loading' = [loading EXCEPT ![t] = Nothing],
           UNCHANGED <<saved, calls, clicks>>, doubt \subseteq doubt',
           \A w \in Wishes : <<t, w>> \in doubt' \/ (Agrees(t, w)' /\ ~Called(t, w))
    PROVE  HeartInv'
<1>1. ids' \in [Tabs -> SUBSET Wishes] /\ loading' \in [Tabs -> {Nothing} \cup SUBSET Wishes]
      /\ \A u \in Tabs : u # t => ids'[u] = ids[u]
  BY DEF HeartInv
<1>2. ASSUME NEW c \in calls PROVE HeartCallRight(c)'
  <2>1. HeartCallRight(c) /\ c \in HeartCalls /\ c.tab \in Tabs /\ c.wish \in Wishes
    BY DEF HeartInv, HeartCallRight, HeartCalls
  <2>2. CASE c.tab = t
    <3>1. Called(t, c.wish)
      BY <2>2 DEF Called
    <3>2. Pair(c) \in doubt'
      BY <2>1, <2>2, <3>1 DEF Pair
    <3> QED BY <2>1, <3>2 DEF HeartCallRight, Pair
  <2>3. CASE c.tab # t
    BY <1>1, <2>1, <2>3 DEF HeartCallRight, Agrees, Pair
  <2> QED BY <2>2, <2>3
<1>3. ASSUME NEW u \in Tabs, NEW v \in Wishes
      PROVE  Called(u, v)' \/ <<u, v>> \in doubt' \/ Agrees(u, v)'
  BY <1>1 DEF HeartInv, Called, Agrees
<1> QED BY <1>1, <1>2, <1>3 DEF HeartInv

\* Once its calls are answered a tab shows what the server has, or it is one of
\* the pairs that doubt names, for any tabs, listings and clicks
\* (wishlist.ts:139-148, WishlistContext.tsx).
THEOREM HeartsStayRight == HeartsSpec => []HeartsInv
<1>1. HeartInv /\ [HeartsNext]_heartsVars => HeartInv'
  <2> SUFFICES ASSUME HeartInv, [HeartsNext]_heartsVars PROVE HeartInv'
    OBVIOUS
  <2>1. ASSUME NEW c \in calls, Looks(c) PROVE HeartInv'
    <3>1. c.wish \in saved => Pair(c) \in doubt \/ Agrees(c.tab, c.wish)
      BY <2>1 DEF HeartInv, HeartCallRight, Agrees, Looks
    <3>2. PICK at : at = IF c.wish \in saved THEN "done" ELSE "insert"
      OBVIOUS
    <3>3. Moves(c, at) /\ c.next /\ UNCHANGED <<saved, ids, loading, clicks, doubt>>
      BY <2>1, <3>2 DEF Looks
    <3>4. at \in {"sent", "insert", "done"}
          /\ (at = "done" => Pair(c) \in doubt' \/ Agrees(c.tab, c.wish)')
      BY <3>1, <3>2, <3>3 DEF Agrees
    <3>5. saved' \subseteq Wishes
      BY <3>3 DEF HeartInv
    <3> QED BY <3>3, <3>4, <3>5, CallGoesOn
  <2>2. ASSUME NEW c \in calls, Inserts(c) \/ Removes(c) PROVE HeartInv'
    <3>1. c.wish \in Wishes /\ c.tab \in Tabs
      BY DEF HeartInv, HeartCallRight, HeartCalls
    <3>2. /\ Moves(c, "done") /\ UNCHANGED <<ids, loading, clicks>>
          /\ saved' \in {saved \cup {c.wish}, saved \ {c.wish}}
          /\ doubt' = doubt \cup Differ(c.wish)
      BY <2>2 DEF Inserts, Removes, Inserted, Doubted
    <3>3. \A t \in Tabs : <<t, c.wish>> \in doubt' \/ Agrees(t, c.wish)'
      BY <3>2 DEF Differ, Agrees
    <3>4. Pair(c) \in doubt' \/ Agrees(c.tab, c.wish)'
      BY <3>1, <3>3 DEF Pair
    <3>5. saved' \subseteq Wishes /\ doubt \subseteq doubt'
          /\ \A w \in Wishes : w # c.wish => (w \in saved') = (w \in saved)
      BY <3>1, <3>2 DEF HeartInv
    <3> QED BY <3>2, <3>3, <3>4, <3>5, CallGoesOn
  <2>3. ASSUME NEW c \in calls, Succeeds(c) PROVE HeartInv'
    <3>1. calls' = calls \ {c} /\ UNCHANGED <<saved, ids, loading, clicks, doubt>> /\ c.at = "done"
      BY <2>3 DEF Succeeds
    <3>2. Pair(c) \in doubt' \/ Agrees(c.tab, c.wish)'
      BY <3>1 DEF HeartInv, HeartCallRight, Agrees
    <3>3. ids' \in [Tabs -> SUBSET Wishes]
      BY <3>1 DEF HeartInv
    <3> QED BY <3>1, <3>2, <3>3, CallEnds
  <2>4. ASSUME NEW t \in Tabs, Load(t) PROVE HeartInv'
    <3>1. loading' = [loading EXCEPT ![t] = saved] /\ UNCHANGED <<saved, ids, calls, clicks, doubt>>
      BY <2>4 DEF Load
    <3> QED BY <3>1 DEF HeartInv, HeartCallRight, Called, Agrees, HeartCalls, Pair
  <2>5. ASSUME NEW t \in Tabs, Loaded(t) PROVE HeartInv'
    <3>1. PICK loadedIds : loadedIds = loading[t]
      OBVIOUS
    <3>2. loadedIds \subseteq Wishes /\ ids' = [ids EXCEPT ![t] = loadedIds]
          /\ loading' = [loading EXCEPT ![t] = Nothing] /\ UNCHANGED <<saved, calls, clicks>>
      BY <2>5, <3>1 DEF Loaded, HeartInv
    <3>3. doubt' = doubt \cup {<<t, w>> : w \in {v \in Wishes :
                       (v \in loadedIds) # (v \in saved) \/ Called(t, v)}}
      BY <2>5, <3>1 DEF Loaded, Doubted, Called
    <3>4. ids'[t] = loadedIds
      BY <3>2 DEF HeartInv
    <3>5. \A w \in Wishes : <<t, w>> \in doubt' \/ (Agrees(t, w)' /\ ~Called(t, w))
      BY <3>2, <3>3, <3>4 DEF Agrees
    <3> QED BY <3>2, <3>3, <3>5, TabReplaced
  <2>6. ASSUME NEW t \in Tabs, LoadFails(t) PROVE HeartInv'
    <3>1. ids' = [ids EXCEPT ![t] = {}] /\ loading' = [loading EXCEPT ![t] = Nothing]
          /\ UNCHANGED <<saved, calls, clicks>> /\ doubt' = doubt \cup ({t} \X Wishes)
      BY <2>6 DEF LoadFails, Doubted
    <3>2. \A w \in Wishes : <<t, w>> \in doubt'
      BY <3>1
    <3>3. doubt \subseteq doubt'
      BY <3>1
    <3>4. {} \in SUBSET Wishes
      OBVIOUS
    <3> QED BY <3>1, <3>2, <3>3, <3>4, TabReplaced
  <2>7. CASE UNCHANGED heartsVars
    BY <2>7 DEF HeartInv, HeartCallRight, Called, Agrees, HeartCalls, Pair, heartsVars
  <2> QED BY <2>1, <2>2, <2>3, <2>4, <2>5, <2>6, <2>7, ToggleKeeps, FailsKeeps DEF HeartsNext
<1> QED BY HeartsStart, HeartsFollow, <1>1, PTL DEF HeartsSpec

-----------------------------------------------------------------------------
(***************************************************************************)
(* The cart's badge                                                        *)
(***************************************************************************)

\* The first of some moments is one of them.
LEMMA FirstIs ==
    ASSUME NEW S \in SUBSET Nat, S # {}
    PROVE  Min(S) \in S /\ \A y \in S : Min(S) <= y
<1> DEFINE R == OpToRel(<, Nat)
<1>1. \E x \in S : \A y \in S : ~(<<y, x>> \in R)
  BY NatLessThanWellFounded, WFMin
<1>2. \A x, y \in Nat : x < y => <<x, y>> \in R
  BY DEF OpToRel
<1> HIDE DEF R
<1>3. PICK m \in S : \A y \in S : ~(<<y, m>> \in R)
  BY <1>1
<1>4. \A y \in S : m <= y
  <2> SUFFICES ASSUME NEW y \in S PROVE m <= y
    OBVIOUS
  <2>1. m \in Nat /\ y \in Nat /\ ~(y < m)
    BY <1>2, <1>3
  <2> QED BY <2>1
<1> QED BY <1>4 DEF Min

\* What the server says at some time: its first end comes after that.
Told(s) ==
    /\ s \in [counted : SUBSET ends, nextExpiresAt : Nat]
    /\ s.nextExpiresAt = IF s.counted = {} THEN Unset ELSE Min(s.counted)

DueSet == IF due = Unset THEN 0 ELSE 1

\* Without a timer for the first end that is counted, the end has passed, and
\* an answer is to come that says another.
WillAskAgain ==
    /\ summary.nextExpiresAt <= second
    /\ asked > 0 \/ \E s \in answers : s.nextExpiresAt # summary.nextExpiresAt

BadgeIInv ==
    /\ second \in 0..LastSecond /\ ends \subseteq Ends /\ taken \in Nat /\ lost \in Nat
    /\ asked \in Nat /\ due \in Nat
    /\ IsFiniteSet(answers) /\ asked + Cardinality(answers) + DueSet <= MaxAsked + 1
    /\ Told(summary) /\ \A s \in answers : Told(s)
    /\ due # Unset => summary.counted # {} /\ due = summary.nextExpiresAt + Slack
    /\ due = Unset /\ summary.counted # {} => WillAskAgain

\* What is shown has an end if it counts one.
LEMMA ToldIs ==
    ASSUME ends \subseteq Ends, NEW s, Told(s)
    PROVE  /\ s.counted \subseteq Nat \ {0} /\ s.nextExpiresAt \in Nat
           /\ s.counted = {} => s.nextExpiresAt = Unset
           /\ s.counted # {} => s.nextExpiresAt \in s.counted /\ s.nextExpiresAt # Unset
                                /\ s.nextExpiresAt = Min(s.counted)
<1>1. s.counted \subseteq Nat \ {0} /\ s.nextExpiresAt \in Nat
  BY CartBadgeAssumption DEF Told
<1>2. s.counted # {} => Min(s.counted) \in s.counted
  BY <1>1, FirstIs
<1> QED BY <1>1, <1>2 DEF Told, Unset

LEMMA BadgeFollows == BadgeIInv => BadgeInv
<1> SUFFICES ASSUME BadgeIInv PROVE BadgeInv
  OBVIOUS
<1>1. /\ summary.counted \subseteq ends /\ ends \subseteq Ends
      /\ summary.counted = {} => summary.nextExpiresAt = Unset
      /\ summary.counted # {} => summary.nextExpiresAt \in summary.counted
                                 /\ summary.nextExpiresAt = Min(summary.counted)
  BY ToldIs DEF BadgeIInv, Told
<1>2. BadgeTypeOK
  <2>1. asked \in 0..2 * MaxAsked
    <3>1. Cardinality(answers) \in Nat
      BY FS_CardinalityType DEF BadgeIInv
    <3> QED BY <3>1 DEF BadgeIInv, DueSet, MaxAsked
  <2> QED BY <1>1, <2>1 DEF BadgeIInv, BadgeTypeOK
<1>3. BadgeWillCatchUp
  <2> SUFFICES ASSUME asked = 0, answers = {}, summary.counted # {}
               PROVE  due = Min(summary.counted) + Slack
    BY <1>1 DEF BadgeWillCatchUp
  <2>1. due # Unset
    BY DEF BadgeIInv, WillAskAgain
  <2> QED BY <1>1, <2>1 DEF BadgeIInv
<1> QED BY <1>2, <1>3 DEF BadgeInv

LEMMA BadgeStarts == BadgeInit => BadgeIInv
<1> SUFFICES ASSUME BadgeInit PROVE BadgeIInv
  OBVIOUS
<1>1. Told(summary)
  BY DEF BadgeInit, Told, EMPTY, Unset
<1>2. IsFiniteSet(answers) /\ Cardinality(answers) = 0
  BY FS_EmptySet DEF BadgeInit
<1>3. summary.counted = {}
  BY DEF BadgeInit, EMPTY
<1> QED BY <1>1, <1>2, <1>3, CartBadgeAssumption DEF BadgeInit, BadgeIInv, DueSet, MaxAsked, Unset

\* A request more is under way, and nothing that was said changes.
LEMMA AsksKeeps ==
    ASSUME BadgeIInv, MayAsk, asked' = asked + 1, ends \subseteq ends', ends' \subseteq Ends,
           taken' \in Nat, UNCHANGED <<second, summary, due, answers, lost>>
    PROVE  BadgeIInv'
<1>1. Cardinality(answers) \in Nat
  BY FS_CardinalityType DEF BadgeIInv
<1>2. asked' + Cardinality(answers') + DueSet' <= MaxAsked + 1
  BY <1>1 DEF BadgeIInv, MayAsk, DueSet, MaxAsked
<1>3. Told(summary)' /\ \A s \in answers' : Told(s)'
  BY DEF BadgeIInv, Told
<1>4. WillAskAgain => WillAskAgain'
  BY DEF BadgeIInv, WillAskAgain
<1> QED BY <1>2, <1>3, <1>4 DEF BadgeIInv

LEMMA ServerAnswersKeeps ==
    ASSUME BadgeIInv, ServerAnswers
    PROVE  BadgeIInv'
<1>1. PICK s : s = CartSummary
  OBVIOUS
<1>2. asked > 0 /\ asked' = asked - 1 /\ answers' = answers \cup {s}
      /\ UNCHANGED <<second, ends, taken, summary, due, lost>>
  BY <1>1 DEF ServerAnswers
<1>3. Held \subseteq ends /\ Held \subseteq Nat \ {0} /\ \A e \in Held : e > second
  BY CartBadgeAssumption DEF BadgeIInv, Held
<1>4. Held # {} => Min(Held) \in Held
  BY <1>3, FirstIs
<1>5. s.counted = Held /\ s.nextExpiresAt = (IF Held = {} THEN Unset ELSE Min(Held))
      /\ s \in [counted : SUBSET ends, nextExpiresAt : Nat]
  BY <1>1, <1>3, <1>4 DEF CartSummary, Unset
<1>6. Told(s)
  BY <1>5 DEF Told
<1>7. Told(summary)' /\ \A r \in answers' : Told(r)'
  BY <1>2, <1>6 DEF BadgeIInv, Told
<1>8. IsFiniteSet(answers') /\ Cardinality(answers') \in Nat
      /\ Cardinality(answers') <= Cardinality(answers) + 1 /\ Cardinality(answers) \in Nat
  <2>1. IsFiniteSet(answers)
    BY DEF BadgeIInv
  <2> QED BY <1>2, <2>1, FS_AddElement, FS_CardinalityType
<1>9. asked' \in Nat /\ asked' + Cardinality(answers') + DueSet' <= MaxAsked + 1
  BY <1>2, <1>8 DEF BadgeIInv, DueSet, MaxAsked
<1>10. ASSUME WillAskAgain, summary.counted # {} PROVE WillAskAgain'
  <2>1. summary.nextExpiresAt # Unset /\ summary.nextExpiresAt \in Nat
    BY <1>10, ToldIs DEF BadgeIInv
  <2>2. s.nextExpiresAt # summary.nextExpiresAt
    BY <1>3, <1>4, <1>5, <1>10, <2>1 DEF WillAskAgain, BadgeIInv
  <2> QED BY <1>2, <1>10, <2>2 DEF WillAskAgain
<1> QED BY <1>2, <1>7, <1>8, <1>9, <1>10 DEF BadgeIInv

LEMMA ArrivesKeeps ==
    ASSUME BadgeIInv, NEW s \in answers, Arrives(s)
    PROVE  BadgeIInv'
<1>1. answers' = answers \ {s} /\ summary' = s /\ UNCHANGED <<second, ends, taken, lost>>
  BY DEF Arrives, Shows
<1>2. IsFiniteSet(answers') /\ Cardinality(answers') = Cardinality(answers) - 1
      /\ Cardinality(answers) \in Nat
  <2>1. IsFiniteSet(answers)
    BY DEF BadgeIInv
  <2> QED BY <1>1, <2>1, FS_RemoveElement, FS_CardinalityType
<1>3. Told(s) /\ Told(summary)
  BY DEF BadgeIInv
<1>4. Told(summary)' /\ \A r \in answers' : Told(r)'
  BY <1>1 DEF BadgeIInv, Told
<1>5. /\ s.nextExpiresAt \in Nat /\ (s.counted = {} <=> s.nextExpiresAt = Unset)
      /\ summary.nextExpiresAt \in Nat
      /\ (summary.counted = {} <=> summary.nextExpiresAt = Unset)
  BY <1>3, ToldIs DEF BadgeIInv
<1>6. second \in Nat /\ asked \in Nat /\ due \in Nat /\ Fast \in {0, 1}
  BY CartBadgeAssumption DEF BadgeIInv
<1>7. CASE s.nextExpiresAt = summary.nextExpiresAt
  <2>1. UNCHANGED <<due, asked>>
    BY <1>7 DEF Arrives, Shows
  <2>2. WillAskAgain => WillAskAgain'
    BY <1>1, <1>7, <2>1 DEF WillAskAgain
  <2>3. asked' + Cardinality(answers') + DueSet' <= MaxAsked + 1
    BY <1>2, <1>6, <2>1 DEF BadgeIInv, DueSet, MaxAsked
  <2> QED BY <1>1, <1>2, <1>4, <1>5, <1>7, <2>1, <2>2, <2>3 DEF BadgeIInv
<1>8. CASE s.nextExpiresAt # summary.nextExpiresAt /\ s.nextExpiresAt = Unset
  <2>1. due' = Unset /\ asked' = asked
    BY <1>8 DEF Arrives, Shows
  <2>2. asked' + Cardinality(answers') + DueSet' <= MaxAsked + 1
    BY <1>2, <1>6, <2>1 DEF BadgeIInv, DueSet, MaxAsked
  <2> QED BY <1>1, <1>2, <1>4, <1>5, <1>8, <2>1, <2>2 DEF BadgeIInv, Unset
<1>9. CASE /\ s.nextExpiresAt # summary.nextExpiresAt /\ s.nextExpiresAt # Unset
           /\ s.nextExpiresAt + Slack <= PageClock
  <2>1. due' = Unset /\ asked' = asked + 1
    BY <1>9 DEF Arrives, Shows
  <2>2. asked' + Cardinality(answers') + DueSet' <= MaxAsked + 1
    BY <1>2, <1>6, <2>1 DEF BadgeIInv, DueSet, MaxAsked
  <2>3. WillAskAgain'
    BY <1>1, <1>5, <1>6, <1>9, <2>1 DEF WillAskAgain, PageClock, Slack
  <2> QED BY <1>1, <1>2, <1>4, <1>6, <2>1, <2>2, <2>3 DEF BadgeIInv, Unset
<1>10. CASE /\ s.nextExpiresAt # summary.nextExpiresAt /\ s.nextExpiresAt # Unset
            /\ ~(s.nextExpiresAt + Slack <= PageClock)
  <2>1. due' = s.nextExpiresAt + Slack /\ asked' = asked
    BY <1>10 DEF Arrives, Shows
  <2>2. asked' + Cardinality(answers') + DueSet' <= MaxAsked + 1
    BY <1>2, <1>6, <2>1 DEF BadgeIInv, DueSet, MaxAsked
  <2>3. due' \in Nat /\ due' # Unset
    BY <1>5, <2>1 DEF Slack, Unset
  <2> QED BY <1>1, <1>2, <1>4, <1>5, <1>10, <2>1, <2>2, <2>3 DEF BadgeIInv
<1> QED BY <1>7, <1>8, <1>9, <1>10

LEMMA TimerFiresKeeps ==
    ASSUME BadgeIInv, TimerFires
    PROVE  BadgeIInv'
<1>1. /\ due # Unset /\ PageClock >= due /\ due' = Unset /\ asked' = asked + 1
      /\ UNCHANGED <<second, ends, taken, summary, answers, lost>>
  BY DEF TimerFires
<1>2. summary.counted # {} /\ due = summary.nextExpiresAt + Slack /\ summary.nextExpiresAt \in Nat
  BY <1>1, ToldIs DEF BadgeIInv
<1>3. summary.nextExpiresAt <= second
  BY <1>1, <1>2, CartBadgeAssumption DEF BadgeIInv, PageClock, Slack
<1>4. WillAskAgain'
  BY <1>1, <1>3 DEF WillAskAgain, BadgeIInv
<1>5. Cardinality(answers) \in Nat
  BY FS_CardinalityType DEF BadgeIInv
<1>6. asked' + Cardinality(answers') + DueSet' <= MaxAsked + 1
  BY <1>1, <1>5 DEF BadgeIInv, DueSet, MaxAsked
<1>7. Told(summary)' /\ \A s \in answers' : Told(s)'
  BY <1>1 DEF BadgeIInv, Told
<1> QED BY <1>1, <1>4, <1>6, <1>7 DEF BadgeIInv, Unset

LEMMA AnswerLostKeeps ==
    ASSUME BadgeIInv, AnswerLost
    PROVE  BadgeIInv'
<1>1. /\ asked > 0 /\ lost' = lost + 1 /\ asked' = asked - 1
      /\ summary' = EMPTY /\ due' = Unset
      /\ UNCHANGED <<second, ends, taken, answers>>
  BY DEF AnswerLost
<1>2. Cardinality(answers) \in Nat
  BY FS_CardinalityType DEF BadgeIInv
<1>3. asked' \in Nat /\ asked' + Cardinality(answers') + DueSet' <= MaxAsked + 1
  BY <1>1, <1>2 DEF BadgeIInv, DueSet, MaxAsked
<1>4. summary'.counted = {} /\ Told(summary)' /\ \A s \in answers' : Told(s)'
  BY <1>1 DEF BadgeIInv, Told, EMPTY, Unset
<1> QED BY <1>1, <1>3, <1>4 DEF BadgeIInv, Unset

LEMMA SecondPassesKeeps ==
    ASSUME BadgeIInv, SecondPasses
    PROVE  BadgeIInv'
<1>1. /\ second < LastSecond /\ second' = second + 1
      /\ UNCHANGED <<ends, taken, summary, due, asked, answers, lost>>
  BY DEF SecondPasses
<1>2. second' \in 0..LastSecond
  BY <1>1, CartBadgeAssumption DEF BadgeIInv
<1>3. summary.nextExpiresAt \in Nat
  BY ToldIs DEF BadgeIInv
<1>4. WillAskAgain => WillAskAgain'
  BY <1>1, <1>3 DEF WillAskAgain, BadgeIInv
<1>5. Told(summary)' /\ \A s \in answers' : Told(s)'
  BY <1>1 DEF BadgeIInv, Told
<1> QED BY <1>1, <1>2, <1>4, <1>5 DEF BadgeIInv, DueSet

\* The badge drops a hold that lapses by itself, for any holds and answers in
\* any order, lost ones too: with no request under way the timer is set for the
\* end of the first hold it counts (CartContext.tsx:84-90, cart.ts:52-60).
THEOREM BadgeCatchesUp == BadgeSpec => []BadgeInv
<1>1. BadgeIInv /\ [BadgeNext]_badgeVars => BadgeIInv'
  <2> SUFFICES ASSUME BadgeIInv, [BadgeNext]_badgeVars PROVE BadgeIInv'
    OBVIOUS
  <2>1. ASSUME NEW e \in Ends, TakeHold(e) PROVE BadgeIInv'
    <3>1. MayAsk /\ asked' = asked + 1 /\ ends' = ends \cup {e} /\ taken' = taken + 1
          /\ UNCHANGED <<second, summary, due, answers, lost>>
      BY <2>1 DEF TakeHold
    <3>2. ends \subseteq ends' /\ ends' \subseteq Ends /\ taken' \in Nat
      BY <3>1 DEF BadgeIInv
    <3> QED BY <3>1, <3>2, AsksKeeps
  <2>2. CASE BecomesVisible
    <3>1. MayAsk /\ asked' = asked + 1 /\ UNCHANGED <<second, ends, taken, summary, due, answers, lost>>
      BY <2>2 DEF BecomesVisible
    <3>2. ends \subseteq ends' /\ ends' \subseteq Ends /\ taken' \in Nat
      BY <3>1 DEF BadgeIInv
    <3> QED BY <3>1, <3>2, AsksKeeps
  <2>3. CASE UNCHANGED badgeVars
    BY <2>3 DEF BadgeIInv, Told, DueSet, WillAskAgain, badgeVars
  <2> QED BY <2>1, <2>2, <2>3, ServerAnswersKeeps, ArrivesKeeps, TimerFiresKeeps, AnswerLostKeeps,
         SecondPassesKeeps DEF BadgeNext
<1> QED BY BadgeStarts, BadgeFollows, <1>1, PTL DEF BadgeSpec


=============================================================================
