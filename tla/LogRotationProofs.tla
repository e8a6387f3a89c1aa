------------------------- MODULE LogRotationProofs -------------------------
(***************************************************************************)
(* Proofs, for every number of files and sessions and both platforms, of   *)
(* the properties of LogRotation.                                          *)
(***************************************************************************)
EXTENDS LogRotation, TLAPS

-----------------------------------------------------------------------------
(***************************************************************************)
(* The inductive invariant.                                                *)
(***************************************************************************)

\* Between a start and the end of the session.
Up == pc \in {"rotate", "copying", "open", "running"}

\* What the scan has seen and, afterwards, found: the files below highest
\* exist, and highest does not unless it is the last.
GapInv ==
  /\ pc = "scan" => /\ files = before
                    /\ \A i \in Index : i < rotate_number => Exists(before[i])
  /\ Up => /\ \A i \in Index : i < highest => Exists(before[i])
           /\ highest < kMaxLogRotationFiles => ~Exists(before[highest])

\* The files above the one being written are rotated, those below are not.
ShapeInv ==
  /\ pc \in {"rotate", "copying", "open"} => files[0] = before[0]
  /\ Up => \A i \in 1..kMaxLogRotationFiles :
             /\ rotate_number + 1 < i /\ i <= highest
                  => files[i] = before[i - 1]
             /\ i <= rotate_number \/ highest < i => files[i] = before[i]
  /\ pc = "rotate" \/ (pc \in {"open", "running"} /\ ~rotate_error) =>
       (rotate_number < highest =>
          files[rotate_number + 1] = before[rotate_number])
  /\ pc = "scan" => ~rotate_error
  /\ pc = "rotate" => ~rotate_error /\ rotate_number <= highest
  /\ pc = "copying" => ~rotate_error /\ rotate_number < highest
  /\ pc \in {"open", "running"} /\ ~rotate_error => rotate_number = 0

\* No log is from a session to come.
SessionInv == \A i \in Index : files[i].session <= session

\* As long as nothing has gone wrong: between two rotations every file holds
\* the log its number says, and during one the files above the counter are
\* one session ahead of the rest.
NumberedInv ==
  clean =>
    /\ pc \in {"down", "scan", "running"} =>
         \A i \in Index : files[i] = LogOfAge(i)
    /\ pc \in {"rotate", "copying", "open"} =>
         \A i \in Index :
           /\ i <= rotate_number => files[i] = LogOfAge(i)
           /\ i > rotate_number /\ ~(pc = "copying" /\ i = rotate_number + 1)
                => files[i] = LogOfAge(i - 1)
    /\ pc = "open" => rotate_number = 0

IInv == /\ TypeOK
        /\ GapInv
        /\ ShapeInv
        /\ SessionInv
        /\ AgeOrdered
        /\ NumberedInv

-----------------------------------------------------------------------------
\* The numbers of files are naturals.
LEMMA IndexFacts ==
  /\ kMaxLogRotationFiles \in Nat
  /\ 0 \in Index
  /\ 1 \in Index
  /\ \A i \in Index : i \in Nat /\ i <= kMaxLogRotationFiles
  /\ \A i \in Nat : i <= kMaxLogRotationFiles => i \in Index
  /\ \A i \in 1..kMaxLogRotationFiles : i \in Index /\ i - 1 \in Index
  BY RotationAssumption DEF Index

\* A log that exists has a session, and a partial copy of it exists too.
LEMMA LogFacts ==
  ASSUME NEW f \in Log \cup {Missing}
  PROVE  /\ f.session \in Nat
         /\ f.whole \in BOOLEAN
         /\ Exists(f) <=> f.session # 0
         /\ f.whole => Exists(f)
         /\ [session |-> f.session, whole |-> FALSE] \in Log \cup {Missing}
<1> DEFINE g == [session |-> f.session, whole |-> FALSE]
<1>1. CASE f \in Log
  <2>1. f.session \in Nat /\ f.session # 0 /\ f.whole \in BOOLEAN
    BY <1>1 DEF Log
  <2>2. g \in Log
    BY <2>1 DEF Log
  <2>3. f # Missing
    BY <2>1 DEF Missing
  <2> QED  BY <2>1, <2>2, <2>3 DEF Exists
<1>2. CASE f = Missing
  <2>1. f.session = 0 /\ f.whole = FALSE
    BY <1>2 DEF Missing
  <2>2. g = Missing
    BY <2>1 DEF Missing
  <2>3. ~Exists(f)
    BY <1>2 DEF Exists
  <2>4. g \in Log \cup {Missing}
    BY <2>2
  <2> HIDE DEF g
  <2>5. f.session \in Nat
    BY <2>1
  <2>7. f.whole \in BOOLEAN
    <3>1. f.whole = FALSE
      BY <2>1
    <3> QED  BY <3>1, Zenon
  <2>6. (Exists(f) <=> f.session # 0) /\ (f.whole => Exists(f))
    BY <2>1, <2>3
  <2> QED  BY <2>4, <2>5, <2>6, <2>7 DEF g
<1> QED  BY <1>1, <1>2

\* The log of a new session is a log.
LEMMA NewLog ==
  ASSUME session \in Nat
  PROVE  [session |-> session + 1, whole |-> TRUE] \in Log
  BY DEF Log

\* Every step keeps the types.
LEMMA TypeStep ==
  ASSUME IInv, [Next]_vars
  PROVE  TypeOK'
<1> USE IndexFacts DEF IInv, TypeOK, vars
<1>1. CASE WinRotateLogs
  BY <1>1 DEF WinRotateLogs
<1>2. CASE MacRotateLogs
  BY <1>2 DEF MacRotateLogs
<1>3. CASE ScanBackups
  BY <1>3 DEF ScanBackups, MoreToScan
<1>4. CASE CopyBegin
  <2>1. rotate_number - 1 \in Index
    BY <1>4 DEF CopyBegin, Destination
  <2>2. [session |-> files[rotate_number - 1].session, whole |-> FALSE]
          \in Log \cup {Missing}
    BY <2>1, LogFacts
  <2>3. files[rotate_number - 1] = before[rotate_number - 1]
    BY <1>4, <2>1 DEF CopyBegin, ShapeInv, Up
  <2>4. Exists(files[rotate_number - 1])
    BY <1>4, <2>1, <2>3 DEF CopyBegin, ShapeInv, GapInv, Up
  <2>5. files'[rotate_number'] = files[rotate_number - 1]
    BY <1>4, <2>1 DEF CopyBegin, Destination
  <2>6. Exists(files'[rotate_number'])
    BY <2>4, <2>5 DEF Exists
  <2> QED  BY <1>4, <2>1, <2>2, <2>6 DEF CopyBegin, Destination
<1>5. CASE CopyEnd
  BY <1>5 DEF CopyEnd, Copied
<1>6. CASE CopyFail
  BY <1>6 DEF CopyFail, AfterFailure
<1>7. CASE CopyRefused
  BY <1>7 DEF CopyRefused
<1>8. CASE RotateDone
  BY <1>8 DEF RotateDone
<1>9. CASE WinOpenLogFile
  <2>1. session' \in Nat
    BY <1>9 DEF WinOpenLogFile, OpenTruncates, OpenFails
  <2>2. \/ files' = files
        \/ files' = [files EXCEPT ![0] = [session |-> session + 1,
                                          whole |-> TRUE]]
    BY <1>9 DEF WinOpenLogFile, OpenTruncates, OpenFails
  <2>3. files' \in [Index -> Log \cup {Missing}]
    BY <2>2, NewLog
  <2>4. pc' \in {"down", "running"}
    BY <1>9 DEF WinOpenLogFile, OpenTruncates, OpenFails
  <2>5. clean' \in BOOLEAN
    BY <1>9 DEF WinOpenLogFile, OpenTruncates, OpenFails
  <2> QED  BY <1>9, <2>1, <2>3, <2>4, <2>5 DEF WinOpenLogFile
<1>10. CASE MacOpenLogFile
  <2>1. session' \in Nat
    BY <1>10 DEF MacOpenLogFile, OpenTruncates, OpenFails
  <2>2. \/ files' = files
        \/ files' = [files EXCEPT ![0] = [session |-> session + 1,
                                          whole |-> TRUE]]
    BY <1>10 DEF MacOpenLogFile, OpenTruncates, OpenFails
  <2>3. files' \in [Index -> Log \cup {Missing}]
    BY <2>2, NewLog
  <2>4. pc' \in {"down", "running"}
    BY <1>10 DEF MacOpenLogFile, OpenTruncates, OpenFails
  <2>5. clean' \in BOOLEAN
    BY <1>10 DEF MacOpenLogFile, OpenTruncates, OpenFails
  <2> QED  BY <1>10, <2>1, <2>3, <2>4, <2>5 DEF MacOpenLogFile
<1>11. CASE GoDown
  BY <1>11 DEF GoDown
<1>12. ASSUME NEW i \in Index, DeleteLog(i)
       PROVE  TypeOK'
  BY <1>12 DEF DeleteLog
<1>13. CASE UNCHANGED vars
  BY <1>13
<1> QED
  BY <1>1, <1>2, <1>3, <1>4, <1>5, <1>6, <1>7, <1>8, <1>9, <1>10, <1>11,
     <1>12, <1>13 DEF Next

\* Every step keeps what is known of the gap.
LEMMA GapStep ==
  ASSUME IInv, [Next]_vars
  PROVE  GapInv'
<1> USE IndexFacts DEF IInv, TypeOK, GapInv, Up, vars
<1>1. CASE WinRotateLogs
  BY <1>1 DEF WinRotateLogs
<1>2. CASE MacRotateLogs
  BY <1>2 DEF MacRotateLogs
<1>3. CASE ScanBackups
  BY <1>3 DEF ScanBackups, MoreToScan
<1>4. CASE CopyBegin
  BY <1>4 DEF CopyBegin, Destination
<1>5. CASE CopyEnd
  BY <1>5 DEF CopyEnd, Copied
<1>6. CASE CopyFail
  BY <1>6 DEF CopyFail, AfterFailure
<1>7. CASE CopyRefused
  BY <1>7 DEF CopyRefused
<1>8. CASE RotateDone
  BY <1>8 DEF RotateDone
<1>9. CASE WinOpenLogFile
  BY <1>9 DEF WinOpenLogFile, OpenTruncates, OpenFails
<1>10. CASE MacOpenLogFile
  BY <1>10 DEF MacOpenLogFile, OpenTruncates, OpenFails
<1>11. CASE GoDown
  BY <1>11 DEF GoDown
<1>12. ASSUME NEW i \in Index, DeleteLog(i)
       PROVE  GapInv'
  BY <1>12 DEF DeleteLog
<1>13. CASE UNCHANGED vars
  BY <1>13
<1> QED
  BY <1>1, <1>2, <1>3, <1>4, <1>5, <1>6, <1>7, <1>8, <1>9, <1>10, <1>11,
     <1>12, <1>13 DEF Next

\* Every step keeps the files above the counter rotated and the others not.
LEMMA ShapeStep ==
  ASSUME IInv, [Next]_vars
  PROVE  ShapeInv'
<1> USE IndexFacts DEF IInv, TypeOK, ShapeInv, Up, vars
<1>1. CASE WinRotateLogs
  BY <1>1 DEF WinRotateLogs
<1>2. CASE MacRotateLogs
  BY <1>2 DEF MacRotateLogs
<1>3. CASE ScanBackups
  BY <1>3 DEF ScanBackups, MoreToScan, GapInv
<1>4. CASE CopyBegin
  BY <1>4 DEF CopyBegin, Destination
<1>5. CASE CopyEnd
  BY <1>5 DEF CopyEnd, Copied
<1>6. CASE CopyFail
  BY <1>6 DEF CopyFail, AfterFailure
<1>7. CASE CopyRefused
  BY <1>7 DEF CopyRefused
<1>8. CASE RotateDone
  BY <1>8 DEF RotateDone
<1>9. CASE WinOpenLogFile
  BY <1>9 DEF WinOpenLogFile, OpenTruncates, OpenFails
<1>10. CASE MacOpenLogFile
  BY <1>10 DEF MacOpenLogFile, OpenTruncates, OpenFails
<1>11. CASE GoDown
  BY <1>11 DEF GoDown
<1>12. ASSUME NEW i \in Index, DeleteLog(i)
       PROVE  ShapeInv'
  BY <1>12 DEF DeleteLog
<1>13. CASE UNCHANGED vars
  BY <1>13
<1> QED
  BY <1>1, <1>2, <1>3, <1>4, <1>5, <1>6, <1>7, <1>8, <1>9, <1>10, <1>11,
     <1>12, <1>13 DEF Next

\* Erasing a log, or replacing it by one from the session of the file below,
\* keeps the logs in the past and in order of age.
LEMMA ReplaceKeepsAge ==
  ASSUME TypeOK, SessionInv, AgeOrdered,
         NEW d \in Index, NEW g \in Log \cup {Missing},
         g.session = 0 \/ (d > 0 /\ g.session = files[d - 1].session),
         files' = [files EXCEPT ![d] = g], session' = session
  PROVE  SessionInv' /\ AgeOrdered'
<1>1. \A i \in Index : /\ files[i].session \in Nat
                       /\ Exists(files[i]) <=> files[i].session # 0
  BY LogFacts DEF TypeOK
<1>2. \A i \in Index : files'[i] = IF i = d THEN g ELSE files[i]
  BY DEF TypeOK
<1>3. g.session \in Nat /\ (Exists(g) <=> g.session # 0)
  BY LogFacts
<1>4. d > 0 => d - 1 \in Index
  BY IndexFacts
<1>5. SessionInv'
  BY <1>1, <1>2, <1>3, <1>4, IndexFacts DEF SessionInv, TypeOK
<1>6. ASSUME NEW i \in Index, NEW j \in Index, i < j,
             Exists(files'[i]), Exists(files'[j])
      PROVE  files'[i].session >= files'[j].session
  <2>1. CASE i # d /\ j # d
    BY <1>2, <1>6, <2>1 DEF AgeOrdered
  <2>2. CASE i = d
    <3>1. j # d /\ d > 0 /\ g.session = files[d - 1].session /\ d - 1 < j
      BY <1>2, <1>3, <1>4, <1>6, <2>2, IndexFacts
    <3> QED
      BY <1>1, <1>2, <1>3, <1>4, <1>6, <2>2, <3>1 DEF AgeOrdered
  <2>3. CASE j = d
    <3>1. i # d /\ d > 0 /\ g.session = files[d - 1].session /\ i <= d - 1
      BY <1>2, <1>3, <1>4, <1>6, <2>3, IndexFacts
    <3>2. CASE i = d - 1
      BY <1>1, <1>2, <2>3, <3>1, <3>2
    <3>3. CASE i < d - 1
      BY <1>1, <1>2, <1>3, <1>4, <1>6, <2>3, <3>1, <3>3 DEF AgeOrdered
    <3> QED  BY <3>1, <3>2, <3>3, IndexFacts
  <2> QED  BY <2>1, <2>2, <2>3
<1> QED  BY <1>5, <1>6 DEF AgeOrdered

\* Opening broker.log for a new session keeps them too.
LEMMA OpenKeepsAge ==
  ASSUME TypeOK, SessionInv, AgeOrdered, session' = session + 1,
         files' = [files EXCEPT ![0] = [session |-> session + 1,
                                        whole |-> TRUE]]
  PROVE  SessionInv' /\ AgeOrdered'
<1>1. \A i \in Index : files[i].session \in Nat /\ files[i].session <= session
  BY LogFacts DEF TypeOK, SessionInv
<1>2. \A i \in Index : i # 0 => files'[i] = files[i]
  BY DEF TypeOK
<1>3. files'[0].session = session + 1
  BY IndexFacts DEF TypeOK
<1>4. session \in Nat
  BY DEF TypeOK
<1>5. SessionInv'
  BY <1>1, <1>2, <1>3, <1>4 DEF SessionInv
<1>6. AgeOrdered'
  BY <1>1, <1>2, <1>3, <1>4, IndexFacts DEF AgeOrdered
<1> QED  BY <1>5, <1>6

\* Every step keeps the logs in the past and in order of age.
LEMMA AgeStep ==
  ASSUME IInv, [Next]_vars
  PROVE  SessionInv' /\ AgeOrdered'
<1> USE IndexFacts DEF IInv
<1> DEFINE Same == UNCHANGED <<files, session>>
<1>1. ASSUME Same
      PROVE  SessionInv' /\ AgeOrdered'
  BY <1>1 DEF SessionInv, AgeOrdered
<1>2. CASE WinRotateLogs
  BY <1>1, <1>2 DEF WinRotateLogs
<1>3. CASE MacRotateLogs
  BY <1>1, <1>3 DEF MacRotateLogs
<1>4. CASE ScanBackups
  BY <1>1, <1>4 DEF ScanBackups, MoreToScan
<1>5. CASE CopyBegin
  <2> DEFINE g == [session |-> files[rotate_number - 1].session,
                   whole |-> FALSE]
  <2>1. rotate_number \in Index /\ rotate_number > 0 /\ rotate_number - 1 \in Index
    BY <1>5 DEF CopyBegin, Destination, TypeOK
  <2>2. /\ g \in Log \cup {Missing}
        /\ g.session = files[rotate_number - 1].session
    BY <2>1, LogFacts DEF TypeOK
  <2>3. files' = [files EXCEPT ![rotate_number] = g] /\ session' = session
    BY <1>5 DEF CopyBegin, Destination
  <2> HIDE DEF g
  <2> QED  BY <2>1, <2>2, <2>3, ReplaceKeepsAge
<1>6. CASE CopyEnd
  <2>1. rotate_number + 1 \in Index
    BY <1>6 DEF CopyEnd, Copied, ShapeInv, TypeOK
  <2>2. files[rotate_number] \in Log \cup {Missing}
    BY DEF TypeOK
  <2>3. (rotate_number + 1) - 1 = rotate_number /\ rotate_number + 1 > 0
    BY DEF TypeOK
  <2>4. /\ files' = [files EXCEPT ![rotate_number + 1] = files[rotate_number]]
        /\ session' = session
    BY <1>6 DEF CopyEnd, Copied
  <2> QED  BY <2>1, <2>2, <2>3, <2>4, ReplaceKeepsAge
<1>7. CASE CopyFail
  <2>1. rotate_number + 1 \in Index
    BY <1>7 DEF CopyFail, AfterFailure, ShapeInv, TypeOK
  <2>2. Missing \in Log \cup {Missing} /\ Missing.session = 0
    BY DEF Missing
  <2>3. CASE files' = [files EXCEPT ![rotate_number + 1] = Missing]
    BY <1>7, <2>1, <2>2, <2>3, ReplaceKeepsAge DEF CopyFail, AfterFailure
  <2> QED  BY <1>1, <1>7, <2>3 DEF CopyFail, AfterFailure
<1>8. CASE CopyRefused
  BY <1>1, <1>8 DEF CopyRefused
<1>9. CASE RotateDone
  BY <1>1, <1>9 DEF RotateDone
<1>10. CASE WinOpenLogFile
  BY <1>1, <1>10, OpenKeepsAge DEF WinOpenLogFile, OpenTruncates, OpenFails
<1>11. CASE MacOpenLogFile
  <2>1. CASE session' = session + 1 /\ files' = files
    <3>1. \A i \in Index : files[i].session \in Nat
      BY LogFacts DEF TypeOK
    <3>2. SessionInv'
      BY <2>1, <3>1 DEF SessionInv, TypeOK
    <3> QED  BY <2>1, <3>2 DEF AgeOrdered
  <2> QED
    BY <1>1, <1>11, <2>1, OpenKeepsAge
       DEF MacOpenLogFile, OpenTruncates, OpenFails
<1>12. CASE GoDown
  BY <1>1, <1>12 DEF GoDown
<1>13. ASSUME NEW i \in Index, DeleteLog(i)
       PROVE  SessionInv' /\ AgeOrdered'
  <2>1. Missing \in Log \cup {Missing} /\ Missing.session = 0
    BY DEF Missing
  <2> QED  BY <1>13, <2>1, ReplaceKeepsAge DEF DeleteLog
<1>14. CASE UNCHANGED vars
  BY <1>1, <1>14 DEF vars
<1> QED
  BY <1>2, <1>3, <1>4, <1>5, <1>6, <1>7, <1>8, <1>9, <1>10, <1>11, <1>12,
     <1>13, <1>14 DEF Next

\* A file is missing exactly if there was no session of its age.
LEMMA AgeExists ==
  ASSUME session \in Nat, NEW i \in Nat
  PROVE  Exists(LogOfAge(i)) <=> i < session
<1>1. CASE i < session
  <2>1. LogOfAge(i).session = session - i /\ session - i # 0
    BY <1>1 DEF LogOfAge
  <2>2. Missing.session = 0
    BY DEF Missing
  <2> QED  BY <1>1, <2>1, <2>2 DEF Exists
<1>2. CASE ~(i < session)
  BY <1>2 DEF LogOfAge, Exists
<1> QED  BY <1>1, <1>2

\* A new session makes every log one session older.
LEMMA AgeShifts ==
  ASSUME session \in Nat, session' = session + 1
  PROVE  /\ LogOfAge(0)' = [session |-> session + 1, whole |-> TRUE]
         /\ \A i \in Nat \ {0} : LogOfAge(i)' = LogOfAge(i - 1)
<1>1. LogOfAge(0)' = [session |-> session + 1, whole |-> TRUE]
  BY DEF LogOfAge
<1>2. ASSUME NEW i \in Nat \ {0}
      PROVE  LogOfAge(i)' = LogOfAge(i - 1)
  <2>1. i - 1 \in Nat /\ (i < session + 1 <=> i - 1 < session)
        /\ session + 1 - i = session - (i - 1)
    OBVIOUS
  <2> QED  BY <2>1 DEF LogOfAge
<1> QED  BY <1>1, <1>2

\* Every step keeps the numbering.
LEMMA NumberedStep ==
  ASSUME IInv, [Next]_vars
  PROVE  NumberedInv'
<1> SUFFICES ASSUME clean'  PROVE NumberedInv'
  BY DEF NumberedInv
<1> DEFINE Unshifted(i) == files[i] = LogOfAge(i)
           Shifted(i) == files[i] = LogOfAge(i - 1)
<1> USE IndexFacts DEF IInv, TypeOK, NumberedInv, vars
<1>0. session' = session => \A i : LogOfAge(i)' = LogOfAge(i)
  BY DEF LogOfAge
<1>1. CASE WinRotateLogs
  <2>1. clean /\ \A i \in Index : Unshifted(i)
    BY <1>1 DEF WinRotateLogs
  <2>2. ~Exists(files[0]) => session = 0 /\ \A i \in Index : files[i] = Missing
    <3>1. ~Exists(files[0]) => session = 0
      BY <2>1, AgeExists
    <3> QED  BY <2>1, <3>1 DEF LogOfAge
  <2>3. session = 0 =>
          \A i \in Index : /\ LogOfAge(i) = Missing
                          /\ i # 0 => LogOfAge(i - 1) = Missing
    BY DEF LogOfAge
  <2> QED  BY <1>0, <1>1, <2>1, <2>2, <2>3 DEF WinRotateLogs
<1>2. CASE MacRotateLogs
  BY <1>0, <1>2 DEF MacRotateLogs
<1>3. CASE ScanBackups
  <2>1. clean /\ \A i \in Index : Unshifted(i)
    BY <1>3 DEF ScanBackups
  <2>2. CASE pc' = "scan"
    BY <1>0, <1>3, <2>1, <2>2 DEF ScanBackups
  <2>3. CASE pc' = "rotate"
    <3>1. rotate_number = kMaxLogRotationFiles \/ session <= rotate_number
      BY <1>3, <2>1, <2>3, AgeExists DEF ScanBackups, MoreToScan
    <3>2. ASSUME NEW i \in Index, i > rotate_number
          PROVE  LogOfAge(i) = Missing /\ LogOfAge(i - 1) = Missing
      BY <3>1, <3>2 DEF LogOfAge
    <3> QED  BY <1>0, <1>3, <2>1, <2>3, <3>2 DEF ScanBackups
  <2> QED  BY <1>3, <2>2, <2>3 DEF ScanBackups
<1>4. CASE CopyBegin
  <2>1. \A i \in Index : i # rotate_number => files'[i] = files[i]
    BY <1>4 DEF CopyBegin, Destination
  <2>2. clean /\ pc = "rotate" /\ pc' = "copying" /\ session' = session
        /\ rotate_number > 0 /\ rotate_number' = rotate_number - 1
    BY <1>4 DEF CopyBegin
  <2> QED  BY <1>0, <2>1, <2>2
<1>5. CASE CopyEnd
  <2>1. clean /\ pc = "copying" /\ pc' = "rotate" /\ session' = session
        /\ rotate_number' = rotate_number
    BY <1>5 DEF CopyEnd
  <2>2. rotate_number + 1 \in Index
    BY <2>1 DEF ShapeInv
  <2>3. /\ files'[rotate_number + 1] = files[rotate_number]
        /\ \A i \in Index : i # rotate_number + 1 => files'[i] = files[i]
    BY <1>5, <2>2 DEF CopyEnd, Copied
  <2> QED  BY <1>0, <2>1, <2>2, <2>3
<1>6. CASE CopyFail \/ CopyRefused
  BY <1>6 DEF CopyFail, CopyRefused
<1>7. CASE RotateDone
  BY <1>0, <1>7 DEF RotateDone
<1>8. CASE WinOpenLogFile \/ MacOpenLogFile
  <2>1. clean /\ pc = "open" /\ OpenTruncates
    BY <1>8 DEF WinOpenLogFile, MacOpenLogFile, OpenFails, OpenTruncates
  <2>2. /\ pc' = "running"
        /\ session' = session + 1
        /\ files'[0] = [session |-> session + 1, whole |-> TRUE]
        /\ \A i \in Index : i # 0 => files'[i] = files[i]
    BY <2>1 DEF OpenTruncates
  <2>3. \A i \in Index : i # 0 => Shifted(i)
    BY <2>1
  <2> QED  BY <2>2, <2>3, AgeShifts
<1>9. CASE GoDown
  BY <1>0, <1>9 DEF GoDown
<1>10. CASE \E i \in Index : DeleteLog(i)
  BY <1>10 DEF DeleteLog
<1>11. CASE UNCHANGED vars
  BY <1>0, <1>11
<1> QED
  BY <1>1, <1>2, <1>3, <1>4, <1>5, <1>6, <1>7, <1>8, <1>9, <1>10, <1>11
     DEF Next

-----------------------------------------------------------------------------
\* The inductive invariant holds in every state of every behaviour.
LEMMA Inductive == Spec => []IInv
<1>1. Init => IInv
  <2> SUFFICES ASSUME Init  PROVE IInv
    OBVIOUS
  <2>1. TypeOK
    BY IndexFacts DEF Init, TypeOK
  <2>2. GapInv /\ ShapeInv
    BY DEF Init, GapInv, ShapeInv, Up
  <2>3. \A i \in Index : ~Exists(files[i]) /\ files[i].session = 0
    BY DEF Init, Missing, Exists
  <2>4. SessionInv /\ AgeOrdered
    BY <2>3 DEF Init, SessionInv, AgeOrdered
  <2>5. NumberedInv
    BY IndexFacts DEF Init, NumberedInv, LogOfAge
  <2> QED  BY <2>1, <2>2, <2>4, <2>5 DEF IInv
<1>2. IInv /\ [Next]_vars => IInv'
  BY TypeStep, GapStep, ShapeStep, AgeStep, NumberedStep DEF IInv
<1> QED  BY <1>1, <1>2, PTL DEF Spec

\* Every variable keeps its type: no index runs out of the files.
THEOREM TypeCorrect == Spec => []TypeOK
<1>1. IInv => TypeOK  BY DEF IInv
<1> QED  BY <1>1, Inductive, PTL

\* The numbers of the files always order the logs by age.
THEOREM LogsAreAgeOrdered == Spec => []AgeOrdered
<1>1. IInv => AgeOrdered  BY DEF IInv
<1> QED  BY <1>1, Inductive, PTL

\* A crash or a failure in the middle of a rotation destroys no log but the
\* oldest of a full set.
THEOREM RotationIsCrashSafe == Spec => []RotationLosesNothing
<1>1. ASSUME IInv, pc \in {"rotate", "copying", "open"}, NEW i \in Index,
             before[i].whole, i = kMaxLogRotationFiles => highest # i
      PROVE  \E j \in Index : files[j] = before[i]
  <2>1. Exists(before[i])
    BY <1>1, LogFacts DEF IInv, TypeOK
  <2>2. CASE i = 0
    BY <1>1, <2>2, IndexFacts DEF IInv, ShapeInv
  <2>3. CASE i # 0 /\ (i <= rotate_number \/ highest < i)
    BY <1>1, <2>3, IndexFacts DEF IInv, ShapeInv, Up
  <2>4. CASE i # 0 /\ rotate_number < i /\ i <= highest
    <3>1. i # highest
      BY <1>1, <2>1, <2>4, IndexFacts DEF IInv, GapInv, Up, TypeOK
    <3>2. i + 1 \in 1..kMaxLogRotationFiles /\ i + 1 <= highest /\ (i + 1) - 1 = i
      BY <1>1, <2>4, <3>1, IndexFacts DEF IInv, TypeOK
    <3>3. files[i + 1] = before[(i + 1) - 1]
      BY <1>1, <2>4, <3>2, IndexFacts DEF IInv, ShapeInv, Up, TypeOK
    <3> QED  BY <3>2, <3>3, IndexFacts
  <2> QED  BY <1>1, <2>2, <2>3, <2>4, IndexFacts DEF IInv, TypeOK
<1>2. IInv => RotationLosesNothing
  BY <1>1 DEF RotationLosesNothing
<1> QED  BY <1>2, Inductive, PTL

\* A start without an error moves every log up by one, as far as the first
\* gap.
THEOREM RotationMovesByOne == Spec => []RotatedByOne
<1>1. ASSUME IInv, pc = "running", ~rotate_error,
             NEW i \in 1..kMaxLogRotationFiles
      PROVE  files[i] = IF i <= highest THEN before[i - 1] ELSE before[i]
  <2>1. rotate_number = 0 /\ highest \in Nat /\ i \in Nat /\ i >= 1
    BY <1>1, IndexFacts DEF IInv, ShapeInv, TypeOK
  <2>2. CASE i = 1
    BY <1>1, <2>1, <2>2 DEF IInv, ShapeInv, Up
  <2>3. CASE i > 1
    BY <1>1, <2>1, <2>3 DEF IInv, ShapeInv, Up
  <2> QED  BY <2>1, <2>2, <2>3
<1>2. IInv => RotatedByOne
  BY <1>1 DEF RotatedByOne
<1> QED  BY <1>2, Inductive, PTL

\* A failed rotation costs at most the latest log and the oldest of a full
\* set.
THEOREM FailureCostsOneLog == Spec => []FailureLosesOnlyLatest
<1>1. ASSUME IInv, pc = "running", NEW i \in 1..kMaxLogRotationFiles,
             before[i].whole, i = kMaxLogRotationFiles => highest # i
      PROVE  \E j \in 1..kMaxLogRotationFiles : files[j] = before[i]
  <2>1. Exists(before[i])
    BY <1>1, LogFacts, IndexFacts DEF IInv, TypeOK
  <2>2. CASE i <= rotate_number \/ highest < i
    BY <1>1, <2>2 DEF IInv, ShapeInv, Up
  <2>3. CASE rotate_number < i /\ i <= highest
    <3>1. i # highest
      BY <1>1, <2>1, <2>3, IndexFacts DEF IInv, GapInv, Up, TypeOK
    <3>2. i + 1 \in 1..kMaxLogRotationFiles /\ i + 1 <= highest /\ (i + 1) - 1 = i
      BY <1>1, <2>3, <3>1, IndexFacts DEF IInv, TypeOK
    <3>3. files[i + 1] = before[(i + 1) - 1]
      BY <1>1, <2>3, <3>2, IndexFacts DEF IInv, ShapeInv, Up, TypeOK
    <3> QED  BY <3>2, <3>3
  <2> QED  BY <1>1, <2>2, <2>3, IndexFacts DEF IInv, TypeOK
<1>2. IInv => FailureLosesOnlyLatest
  BY <1>1 DEF FailureLosesOnlyLatest
<1> QED  BY <1>2, Inductive, PTL

\* However many sessions there have been, on either platform and for any
\* number of files, the file with number i holds the log of i sessions ago.
THEOREM LogsAreNumberedByAge == Spec => []NumberedByAge
<1>1. IInv => NumberedByAge
  BY DEF IInv, NumberedInv, NumberedByAge
<1> QED  BY <1>1, Inductive, PTL
=============================================================================
