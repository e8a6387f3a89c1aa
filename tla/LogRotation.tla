---------------------------- MODULE LogRotation ----------------------------
(***************************************************************************)
(* The log files of the broker service: OpenLogFile and RotateLogs of      *)
(* src/windows/win_broker_os_interface.cpp and                             *)
(* src/macos/mac_broker_os_interface.cpp.  At each start of the service    *)
(* every log is copied to the next higher-numbered file, the highest       *)
(* first, and broker.log is then opened anew.  Copies are not atomic, any  *)
(* of them may fail, and the machine may go down between any two steps.    *)
(* File 0 is broker.log, file i is broker.log.i.  A log is known by the    *)
(* session that wrote it, and by whether the copy is whole.                *)
(***************************************************************************)
EXTENDS Naturals

CONSTANTS
  kMaxLogRotationFiles,  \* 5
  MaxSession             \* bound on the number of sessions

ASSUME RotationAssumption ==
  /\ kMaxLogRotationFiles \in Nat \ {0}
  /\ MaxSession \in Nat

Index == 0..kMaxLogRotationFiles

Missing == [session |-> 0, whole |-> FALSE]
Log == [session: Nat \ {0}, whole: BOOLEAN]
Exists(f) == f # Missing

VARIABLES
  platform,       \* "windows" or "macos"
  pc,             \* "down", "scan", "rotate", "copying", "open" or "running"
  files,          \* what each file holds
  rotate_number,  \* the loops' counter: files above it have been rotated
  rotate_error,
  session,        \* the number of the latest session
  \* History variables, read by no action:
  before,         \* the files when the service was last started
  highest,        \* the first missing file then, or the last file
  clean           \* nothing has failed, been cut short or been deleted yet

vars == <<platform, pc, files, rotate_number, rotate_error, session, before,
          highest, clean>>

Init == /\ platform \in {"windows", "macos"}
        /\ pc = "down"
        /\ files = [i \in Index |-> Missing]
        /\ rotate_number = 0
        /\ rotate_error = FALSE
        /\ session = 0
        /\ before = files
        /\ highest = 0
        /\ clean = TRUE

-----------------------------------------------------------------------------
(***************************************************************************)
(* The service starts and OpenLogFile calls RotateLogs.  Windows looks at  *)
(* broker.log first and stops early without it; macOS counts it in.        *)
(***************************************************************************)
WinRotateLogs ==
  /\ platform = "windows"
  /\ pc = "down"
  /\ \/ Exists(files[0]) /\ pc' = "scan" /\ rotate_number' = 1
     \/ ~Exists(files[0]) /\ pc' = "open" /\ rotate_number' = 0
  /\ highest' = 0
  /\ before' = files
  /\ rotate_error' = FALSE
  /\ UNCHANGED <<platform, files, session, clean>>

MacRotateLogs ==
  /\ platform = "macos"
  /\ pc = "down"
  /\ pc' = "scan"
  /\ rotate_number' = 0
  /\ highest' = 0
  /\ before' = files
  /\ rotate_error' = FALSE
  /\ UNCHANGED <<platform, files, session, clean>>

\* Mutants: the scan does not look whether a file exists; the last file is not
\* used.
ScansGaps == rotate_number < kMaxLogRotationFiles
StopsShort == rotate_number + 1 < kMaxLogRotationFiles /\ Exists(files[rotate_number])

\* The condition of the loop that determines the highest log backup file: it
\* stops at the first file that does not exist.
MoreToScan == rotate_number < kMaxLogRotationFiles /\ Exists(files[rotate_number])

ScanBackups ==
  /\ pc = "scan"
  /\ \/ /\ MoreToScan
        /\ rotate_number' = rotate_number + 1
        /\ UNCHANGED <<pc, highest>>
     \/ /\ ~MoreToScan
        /\ highest' = rotate_number
        /\ pc' = "rotate"
        /\ UNCHANGED rotate_number
  /\ UNCHANGED <<platform, files, rotate_error, session, before, clean>>

\* Mutant: a log is copied two files up.
TwoUp == IF rotate_number < kMaxLogRotationFiles THEN rotate_number + 1
                                                 ELSE rotate_number

\* The file that broker.log.(rotate_number - 1) is copied to.
Destination == rotate_number

\* A copy begins: the destination is created or truncated.
CopyBegin ==
  /\ pc = "rotate"
  /\ rotate_number > 0
  /\ rotate_number' = rotate_number - 1
  /\ files' = [files EXCEPT ![Destination] =
                 [session |-> files[rotate_number - 1].session, whole |-> FALSE]]
  /\ pc' = "copying"
  /\ UNCHANGED <<platform, rotate_error, session, before, highest, clean>>

\* Mutant: the source and the destination are swapped.
CopiedBack(from, to) == [files EXCEPT ![from] = files[to]]

Copied(from, to) == [files EXCEPT ![to] = files[from]]

\* A copy succeeds.
CopyEnd ==
  /\ pc = "copying"
  /\ files' = Copied(rotate_number, rotate_number + 1)
  /\ pc' = "rotate"
  /\ UNCHANGED <<platform, rotate_number, rotate_error, session, before, highest,
                 clean>>

\* Mutant: after a failed copy the rotation goes on with the other files.
TriesTheNext == "rotate"

\* Where RotateLogs goes after a copy that failed: it is given up.
AfterFailure == "open"

\* A copy fails, leaving what has been written of the destination or, as
\* CopyFile may, nothing.
CopyFail ==
  /\ pc = "copying"
  /\ \/ UNCHANGED files
     \/ /\ platform = "windows"
        /\ files' = [files EXCEPT ![rotate_number + 1] = Missing]
  /\ rotate_error' = TRUE
  /\ pc' = AfterFailure
  /\ clean' = FALSE
  /\ UNCHANGED <<platform, rotate_number, session, before, highest>>

\* A copy fails before it has touched the destination.
CopyRefused ==
  /\ pc = "rotate"
  /\ rotate_number > 0
  /\ rotate_error' = TRUE
  /\ pc' = "open"
  /\ clean' = FALSE
  /\ UNCHANGED <<platform, files, rotate_number, session, before, highest>>

RotateDone ==
  /\ pc = "rotate"
  /\ rotate_number = 0
  /\ pc' = "open"
  /\ UNCHANGED <<platform, files, rotate_number, rotate_error, session, before,
                 highest, clean>>

\* The new session's log replaces broker.log, rotated or not.
OpenTruncates ==
  /\ session < MaxSession
  /\ session' = session + 1
  /\ files' = [files EXCEPT ![0] = [session |-> session + 1, whole |-> TRUE]]
  /\ pc' = "running"
  /\ UNCHANGED clean

\* The log cannot be opened: OpenLogFile returns false and the service ends.
OpenFails ==
  /\ pc' = "down"
  /\ clean' = FALSE
  /\ UNCHANGED <<files, session>>

\* Windows, after RotateLogs: _wfsopen for writing.
WinOpenLogFile ==
  /\ platform = "windows"
  /\ pc = "open"
  /\ OpenTruncates \/ OpenFails
  /\ UNCHANGED <<platform, rotate_number, rotate_error, before, highest>>

(***************************************************************************)
(* macOS, after RotateLogs: broker.log is created if it is missing, which  *)
(* may fail; that log_stream_ opens is not checked, and if it does not     *)
(* nothing is logged in this session.                                      *)
(***************************************************************************)
MacOpenLogFile ==
  /\ platform = "macos"
  /\ pc = "open"
  /\ \/ OpenTruncates
     \/ OpenFails
     \/ /\ session < MaxSession
        /\ session' = session + 1
        /\ files' = IF Exists(files[0])
                    THEN files
                    ELSE [files EXCEPT ![0] = [session |-> session + 1,
                                               whole |-> TRUE]]
        /\ pc' = "running"
        /\ clean' = FALSE
  /\ UNCHANGED <<platform, rotate_number, rotate_error, before, highest>>

-----------------------------------------------------------------------------
\* The service is stopped, or the machine goes down, at any point.
GoDown ==
  /\ pc # "down"
  /\ pc' = "down"
  /\ clean' = (clean /\ pc \in {"scan", "running"})
  /\ UNCHANGED <<platform, files, rotate_number, rotate_error, session, before,
                 highest>>

\* Somebody deletes a log while the service is down.
DeleteLog(i) ==
  /\ pc = "down"
  /\ Exists(files[i])
  /\ files' = [files EXCEPT ![i] = Missing]
  /\ clean' = FALSE
  /\ UNCHANGED <<platform, pc, rotate_number, rotate_error, session, before,
                 highest>>

Next == \/ WinRotateLogs \/ MacRotateLogs \/ ScanBackups
        \/ CopyBegin \/ CopyEnd \/ CopyFail \/ CopyRefused \/ RotateDone
        \/ WinOpenLogFile \/ MacOpenLogFile \/ GoDown
        \/ \E i \in Index : DeleteLog(i)

Spec == Init /\ [][Next]_vars

-----------------------------------------------------------------------------
(***************************************************************************)
(* Properties.                                                             *)
(***************************************************************************)

\* The types: no file outside the range is read or written, and the source of
\* a copy is a log that exists, whatever has been deleted before the start.
TypeOK ==
  /\ platform \in {"windows", "macos"}
  /\ pc \in {"down", "scan", "rotate", "copying", "open", "running"}
  /\ files \in [Index -> Log \cup {Missing}]
  /\ rotate_number \in Index
  /\ rotate_error \in BOOLEAN
  /\ session \in Nat
  /\ before \in [Index -> Log \cup {Missing}]
  /\ highest \in Index
  /\ clean \in BOOLEAN
  /\ pc = "copying" => Exists(files[rotate_number])

\* A higher number is an older log, whatever copies failed, whenever the
\* machine went down, and although the logs are not renamed but copied.
AgeOrdered ==
  \A i, j \in Index :
    i < j /\ Exists(files[i]) /\ Exists(files[j])
      => files[i].session >= files[j].session

\* Until broker.log is opened anew, the rotation has destroyed no log but
\* the oldest of a full set: a crash or a failed copy loses nothing else.
RotationLosesNothing ==
  pc \in {"rotate", "copying", "open"} =>
    \A i \in Index :
      before[i].whole /\ (i = kMaxLogRotationFiles => highest # i)
        => \E j \in Index : files[j] = before[i]

\* After a start without an error every log is in the next file, up to the
\* first gap, and the files above the gap are untouched.
RotatedByOne ==
  pc = "running" /\ ~rotate_error =>
    \A i \in 1..kMaxLogRotationFiles :
      files[i] = IF i <= highest THEN before[i - 1] ELSE before[i]

\* A failed rotation costs the latest log, which the new one overwrites, and
\* the oldest of a full set, and no other.
FailureLosesOnlyLatest ==
  pc = "running" =>
    \A i \in 1..kMaxLogRotationFiles :
      before[i].whole /\ (i = kMaxLogRotationFiles => highest # i)
        => \E j \in 1..kMaxLogRotationFiles : files[j] = before[i]

\* The log of the session that ended so many sessions ago, if there was one.
LogOfAge(i) == IF i < session THEN [session |-> session - i, whole |-> TRUE]
                              ELSE Missing

\* README.md: the most recent log is broker.log, and it becomes broker.log.1,
\* then broker.log.2, and so on.  However many times the service has been
\* started and stopped, as long as nothing has failed, each file up to the
\* last holds the whole log of the session its number says.
NumberedByAge ==
  pc = "running" /\ clean => \A i \in Index : files[i] = LogOfAge(i)
=============================================================================
