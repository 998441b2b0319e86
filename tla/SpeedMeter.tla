----------------------------- MODULE SpeedMeter -----------------------------
(***************************************************************************)
(* ClientInfo::current_bytes_received, the counter of an upload that two   *)
(* threads share: the upload's adds to it after every read, the speed      *)
(* thread prints it every three seconds and empties it.  Nothing orders    *)
(* the two, so each load and each store is a step.  total_bytes_received   *)
(* has one writer and is in FtpServer.                                     *)
(***************************************************************************)
EXTENDS Integers

CONSTANTS
  Sizes,      \* how many bytes a read may return
  MaxCount,   \* bound on what is counted
  Garbage     \* what memory may hold that nothing has been written to

ASSUME ConstantsAssumption == /\ Sizes \subseteq Nat \ {0}
                              /\ MaxCount \in Nat
                              /\ Garbage \subseteq 0 .. MaxCount

VARIABLES
  current_bytes_received,
  is_data_ended,
  sum,         \* what the upload's thread is about to store, or Nothing
  speed,       \* where the speed thread is
  counted,     \* history: what was in the counter first, and all bytes read
  reported,    \* history: what the instantaneous reports add up to
  overlapped   \* history: an addition and a report have overlapped

vars == <<current_bytes_received, is_data_ended, sum, speed, counted, reported,
          overlapped>>

Nothing == -1

\* The constructor leaves the counter as it is.
Init == /\ current_bytes_received \in Garbage
        /\ is_data_ended = FALSE
        /\ sum = Nothing
        /\ speed = "start"
        /\ counted = current_bytes_received /\ reported = 0
        /\ overlapped = FALSE

(***************************************************************************)
(* The upload's thread.                                                    *)
(***************************************************************************)

\* Variant with a bug: what has been read so far is added, not the last read.
loadTotal(n) ==
  /\ sum = Nothing /\ ~is_data_ended
  /\ counted + n <= MaxCount
  /\ counted' = counted + n
  /\ sum' = current_bytes_received + counted + n
  /\ overlapped' = (overlapped \/ speed = "reporting")
  /\ UNCHANGED <<current_bytes_received, is_data_ended, speed, reported>>

\* addBytesReceived after a read of n bytes: the counter is loaded ...
load(n) ==
  /\ sum = Nothing /\ ~is_data_ended
  /\ counted + n <= MaxCount
  /\ counted' = counted + n
  /\ sum' = current_bytes_received + n
  /\ overlapped' = (overlapped \/ speed = "reporting")
  /\ UNCHANGED <<current_bytes_received, is_data_ended, speed, reported>>

\* ... and stored.
store ==
  /\ sum # Nothing
  /\ current_bytes_received' = sum
  /\ sum' = Nothing
  /\ UNCHANGED <<is_data_ended, speed, counted, reported, overlapped>>

stopTiming ==
  /\ sum = Nothing /\ ~is_data_ended
  /\ is_data_ended' = TRUE
  /\ UNCHANGED <<current_bytes_received, sum, speed, counted, reported,
                 overlapped>>

(***************************************************************************)
(* The speed thread.                                                       *)
(***************************************************************************)
Timer == IF is_data_ended THEN "ended" ELSE "waiting"

\* startSpeedChecking, at the start of the thread and after a report.
startSpeedChecking ==
  /\ speed \in {"start", "reported"}
  /\ speed' = Timer
  /\ UNCHANGED <<current_bytes_received, is_data_ended, sum, counted, reported,
                 overlapped>>

\* Variant with a bug: the early return does not set the timer again.
printSpeedInfoOnce ==
  /\ speed = "waiting"
  /\ speed' = IF current_bytes_received = 0 THEN "ended" ELSE "nonzero"
  /\ UNCHANGED <<current_bytes_received, is_data_ended, sum, counted, reported,
                 overlapped>>

\* The timer expires; with nothing received it is set again.
printSpeedInfo ==
  /\ speed = "waiting"
  /\ speed' = IF current_bytes_received = 0 THEN Timer ELSE "nonzero"
  /\ UNCHANGED <<current_bytes_received, is_data_ended, sum, counted, reported,
                 overlapped>>

\* The counter is loaded for the instantaneous speed ...
report ==
  /\ speed = "nonzero"
  /\ speed' = "reporting"
  /\ reported' = reported + current_bytes_received
  /\ overlapped' = (overlapped \/ sum # Nothing)
  /\ UNCHANGED <<current_bytes_received, is_data_ended, sum, counted>>

\* Variant with a bug: it is never emptied.
resetNever ==
  /\ speed = "reporting"
  /\ speed' = "reported"
  /\ UNCHANGED <<current_bytes_received, is_data_ended, sum, counted, reported,
                 overlapped>>

\* ... and emptied.
reset ==
  /\ speed = "reporting"
  /\ speed' = "reported"
  /\ current_bytes_received' = 0
  /\ UNCHANGED <<is_data_ended, sum, counted, reported, overlapped>>

Next == \/ \E n \in Sizes : load(n)
        \/ store \/ stopTiming
        \/ startSpeedChecking \/ printSpeedInfo \/ report \/ reset

Spec == Init /\ [][Next]_vars
-----------------------------------------------------------------------------
\* Every variable keeps its type; whatever overlaps, the counter never gets
\* ahead of what was in it and what has been read.  client_info.cpp:19-22,36-55.
TypeOK ==
  /\ counted \in 0 .. MaxCount
  /\ current_bytes_received \in 0 .. counted
  /\ sum \in {Nothing} \cup 0 .. counted
  /\ speed \in {"start", "waiting", "nonzero", "reporting", "reported", "ended"}
  /\ reported \in Nat
  /\ is_data_ended \in BOOLEAN /\ overlapped \in BOOLEAN

\* What is still to be reported: what the addition under way will leave, and
\* otherwise what is in the counter.
Pending == IF sum # Nothing THEN sum ELSE current_bytes_received

\* As long as no addition overlaps a report, every byte is in exactly one
\* report or still to be reported.  An overlap alone can lose bytes, or have
\* them reported twice.  client_info.cpp:20,42-45.
EachByteReportedOnce ==
  ~overlapped =>
    counted = reported + (IF speed = "reporting" THEN 0 ELSE Pending)

\* A speed thread whose timer was set in time does not end without a report
\* when there was something to count, even if additions overlap its look at
\* the counter.  client_info.cpp:29-40.
EndsWithReport ==
  [][speed = "waiting" /\ speed' = "ended" => reported > 0 \/ counted = 0]_vars
=============================================================================
