-------------------------- MODULE SpeedMeterProofs --------------------------
(***************************************************************************)
(* The byte counter of an upload for reads of any sizes: whatever overlaps *)
(* it never gets ahead of what was read, without overlaps every byte is    *)
(* reported once, and what was counted does not end unreported.            *)
(***************************************************************************)
EXTENDS SpeedMeter, TLAPS

\* Reports and additions that have not overlapped take turns.
TakeTurns == ~overlapped /\ speed = "reporting" => sum = Nothing

\* The last addition is over when stopTiming() is called, no addition is
\* empty, and what made a report necessary is there when it is made.
Additions == /\ is_data_ended => sum = Nothing
             /\ sum # Nothing => sum > 0
             /\ speed = "nonzero" => current_bytes_received > 0

\* Until something has been reported nothing is lost.
NothingLost == reported = 0 =>
                 speed \notin {"reporting", "reported"} /\ counted = Pending

IInv == TypeOK /\ EachByteReportedOnce /\ TakeTurns /\ Additions /\ NothingLost

USE DEF Nothing

\* Nothing is counted at the start but what the counter held.
LEMMA InitInv == Init => IInv
<1> SUFFICES ASSUME Init PROVE IInv
  OBVIOUS
<1>1. current_bytes_received \in 0 .. MaxCount
  BY ConstantsAssumption DEF Init
<1>2. TypeOK
  <2>1. /\ counted \in 0 .. MaxCount /\ current_bytes_received \in 0 .. counted
        /\ sum \in {Nothing} \cup 0 .. counted /\ reported \in Nat
    BY <1>1, ConstantsAssumption DEF Init
  <2>2. is_data_ended \in BOOLEAN /\ overlapped \in BOOLEAN
    BY DEF Init
  <2> QED
    BY <2>1, <2>2 DEF Init, TypeOK
<1>3. EachByteReportedOnce /\ TakeTurns /\ Additions /\ NothingLost
  BY <1>1 DEF Init, EachByteReportedOnce, TakeTurns, Additions, NothingLost,
              Pending
<1> QED
  BY <1>2, <1>3 DEF IInv

\* Every step keeps the invariant.
LEMMA NextInv == IInv /\ [Next]_vars => IInv'
<1> SUFFICES ASSUME IInv, [Next]_vars PROVE IInv'
  OBVIOUS
<1> USE ConstantsAssumption
    DEF IInv, TypeOK, EachByteReportedOnce, TakeTurns, Additions, NothingLost,
        Pending
<1>1. ASSUME NEW n \in Sizes, load(n) PROVE IInv'
  <2>1. n \in Nat /\ n > 0
    OBVIOUS
  <2>2. TypeOK'
    BY <1>1, <2>1 DEF load
  <2>3. TakeTurns'
    BY <1>1 DEF load
  <2>4. EachByteReportedOnce'
    <3> SUFFICES ASSUME ~overlapped'
                 PROVE  counted' = reported' + sum' /\ speed' # "reporting"
      BY <1>1, <2>1 DEF load
    <3>1. ~overlapped /\ speed # "reporting"
      BY <1>1 DEF load
    <3>2. counted = reported + current_bytes_received
      BY <1>1, <3>1 DEF load
    <3> QED
      BY <1>1, <2>1, <3>1, <3>2 DEF load
  <2>5. Additions' /\ NothingLost'
    BY <1>1, <2>1 DEF load
  <2> QED
    BY <2>2, <2>3, <2>4, <2>5
<1>2. CASE store
  BY <1>2 DEF store
<1>3. CASE stopTiming
  BY <1>3 DEF stopTiming
<1>4. CASE startSpeedChecking
  BY <1>4 DEF startSpeedChecking, Timer
<1>5. CASE printSpeedInfo
  BY <1>5 DEF printSpeedInfo, Timer
<1>6. CASE report
  <2>1. reported \in Nat /\ reported' = reported + current_bytes_received
    BY <1>6 DEF report
  <2>2. current_bytes_received \in Nat /\ current_bytes_received > 0
    BY <1>6 DEF report
  <2>3. reported' \in Nat /\ reported' > 0
    BY <2>1, <2>2
  <2>4. TypeOK'
    <3>1. overlapped' \in BOOLEAN
      BY <1>6 DEF report
    <3> QED
      BY <1>6, <2>3, <3>1 DEF report
  <2>5. EachByteReportedOnce' /\ TakeTurns'
    <3> SUFFICES ASSUME ~overlapped'
                 PROVE  counted' = reported' + 0 /\ speed' = "reporting"
                        /\ sum' = Nothing
      OBVIOUS
    <3>1. ~overlapped /\ sum = Nothing
      BY <1>6 DEF report
    <3>2. counted = reported + current_bytes_received
      BY <1>6, <3>1 DEF report
    <3> QED
      BY <1>6, <2>1, <2>2, <3>1, <3>2 DEF report
  <2>6. Additions' /\ NothingLost'
    BY <1>6, <2>3 DEF report
  <2> QED
    BY <2>4, <2>5, <2>6
<1>7. CASE reset
  BY <1>7 DEF reset
<1>8. CASE UNCHANGED vars
  BY <1>8 DEF vars
<1> QED
  BY <1>1, <1>2, <1>3, <1>4, <1>5, <1>6, <1>7, <1>8 DEF Next

\* The invariant holds throughout.
LEMMA Inductive == Spec => []IInv
BY InitInv, NextInv, PTL DEF Spec

\* Every variable keeps its type, and the counter never gets ahead of what was
\* in it and what has been read.  client_info.cpp:19-22,36-55.
THEOREM TypeCorrect == Spec => []TypeOK
<1>1. IInv => TypeOK
  BY DEF IInv
<1> QED
  BY <1>1, Inductive, PTL

\* Without an overlap every byte is in one report or still to be reported, for
\* reads of any sizes.  client_info.cpp:20,42-45.
THEOREM ReportedOnce == Spec => []EachByteReportedOnce
<1>1. IInv => EachByteReportedOnce
  BY DEF IInv
<1> QED
  BY <1>1, Inductive, PTL

\* A speed thread that has looked at the counter does not end without a report
\* when there was something to count.  client_info.cpp:29-40.
THEOREM ReportsBeforeEnd == Spec => EndsWithReport
<1>1. IInv /\ [Next]_vars =>
        [speed = "waiting" /\ speed' = "ended" => reported > 0 \/ counted = 0]_vars
  <2> SUFFICES ASSUME IInv, [Next]_vars, speed = "waiting", speed' = "ended"
               PROVE  reported > 0 \/ counted = 0
    OBVIOUS
  <2>1. printSpeedInfo
    BY DEF Next, vars, load, store, stopTiming, startSpeedChecking, report, reset
  <2>2. current_bytes_received = 0 /\ is_data_ended
    BY <2>1 DEF printSpeedInfo, Timer
  <2> QED
    BY <2>2 DEF IInv, TypeOK, Additions, NothingLost, Pending
<1> QED
  BY <1>1, Inductive, PTL DEF Spec, EndsWithReport
=============================================================================
