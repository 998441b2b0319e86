------------------------- MODULE SelfDetectorProofs -------------------------
(***************************************************************************)
(* Safety of the self-detector for any number of threads and copies and    *)
(* with any faults: the state is well typed, the receive is under way in   *)
(* one place, and the chain of checks neither breaks nor forks by itself.  *)
(* Then the list, for threads whose handlers run within their second: who  *)
(* is silent is off it in time, who is heard steadily is on it.            *)
(***************************************************************************)
EXTENDS SelfDetector, FiniteSetTheorems, TLAPS

\* A receive that has failed is within the bound on failures.
ErrorsLeft == receive = "error" => errors < MaxErrors

IInv == TypeOK /\ CheckChain /\ OneReceive /\ ErrorsLeft

\* The threads that are at one of the steps.
In(steps) == {t \in Threads : work[t].at \in steps}
Stamps == {"stampNew", "stampKnown"}
Checks == {"erase", "forget"}

\* What is counted, as numbers: a program counter at one of the steps, the
\* timer if it is waited for, the receive if there is none.
Is(w, steps) == IF w.at \in steps THEN 1 ELSE 0
Waits == IF wait # NoWait THEN 1 ELSE 0
None  == IF receive = "none" THEN 1 ELSE 0

\* The two sets the properties count, in this form.
LEMMA InSteps == /\ At("stampNew") \cup At("stampKnown") = In(Stamps)
                 /\ Checking = In(Checks)
BY DEF At, Checking, In, Stamps, Checks

\* The number of threads at some steps after thread t has gone on to w.
LEMMA Moves ==
  ASSUME TypeOK, NEW t \in Threads, NEW w, Goes(t, w), NEW steps
  PROVE  /\ Cardinality(In(steps)) \in Nat /\ Cardinality(In(steps)') \in Nat
         /\ Cardinality(In(steps)') + Is(work[t], steps)
              = Cardinality(In(steps)) + Is(w, steps)
<1>1. IsFiniteSet(In(steps))
  BY ConstantsAssumption, FS_Subset DEF In
<1>2. In(steps)' = IF w.at \in steps THEN In(steps) \cup {t}
                                    ELSE In(steps) \ {t}
  BY DEF In, Goes, TypeOK
<1>3. t \in In(steps) <=> work[t].at \in steps
  BY DEF In
<1>4. /\ Cardinality(In(steps) \cup {t})
           = IF t \in In(steps) THEN Cardinality(In(steps))
                                ELSE Cardinality(In(steps)) + 1
      /\ Cardinality(In(steps) \ {t})
           = IF t \in In(steps) THEN Cardinality(In(steps)) - 1
                                ELSE Cardinality(In(steps))
      /\ IsFiniteSet(In(steps) \cup {t}) /\ IsFiniteSet(In(steps) \ {t})
  BY <1>1, FS_AddElement, FS_RemoveElement
<1>5. /\ Cardinality(In(steps)) \in Nat
      /\ Cardinality(In(steps) \cup {t}) \in Nat
      /\ Cardinality(In(steps) \ {t}) \in Nat
  BY <1>1, <1>4, FS_CardinalityType
<1>6. Cardinality(In(steps)') = IF w.at \in steps
                                THEN Cardinality(In(steps) \cup {t})
                                ELSE Cardinality(In(steps) \ {t})
  BY <1>2
<1>7. Cardinality(In(steps)') + Is(work[t], steps)
        = Cardinality(In(steps)) + Is(w, steps)
  BY <1>3, <1>4, <1>5, <1>6 DEF Is
<1> QED
  BY <1>5, <1>6, <1>7

\* The chain and the receive in terms of the two numbers.
Chain == alive => Waits + posted + Cardinality(In(Checks)) = 1 + errors
Receive == alive => Cardinality(In(Stamps)) = None

\* The properties are these.
LEMMA Counted == (CheckChain <=> Chain) /\ (OneReceive <=> Receive)
BY InSteps DEF CheckChain, OneReceive, Chain, Receive, Waits, None

\* The same in the next state.
LEMMA CountedNext == (CheckChain' <=> Chain') /\ (OneReceive' <=> Receive')
<1>1. /\ (At("stampNew") \cup At("stampKnown"))' = In(Stamps)'
      /\ Checking' = In(Checks)'
  BY DEF At, Checking, In, Stamps, Checks
<1> QED
  BY <1>1 DEF CheckChain, OneReceive, Chain, Receive, Waits, None

\* The steps a thread can be at, and what the program counters look like.
LEMMA WorkTypes ==
  ASSUME TypeOK, NEW t \in Threads
  PROVE  /\ work[t] \in Works
         /\ Idle \in Works /\ Idle.at = "idle"
         /\ \A e \in Copies, s \in Stamps :
              Receiving(s, e) \in Works /\ Receiving(s, e).at = s
         /\ \A S \in SUBSET Copies :
              Erasing(S) \in Works /\ Erasing(S).at = "erase"
         /\ \A e \in Copies, S \in SUBSET Copies :
              Forgetting(e, S) \in Works /\ Forgetting(e, S).at = "forget"
         /\ "idle" \notin Stamps \cup Checks
         /\ Stamps \cap Checks = {}
BY DEF TypeOK, Works, Idle, Receiving, Erasing, Forgetting, Stamps, Checks
-----------------------------------------------------------------------------
(***************************************************************************)
(* The steps that move a thread.                                           *)
(***************************************************************************)

\* A step that moves thread t on to w changes the two numbers by what t was
\* and is counted for; it preserves the invariant if the receive, the timer
\* and what is posted change to match.
LEMMA MoveIInv ==
  ASSUME IInv, NEW t \in Threads, NEW w \in Works, Goes(t, w),
         TypeOK', ErrorsLeft', alive' = alive,
         alive => /\ None' + Is(work[t], Stamps) = None + Is(w, Stamps)
                  /\ Waits' + posted' + errors + Is(w, Checks)
                       = Waits + posted + errors' + Is(work[t], Checks)
  PROVE  IInv'
<1>1. /\ Cardinality(In(Stamps)) \in Nat /\ Cardinality(In(Stamps)') \in Nat
      /\ Cardinality(In(Stamps)') + Is(work[t], Stamps)
           = Cardinality(In(Stamps)) + Is(w, Stamps)
  BY Moves DEF IInv
<1>2. /\ Cardinality(In(Checks)) \in Nat /\ Cardinality(In(Checks)') \in Nat
      /\ Cardinality(In(Checks)') + Is(work[t], Checks)
           = Cardinality(In(Checks)) + Is(w, Checks)
  BY Moves DEF IInv
<1>3. /\ posted \in Nat /\ errors \in Nat /\ posted' \in Nat /\ errors' \in Nat
      /\ Waits \in Nat /\ Waits' \in Nat /\ None \in Nat /\ None' \in Nat
  BY ConstantsAssumption DEF IInv, TypeOK, Waits, None
<1>4. \A steps : Is(w, steps) \in Nat /\ Is(work[t], steps) \in Nat
  BY DEF Is
<1>5. Chain /\ Receive
  BY Counted DEF IInv
<1>6. PICK w0 \in Nat, w1 \in Nat : w0 = Waits /\ w1 = Waits'
  BY <1>3
<1>7. PICK n0 \in Nat, n1 \in Nat : n0 = None /\ n1 = None'
  BY <1>3
<1>8. Receive'
  <2> SUFFICES ASSUME alive
               PROVE  (Cardinality(In(Stamps)) = None)'
    BY DEF Receive
  <2>1. PICK c0 \in Nat, c1 \in Nat :
          c0 = Cardinality(In(Stamps)) /\ c1 = Cardinality(In(Stamps)')
    BY <1>1
  <2>2. PICK i0 \in Nat, i1 \in Nat :
          i0 = Is(work[t], Stamps) /\ i1 = Is(w, Stamps)
    BY <1>4
  <2>3. c0 = n0
    BY <2>1, <1>5, <1>7 DEF Receive
  <2>4. c1 + i0 = c0 + i1
    BY <2>1, <2>2, <1>1
  <2>5. n1 + i0 = n0 + i1
    BY <2>2, <1>7
  <2>6. c1 = n1
    BY <2>3, <2>4, <2>5
  <2> QED
    BY <2>1, <2>6, <1>7
<1>9. Chain'
  <2> SUFFICES ASSUME alive
               PROVE  (Waits + posted + Cardinality(In(Checks)) = 1 + errors)'
    BY DEF Chain
  <2>1. PICK c0 \in Nat, c1 \in Nat :
          c0 = Cardinality(In(Checks)) /\ c1 = Cardinality(In(Checks)')
    BY <1>2
  <2>2. PICK i0 \in Nat, i1 \in Nat :
          i0 = Is(work[t], Checks) /\ i1 = Is(w, Checks)
    BY <1>4
  <2>3. w0 + posted + c0 = 1 + errors
    BY <2>1, <1>5, <1>6 DEF Chain
  <2>4. c1 + i0 = c0 + i1
    BY <2>1, <2>2, <1>2
  <2>5. w1 + posted' + errors + i1 = w0 + posted + errors' + i0
    BY <2>2, <1>6
  <2>6. w1 + posted' + c1 = 1 + errors'
    BY <2>3, <2>4, <2>5, <1>3
  <2> QED
    BY <2>1, <2>6, <1>6
<1> QED
  BY <1>8, <1>9, CountedNext DEF IInv

\* A step that moves no thread preserves the invariant if the receive, the
\* timer and what is posted change to match.
LEMMA StayIInv ==
  ASSUME IInv, UNCHANGED work, TypeOK', ErrorsLeft', alive' = alive,
         None' = None,
         Waits' + posted' + errors = Waits + posted + errors'
  PROVE  IInv'
<1>1. In(Stamps)' = In(Stamps) /\ In(Checks)' = In(Checks)
  BY DEF In
<1>2. /\ posted \in Nat /\ errors \in Nat /\ posted' \in Nat /\ errors' \in Nat
      /\ Waits \in Nat /\ Waits' \in Nat
  BY ConstantsAssumption DEF IInv, TypeOK, Waits
<1>3. IsFiniteSet(In(Checks))
  BY ConstantsAssumption, FS_Subset DEF In
<1>4. Cardinality(In(Checks)) \in Nat
  BY <1>3, FS_CardinalityType
<1>5. Chain /\ Receive
  BY Counted DEF IInv
<1>6. Receive'
  BY <1>1, <1>5 DEF Receive
<1>7. Chain'
  <2> SUFFICES ASSUME alive
               PROVE  (Waits + posted + Cardinality(In(Checks)) = 1 + errors)'
    BY DEF Chain
  <2>1. PICK c \in Nat : c = Cardinality(In(Checks))
    BY <1>4
  <2>2. PICK w0 \in Nat, w1 \in Nat : w0 = Waits /\ w1 = Waits'
    BY <1>2
  <2>3. w0 + posted + c = 1 + errors
    BY <2>1, <2>2, <1>5 DEF Chain
  <2>4. w1 + posted' + errors = w0 + posted + errors'
    BY <2>2
  <2>5. w1 + posted' + c = 1 + errors'
    BY <2>3, <2>4, <1>2
  <2> QED
    BY <2>1, <2>2, <2>5, <1>1
<1> QED
  BY <1>6, <1>7, CountedNext DEF IInv

\* The end of the process leaves nothing to count.
LEMMA TerminateIInv ==
  ASSUME IInv, Terminate
  PROVE  IInv'
<1>1. TypeOK'
  <2>1. DOMAIN last_activity' = {}
    BY DEF Terminate
  <2>2. /\ heard' \in [Copies -> Ages] /\ steady' \in [Copies -> 0 .. Settled]
        /\ work' \in [Threads -> Works]
    BY DEF Terminate, Ages, MaxAge, Settled, Silence, Interval, Works, Idle
  <2> QED
    BY <2>1, <2>2 DEF IInv, TypeOK, Terminate, Results, NoWait
<1>2. ErrorsLeft' /\ CheckChain' /\ OneReceive'
  BY DEF Terminate, ErrorsLeft, CheckChain, OneReceive
<1> QED
  BY <1>1, <1>2 DEF IInv

\* While a thread is in the receive handler there is no receive.
LEMMA StampingNone ==
  ASSUME IInv, alive, NEW t \in Threads, work[t].at \in Stamps
  PROVE  receive = "none"
<1>1. IsFiniteSet(In(Stamps)) /\ t \in In(Stamps)
  BY ConstantsAssumption, FS_Subset DEF In
<1>2. Cardinality(In(Stamps)) # 0
  BY <1>1, FS_EmptySet
<1>3. Cardinality(In(Stamps)) = None
  BY Counted DEF IInv, Receive
<1> QED
  BY <1>2, <1>3 DEF None

\* The receive handler, for one of ours.
LEMMA handleReceiveIInv ==
  ASSUME IInv, NEW t \in Threads, handleReceive(t)
  PROVE  IInv'
<1> DEFINE w == Receiving(IF receive \in live_copies THEN "stampKnown"
                                                    ELSE "stampNew", receive)
<1>1. /\ w \in Works /\ w.at \in Stamps /\ w.at \notin Checks
      /\ work[t].at \notin Stamps /\ work[t].at \notin Checks
  BY WorkTypes DEF IInv, handleReceive, Stamps, Checks
<1>2. receive # "none"
  BY ConstantsAssumption DEF handleReceive, Results
<1>3. TypeOK'
  BY <1>1 DEF IInv, TypeOK, handleReceive, Goes, Results, Ages, MaxAge, Silence,
              Interval
<1>4. ErrorsLeft' /\ alive' = alive /\ Goes(t, w)
  BY DEF handleReceive, ErrorsLeft
<1>5. posted \in Nat /\ errors \in Nat
  BY ConstantsAssumption DEF IInv, TypeOK
<1> HIDE DEF w
<1>6. None' + Is(work[t], Stamps) = None + Is(w, Stamps)
  BY <1>1, <1>2 DEF handleReceive, None, Is
<1>7. Waits' + posted' + errors + Is(w, Checks)
        = Waits + posted + errors' + Is(work[t], Checks)
  BY <1>1, <1>5 DEF handleReceive, Waits, Is
<1> QED
  BY <1>1, <1>3, <1>4, <1>6, <1>7, MoveIInv

\* Its end: the time stamp is written and the next receive is started.
LEMMA stampCopyIInv ==
  ASSUME IInv, NEW t \in Threads, stampCopy(t)
  PROVE  IInv'
<1>1. /\ Idle \in Works /\ Idle.at \notin Stamps /\ Idle.at \notin Checks
      /\ work[t].at \in Stamps /\ work[t].at \notin Checks
      /\ work[t].who \in Copies
  BY WorkTypes DEF IInv, TypeOK, stampCopy, At, Stamps, Checks, Works, Idle
<1>2. TypeOK'
  BY <1>1 DEF IInv, TypeOK, stampCopy, startReceive, Goes, Results, Ages, MaxAge,
              Silence, Interval
<1>3. ErrorsLeft' /\ alive' = alive /\ Goes(t, Idle)
  BY DEF stampCopy, startReceive, ErrorsLeft
<1>4. posted \in Nat /\ errors \in Nat
  BY ConstantsAssumption DEF IInv, TypeOK
<1>5. alive => None' + Is(work[t], Stamps) = None + Is(Idle, Stamps)
  <2> SUFFICES ASSUME alive
               PROVE  None' + Is(work[t], Stamps) = None + Is(Idle, Stamps)
    OBVIOUS
  <2>1. receive = "none"
    BY <1>1, StampingNone
  <2> QED
    BY <1>1, <2>1 DEF stampCopy, startReceive, None, Is
<1>6. Waits' + posted' + errors + Is(Idle, Checks)
        = Waits + posted + errors' + Is(work[t], Checks)
  BY <1>1, <1>4 DEF stampCopy, Waits, Is
<1> QED
  BY <1>1, <1>2, <1>3, <1>5, <1>6, MoveIInv

\* The receive handler, for a stranger's datagram.
LEMMA ignoreStrangerIInv ==
  ASSUME IInv, NEW t \in Threads, ignoreStranger(t)
  PROVE  IInv'
<1>1. TypeOK'
  BY DEF IInv, TypeOK, ignoreStranger, startReceive, Results
<1>2. ErrorsLeft' /\ alive' = alive /\ UNCHANGED work
  BY DEF ignoreStranger, startReceive, ErrorsLeft
<1>3. receive # "none"
  BY ConstantsAssumption DEF ignoreStranger, Results
<1>4. None' = None
  BY <1>3 DEF ignoreStranger, startReceive, None
<1>5. Waits' + posted' + errors = Waits + posted + errors'
  BY DEF ignoreStranger, Waits
<1> QED
  BY <1>1, <1>2, <1>4, <1>5, StayIInv

\* The receive handler, for a receive that failed: one more check is on its way.
LEMMA handleReceiveErrorIInv ==
  ASSUME IInv, NEW t \in Threads, handleReceiveError(t)
  PROVE  IInv'
<1>1. posted \in Nat /\ errors \in Nat /\ errors < MaxErrors
  BY ConstantsAssumption DEF IInv, TypeOK, ErrorsLeft, handleReceiveError
<1>2. TypeOK'
  BY <1>1, ConstantsAssumption DEF IInv, TypeOK, handleReceiveError,
       startReceive, startActivityCheckTimer, Results, Interval, NoWait
<1>3. ErrorsLeft' /\ alive' = alive /\ UNCHANGED work
  BY DEF handleReceiveError, startReceive, ErrorsLeft
<1>4. None' = None
  BY DEF handleReceiveError, startReceive, None
<1>5. Waits' + posted' + errors = Waits + posted + errors'
  BY <1>1 DEF handleReceiveError, startActivityCheckTimer, Waits, Interval, NoWait
<1> QED
  BY <1>2, <1>3, <1>4, <1>5, StayIInv

\* The check begins: what was posted is running.
LEMMA checkActivityIInv ==
  ASSUME IInv, NEW t \in Threads, checkActivity(t)
  PROVE  IInv'
<1>1. PICK S \in SUBSET Copies : Goes(t, Erasing(S))
  BY DEF IInv, TypeOK, checkActivity
<1>2. /\ Erasing(S) \in Works
      /\ Erasing(S).at \notin Stamps /\ Erasing(S).at \in Checks
      /\ work[t].at \notin Stamps /\ work[t].at \notin Checks
  BY WorkTypes DEF IInv, checkActivity, Stamps, Checks
<1>3. posted \in Nat \ {0} /\ errors \in Nat
  BY ConstantsAssumption DEF IInv, TypeOK, checkActivity
<1>4. TypeOK'
  <2>1. /\ DOMAIN last_activity' \subseteq Copies
        /\ \A e \in DOMAIN last_activity' :
             last_activity'[e] \in Ages \cup {NoTime}
    BY DEF IInv, TypeOK, checkActivity
  <2>2. work' \in [Threads -> Works]
    BY <1>1, <1>2 DEF IInv, TypeOK, Goes
  <2>3. posted' \in Nat
    BY <1>3 DEF checkActivity
  <2> QED
    BY <2>1, <2>2, <2>3 DEF IInv, TypeOK, checkActivity
<1>5. ErrorsLeft' /\ alive' = alive
  BY DEF IInv, checkActivity, ErrorsLeft
<1>6. None' + Is(work[t], Stamps) = None + Is(Erasing(S), Stamps)
  BY <1>2 DEF checkActivity, None, Is
<1>7. Waits' + posted' + errors + Is(Erasing(S), Checks)
        = Waits + posted + errors' + Is(work[t], Checks)
  BY <1>2, <1>3 DEF checkActivity, Waits, Is
<1> QED
  BY <1>1, <1>2, <1>4, <1>5, <1>6, <1>7, MoveIInv

\* It takes a copy off the list ...
LEMMA eraseCopyIInv ==
  ASSUME IInv, NEW t \in Threads, eraseCopy(t)
  PROVE  IInv'
<1>1. PICK e \in work[t].from :
        /\ live_copies' = live_copies \ {e}
        /\ Goes(t, Forgetting(e, work[t].from \ {e}))
  BY DEF eraseCopy
<1> DEFINE w == Forgetting(e, work[t].from \ {e})
<1>2. work[t].at = "erase" /\ work[t].from \in SUBSET Copies
  BY DEF IInv, TypeOK, eraseCopy, At, Works, Idle
<1>3. /\ w \in Works /\ w.at \notin Stamps /\ w.at \in Checks
      /\ work[t].at \notin Stamps /\ work[t].at \in Checks
  BY <1>2, WorkTypes DEF IInv, Stamps, Checks
<1> HIDE DEF w
<1>4. TypeOK'
  BY <1>1, <1>3 DEF IInv, TypeOK, eraseCopy, Goes, w
<1>5. ErrorsLeft' /\ alive' = alive /\ Goes(t, w)
  BY <1>1 DEF IInv, eraseCopy, ErrorsLeft, w
<1>6. posted \in Nat /\ errors \in Nat
  BY ConstantsAssumption DEF IInv, TypeOK
<1>7. None' + Is(work[t], Stamps) = None + Is(w, Stamps)
  BY <1>3 DEF eraseCopy, None, Is
<1>8. Waits' + posted' + errors + Is(w, Checks)
        = Waits + posted + errors' + Is(work[t], Checks)
  BY <1>3, <1>6 DEF eraseCopy, Waits, Is
<1> QED
  BY <1>3, <1>4, <1>5, <1>7, <1>8, MoveIInv

\* ... and then its time stamp.
LEMMA eraseStampIInv ==
  ASSUME IInv, NEW t \in Threads, eraseStamp(t)
  PROVE  IInv'
<1> DEFINE w == Erasing(work[t].from)
<1>1. work[t].at = "forget" /\ work[t].from \in SUBSET Copies
  BY DEF IInv, TypeOK, eraseStamp, At, Works, Idle
<1>2. /\ w \in Works /\ w.at \notin Stamps /\ w.at \in Checks
      /\ work[t].at \notin Stamps /\ work[t].at \in Checks
  BY <1>1, WorkTypes DEF IInv, Stamps, Checks
<1> HIDE DEF w
<1>3. TypeOK'
  <2>1. /\ DOMAIN last_activity' \subseteq Copies
        /\ \A e \in DOMAIN last_activity' :
             last_activity'[e] \in Ages \cup {NoTime}
    BY DEF IInv, TypeOK, eraseStamp, Restrict
  <2> QED
    BY <1>2, <2>1 DEF IInv, TypeOK, eraseStamp, Goes, w
<1>4. ErrorsLeft' /\ alive' = alive /\ Goes(t, w)
  BY DEF IInv, eraseStamp, ErrorsLeft, w
<1>5. posted \in Nat /\ errors \in Nat
  BY ConstantsAssumption DEF IInv, TypeOK
<1>6. None' + Is(work[t], Stamps) = None + Is(w, Stamps)
  BY <1>2 DEF eraseStamp, None, Is
<1>7. Waits' + posted' + errors + Is(w, Checks)
        = Waits + posted + errors' + Is(work[t], Checks)
  BY <1>2, <1>5 DEF eraseStamp, Waits, Is
<1> QED
  BY <1>2, <1>3, <1>4, <1>6, <1>7, MoveIInv

\* The check ends: a wait that was under way is cancelled, and its handler
\* takes the place of the check.
LEMMA checkAgainIInv ==
  ASSUME IInv, NEW t \in Threads, checkAgain(t)
  PROVE  IInv'
<1>1. /\ Idle \in Works /\ Idle.at \notin Stamps /\ Idle.at \notin Checks
      /\ work[t].at \notin Stamps /\ work[t].at \in Checks
  BY WorkTypes DEF IInv, checkAgain, Stamps, Checks
<1>2. posted \in Nat /\ errors \in Nat
  BY ConstantsAssumption DEF IInv, TypeOK
<1>3. TypeOK'
  BY <1>1, <1>2 DEF IInv, TypeOK, checkAgain, startActivityCheckTimer, Goes,
                    Interval, NoWait
<1>4. ErrorsLeft' /\ alive' = alive /\ Goes(t, Idle)
  BY DEF IInv, checkAgain, ErrorsLeft
<1>5. None' + Is(work[t], Stamps) = None + Is(Idle, Stamps)
  BY <1>1 DEF checkAgain, None, Is
<1>6. Waits' + posted' + errors + Is(Idle, Checks)
        = Waits + posted + errors' + Is(work[t], Checks)
  BY <1>1, <1>2 DEF checkAgain, startActivityCheckTimer, Waits, Is, Interval,
                    NoWait
<1> QED
  BY <1>1, <1>3, <1>4, <1>5, <1>6, MoveIInv
-----------------------------------------------------------------------------
(***************************************************************************)
(* The steps that move no thread.                                          *)
(***************************************************************************)

\* The sender ends the process or touches nothing that is counted.
LEMMA sendUdpMessageIInv ==
  ASSUME IInv, NEW t \in Threads, sendUdpMessage(t)
  PROVE  IInv'
<1>1. CASE Terminate
  BY <1>1, TerminateIInv
<1>2. CASE /\ network' = network \cup {Self}
           /\ beat' = Beat
           /\ UNCHANGED <<alive, live_copies, last_activity, wait, posted,
                          receive, work, heard, errors, steady>>
  <2>1. TypeOK'
    BY <1>2, ConstantsAssumption DEF IInv, TypeOK, Beat
  <2>2. /\ ErrorsLeft' /\ None' = None
        /\ Waits' + posted' + errors = Waits + posted + errors'
    BY <1>2 DEF IInv, ErrorsLeft, None, Waits
  <2> QED
    BY <1>2, <2>1, <2>2, StayIInv
<1> QED
  BY <1>1, <1>2 DEF sendUdpMessage

\* The wait ends and the check is posted.
LEMMA timerExpiresIInv ==
  ASSUME IInv, timerExpires
  PROVE  IInv'
<1>1. posted \in Nat /\ errors \in Nat
  BY ConstantsAssumption DEF IInv, TypeOK
<1>2. TypeOK'
  BY <1>1 DEF IInv, TypeOK, timerExpires
<1>3. /\ ErrorsLeft' /\ None' = None
      /\ Waits' + posted' + errors = Waits + posted + errors'
  BY <1>1 DEF IInv, timerExpires, ErrorsLeft, None, Waits, NoWait
<1> QED
  BY <1>2, <1>3, StayIInv DEF timerExpires

\* Datagrams on their way are not counted.
LEMMA PeerSendsIInv ==
  ASSUME IInv, NEW e \in Copies \cup {Stranger}, PeerSends(e)
  PROVE  IInv'
<1>1. TypeOK'
  BY DEF IInv, TypeOK, PeerSends
<1>2. /\ ErrorsLeft' /\ None' = None
      /\ Waits' + posted' + errors = Waits + posted + errors'
  BY DEF IInv, PeerSends, ErrorsLeft, None, Waits
<1> QED
  BY <1>1, <1>2, StayIInv DEF PeerSends

LEMMA LoseIInv ==
  ASSUME IInv, NEW e \in Copies \cup {Stranger}, Lose(e)
  PROVE  IInv'
<1>1. TypeOK'
  BY DEF IInv, TypeOK, Lose
<1>2. /\ ErrorsLeft' /\ None' = None
      /\ Waits' + posted' + errors = Waits + posted + errors'
  BY DEF IInv, Lose, ErrorsLeft, None, Waits
<1> QED
  BY <1>1, <1>2, StayIInv DEF Lose

\* A datagram ends the receive, which is there until its handler begins.
LEMMA ArriveIInv ==
  ASSUME IInv, NEW e \in Copies \cup {Stranger}, Arrive(e)
  PROVE  IInv'
<1>1. e # "none" /\ e # "error"
  BY ConstantsAssumption DEF Results
<1>2. TypeOK'
  BY DEF IInv, TypeOK, Arrive
<1>3. ErrorsLeft' /\ None' = None
  BY <1>1 DEF Arrive, ErrorsLeft, None
<1>4. Waits' + posted' + errors = Waits + posted + errors'
  BY DEF Arrive, Waits
<1> QED
  BY <1>2, <1>3, <1>4, StayIInv DEF Arrive

\* So does a failure.
LEMMA receiveFailsIInv ==
  ASSUME IInv, receiveFails
  PROVE  IInv'
<1>1. TypeOK'
  BY DEF IInv, TypeOK, receiveFails, Results
<1>2. ErrorsLeft' /\ None' = None
  BY DEF receiveFails, ErrorsLeft, None
<1>3. Waits' + posted' + errors = Waits + posted + errors'
  BY DEF receiveFails, Waits
<1> QED
  BY <1>1, <1>2, <1>3, StayIInv DEF receiveFails

\* The clock stops at zero, where the timer is still waited for.
LEMMA TickIInv ==
  ASSUME IInv, Tick
  PROVE  IInv'
<1>1. \A a \in Ages \cup {NoTime} : Older(a) \in Ages \cup {NoTime}
  BY DEF Older, Ages, MaxAge, Silence, Interval, NoTime
<1>2. \A a \in Ages : Older(a) \in Ages
  BY DEF Older, Ages, MaxAge, Silence, Interval
<1>3. TypeOK'
  <2>1. /\ DOMAIN last_activity' \subseteq Copies
        /\ \A e \in DOMAIN last_activity' :
             last_activity'[e] \in Ages \cup {NoTime}
    BY <1>1 DEF IInv, TypeOK, Tick
  <2>2. heard' \in [Copies -> Ages]
    BY <1>2 DEF IInv, TypeOK, Tick
  <2>3. /\ wait' \in 0 .. Interval \cup {NoWait}
        /\ beat' \in 0 .. Beat \cup {NoWait}
    BY DEF IInv, TypeOK, Tick, Sooner, Interval, Beat, NoWait
  <2>4. steady' \in [Copies -> 0 .. Settled]
    BY DEF IInv, TypeOK, Tick, Settled, Silence
  <2> QED
    BY <2>1, <2>2, <2>3, <2>4 DEF IInv, TypeOK, Tick
<1>4. ErrorsLeft' /\ None' = None
  BY DEF IInv, Tick, ErrorsLeft, None
<1>5. Waits' = Waits
  BY DEF IInv, TypeOK, Tick, Sooner, Waits, Interval, NoWait
<1>6. Waits' + posted' + errors = Waits + posted + errors'
  BY <1>5 DEF Tick
<1> QED
  BY <1>3, <1>4, <1>6, StayIInv DEF Tick
-----------------------------------------------------------------------------
(***************************************************************************)
(* The theorems.                                                           *)
(***************************************************************************)

\* At the start the receive and the wait for the first check are under way.
LEMMA InitIInv == Init => IInv
<1> SUFFICES ASSUME Init PROVE IInv
  OBVIOUS
<1>1. TypeOK
  BY ConstantsAssumption
     DEF Init, InitSender, TypeOK, Interval, NoWait, Beat, Works, Results,
         Ages, MaxAge, Silence, Settled
<1>2. Checking = {} /\ At("stampNew") \cup At("stampKnown") = {}
  BY DEF Init, Checking, At, Idle
<1>3. Cardinality({}) = 0
  BY FS_EmptySet
<1>4. CheckChain
  BY <1>2, <1>3 DEF Init, CheckChain, Interval, NoWait
<1>5. OneReceive
  BY <1>2, <1>3 DEF Init, OneReceive
<1> QED
  BY <1>1, <1>4, <1>5 DEF Init, IInv, ErrorsLeft

\* Every step preserves the invariant.
LEMMA NextIInv == IInv /\ [Next]_vars => IInv'
<1> SUFFICES ASSUME IInv, [Next]_vars PROVE IInv'
  OBVIOUS
<1>1. ASSUME NEW t \in Threads, Handler(t) PROVE IInv'
  BY <1>1, handleReceiveIInv, stampCopyIInv, ignoreStrangerIInv,
     handleReceiveErrorIInv, checkActivityIInv, eraseCopyIInv, eraseStampIInv,
     checkAgainIInv, sendUdpMessageIInv DEF Handler
<1>2. ASSUME NEW e \in Copies \cup {Stranger},
             PeerSends(e) \/ Lose(e) \/ Arrive(e)
      PROVE  IInv'
  BY <1>2, PeerSendsIInv, LoseIInv, ArriveIInv
<1>3. CASE timerExpires
  BY <1>3, timerExpiresIInv
<1>4. CASE receiveFails
  BY <1>4, receiveFailsIInv
<1>5. CASE Tick
  BY <1>5, TickIInv
<1>6. CASE dataRace
  BY <1>6, TerminateIInv DEF dataRace
<1>7. CASE UNCHANGED vars
  <2>1. TypeOK' /\ ErrorsLeft'
    BY <1>7 DEF vars, IInv, TypeOK, ErrorsLeft
  <2>2. None' = None /\ Waits' + posted' + errors = Waits + posted + errors'
    BY <1>7 DEF vars, None, Waits
  <2> QED
    BY <1>7, <2>1, <2>2, StayIInv DEF vars
<1> QED
  BY <1>1, <1>2, <1>3, <1>4, <1>5, <1>6, <1>7 DEF Next

\* The invariant holds throughout.
THEOREM Invariance == Spec => []IInv
BY InitIInv, NextIInv, PTL DEF Spec

\* Every variable keeps its type; only endpoints that sent the identifier are
\* ever listed or given a time stamp.
THEOREM TypeCorrect == Spec => []TypeOK
<1>1. IInv => TypeOK
  BY DEF IInv
<1> QED
  BY <1>1, Invariance, PTL

\* The chain of checks neither breaks nor forks except at a failed receive,
\* however many threads run the handlers and however late they are.
THEOREM ChainKept == Spec => []CheckChain
<1>1. IInv => CheckChain
  BY DEF IInv
<1> QED
  BY <1>1, Invariance, PTL

\* There is one receive, or one handler that will start the next one.
THEOREM ReceiveKept == Spec => []OneReceive
<1>1. IInv => OneReceive
  BY DEF IInv
<1> QED
  BY <1>1, Invariance, PTL

-----------------------------------------------------------------------------
(***************************************************************************)
(* A silent copy is taken off the list in time, with any number of threads *)
(* whose handlers run within their second.                                 *)
(***************************************************************************)
Stamped(e) == e \in DOMAIN last_activity /\ last_activity[e] # NoTime

\* Within its second a copy that is being handled is still fresh.
JustHeard == \A t \in In(Stamps) : heard[work[t].who] = 0

\* No copy has been heard before its time stamp was written.
StampsNoNewer == \A e \in Copies : Stamped(e) => heard[e] <= last_activity[e]

\* The time left until the next check is left to every copy on the list.
TimeLeft ==
  \A e \in live_copies : Stamped(e) =>
    /\ heard[e] <= Silence + Interval
    /\ wait # NoWait => heard[e] + wait <= Silence + Interval

\* A check takes off whatever it should.
ChosenAll ==
  \A t \in Checking : \A e \in live_copies :
    Stamped(e) /\ heard[e] > Silence => e \in work[t].from

DInv == JustHeard /\ StampsNoNewer /\ TimeLeft /\ ChosenAll

\* A step that leaves alone what the invariant is about preserves it.
LEMMA AsideDInv ==
  ASSUME DInv, UNCHANGED <<live_copies, last_activity, heard, work, wait>>
  PROVE  DInv'
BY DEF DInv, JustHeard, StampsNoNewer, TimeLeft, ChosenAll, Stamped, In,
       Checking, At

\* The threads after t has gone on to w.
LEMMA WorkNext ==
  ASSUME TypeOK, NEW t \in Threads, NEW w, Goes(t, w)
  PROVE  \A u \in Threads : work'[u] = IF u = t THEN w ELSE work[u]
BY DEF TypeOK, Goes

\* The threads that check, spelled out.
LEMMA CheckingIs == /\ Checking = {u \in Threads : work[u].at \in Checks}
                    /\ Checking' = {u \in Threads : work'[u].at \in Checks}
BY DEF Checking, At, Checks

\* One of ours is heard.
LEMMA handleReceiveDInv ==
  ASSUME TypeOK, DInv, NEW t \in Threads, handleReceive(t)
  PROVE  DInv'
<1> DEFINE w == Receiving(IF receive \in live_copies THEN "stampKnown"
                                                     ELSE "stampNew", receive)
<1>1. /\ receive \in Copies /\ live_copies' = live_copies \cup {receive}
      /\ \A e \in Copies : heard'[e] = IF e = receive THEN 0 ELSE heard[e]
      /\ UNCHANGED <<last_activity, wait>>
      /\ \A u \in Threads : work'[u] = IF u = t THEN w ELSE work[u]
      /\ w.who = receive /\ w.at \in Stamps /\ w.at \notin Checks
  BY WorkNext DEF handleReceive, TypeOK, Receiving, Stamps, Checks
<1>2. \A u \in Threads : work[u].at \in Stamps => work[u].who \in Copies
  BY DEF TypeOK, Works, Idle, Stamps
<1> HIDE DEF w
<1>3. JustHeard'
  BY <1>1, <1>2 DEF DInv, JustHeard, In
<1>4. StampsNoNewer'
  BY <1>1 DEF DInv, StampsNoNewer, Stamped, TypeOK, Ages, NoTime
<1>5. TimeLeft'
  BY <1>1 DEF DInv, TimeLeft, Stamped, TypeOK, NoWait, Silence, Interval
<1>6. ChosenAll'
  BY <1>1, CheckingIs DEF DInv, ChosenAll, Stamped, TypeOK, Silence
<1> QED
  BY <1>1, <1>3, <1>4, <1>5, <1>6 DEF DInv

\* Its time stamp is written.
LEMMA stampCopyDInv ==
  ASSUME TypeOK, DInv, NEW t \in Threads, stampCopy(t)
  PROVE  DInv'
<1> DEFINE e == work[t].who
<1>1. /\ t \in In(Stamps) /\ e \in Copies /\ heard[e] = 0
      /\ UNCHANGED <<live_copies, heard, wait>>
      /\ \A u \in Threads : work'[u] = IF u = t THEN Idle ELSE work[u]
      /\ Idle.at \notin Stamps \cup Checks
  BY WorkNext, WorkTypes
     DEF stampCopy, At, In, Stamps, DInv, JustHeard, TypeOK, Works, Idle
<1>2. /\ \A f \in Copies \ {e} :
           /\ f \in DOMAIN last_activity' <=> f \in DOMAIN last_activity
           /\ f \in DOMAIN last_activity' => last_activity'[f] = last_activity[f]
      /\ e \in DOMAIN last_activity'
      /\ \/ last_activity'[e] = 0
         \/ e \in DOMAIN last_activity /\ last_activity'[e] = last_activity[e]
  BY <1>1 DEF stampCopy
<1> HIDE DEF e
<1>3. JustHeard'
  BY <1>1 DEF DInv, JustHeard, In
<1>4. StampsNoNewer'
  BY <1>1, <1>2 DEF DInv, StampsNoNewer, Stamped
<1>5. TimeLeft'
  BY <1>1, <1>2 DEF DInv, TimeLeft, Stamped, TypeOK, NoWait, Silence, Interval
<1>6. ChosenAll'
  BY <1>1, <1>2, CheckingIs DEF DInv, ChosenAll, Stamped, TypeOK, Silence
<1> QED
  BY <1>1, <1>3, <1>4, <1>5, <1>6 DEF DInv

\* A step of a check in which no copy is heard and no time stamp becomes new.
LEMMA checkDInv ==
  ASSUME TypeOK, DInv, NEW t \in Threads, NEW w, Goes(t, w),
         w.at \notin Stamps,
         live_copies' \subseteq live_copies, UNCHANGED heard,
         \A e \in Copies : Stamped(e)' =>
           Stamped(e) /\ last_activity'[e] = last_activity[e],
         \/ UNCHANGED wait
         \/ wait' = Interval /\ t \in Checking /\ work[t].from = {},
         w.at \in Checks => \A e \in live_copies' :
           Stamped(e)' /\ heard[e] > Silence => e \in w.from
  PROVE  DInv'
<1>1. \A u \in Threads : work'[u] = IF u = t THEN w ELSE work[u]
  BY WorkNext
<1>2. JustHeard'
  BY <1>1 DEF DInv, JustHeard, In
<1>3. StampsNoNewer'
  BY DEF DInv, StampsNoNewer
<1>4. TimeLeft'
  BY DEF DInv, TimeLeft, ChosenAll, TypeOK, Ages, MaxAge, NoWait, Silence,
         Interval
<1>5. ChosenAll'
  BY <1>1, CheckingIs DEF DInv, ChosenAll, TypeOK
<1> QED
  BY <1>2, <1>3, <1>4, <1>5 DEF DInv

LEMMA checkActivityDInv ==
  ASSUME TypeOK, DInv, NEW t \in Threads, checkActivity(t)
  PROVE  DInv'
<1> DEFINE stamp(e) == IF e \in DOMAIN last_activity THEN last_activity[e]
                                                     ELSE NoTime
           w == Erasing({e \in live_copies : stamp(e) > Silence})
<1>1. /\ Goes(t, w) /\ UNCHANGED <<live_copies, heard, wait>>
      /\ last_activity' = [e \in DOMAIN last_activity \cup live_copies |->
                             stamp(e)]
  BY DEF checkActivity
<1>2. w.at \notin Stamps /\ w.from = {e \in live_copies : stamp(e) > Silence}
  BY DEF Erasing, Stamps
<1>3. \A e \in Copies : Stamped(e)' =>
        Stamped(e) /\ last_activity'[e] = last_activity[e]
  BY <1>1 DEF Stamped
<1>4. \A e \in live_copies :
        Stamped(e)' /\ heard[e] > Silence => stamp(e) > Silence
  <2> SUFFICES ASSUME NEW e \in live_copies, Stamped(e)', heard[e] > Silence
               PROVE  stamp(e) > Silence
    OBVIOUS
  <2>1. e \in Copies /\ heard[e] \in Nat
    BY DEF TypeOK, Ages, MaxAge, Silence, Interval
  <2>2. Stamped(e) /\ heard[e] <= last_activity[e] /\ stamp(e) = last_activity[e]
    BY <1>3, <2>1 DEF DInv, StampsNoNewer, Stamped
  <2>3. last_activity[e] \in Int
    BY <2>2 DEF Stamped, TypeOK, Ages, NoTime
  <2> QED
    BY <2>1, <2>2, <2>3 DEF Silence
<1>5. w.at \in Checks => \A e \in live_copies' :
        Stamped(e)' /\ heard[e] > Silence => e \in w.from
  BY <1>1, <1>2, <1>4
<1> HIDE DEF w
<1> QED
  BY <1>1, <1>2, <1>3, <1>5, checkDInv

LEMMA eraseCopyDInv ==
  ASSUME TypeOK, DInv, NEW t \in Threads, eraseCopy(t)
  PROVE  DInv'
<1>1. PICK e \in work[t].from :
        /\ live_copies' = live_copies \ {e}
        /\ Goes(t, Forgetting(e, work[t].from \ {e}))
  BY DEF eraseCopy
<1> DEFINE w == Forgetting(e, work[t].from \ {e})
<1>2. /\ t \in Checking /\ w.at \notin Stamps /\ w.from = work[t].from \ {e}
      /\ UNCHANGED <<heard, wait, last_activity>>
  BY DEF eraseCopy, Checking, Forgetting, Stamps
<1>3. \A f \in Copies : Stamped(f)' =>
        Stamped(f) /\ last_activity'[f] = last_activity[f]
  BY <1>2 DEF Stamped
<1>4. \A f \in live_copies' : Stamped(f)' /\ heard[f] > Silence => f \in w.from
  BY <1>1, <1>2 DEF DInv, ChosenAll, Stamped
<1> HIDE DEF w
<1> QED
  BY <1>1, <1>2, <1>3, <1>4, checkDInv DEF w

LEMMA eraseStampDInv ==
  ASSUME TypeOK, DInv, NEW t \in Threads, eraseStamp(t)
  PROVE  DInv'
<1> DEFINE w == Erasing(work[t].from)
<1>1. /\ t \in Checking /\ Goes(t, w) /\ w.at \notin Stamps
      /\ w.from = work[t].from
      /\ UNCHANGED <<heard, wait, live_copies>>
  BY DEF eraseStamp, Checking, Erasing, Stamps
<1>2. \A f \in Copies : Stamped(f)' =>
        Stamped(f) /\ last_activity'[f] = last_activity[f]
  BY DEF Stamped, eraseStamp, Restrict
<1>3. \A f \in live_copies' : Stamped(f)' /\ heard[f] > Silence => f \in w.from
  BY <1>1, <1>2 DEF DInv, ChosenAll, TypeOK
<1> HIDE DEF w
<1> QED
  BY <1>1, <1>2, <1>3, checkDInv

LEMMA checkAgainDInv ==
  ASSUME TypeOK, DInv, NEW t \in Threads, checkAgain(t)
  PROVE  DInv'
<1>1. /\ t \in Checking /\ work[t].from = {} /\ Goes(t, Idle)
      /\ Idle.at \notin Stamps /\ Idle.at \notin Checks
      /\ UNCHANGED <<heard, live_copies, last_activity>>
      /\ wait' = Interval
  BY CheckingIs DEF checkAgain, Erasing, Stamps, Checks, Idle,
                    startActivityCheckTimer
<1>2. \A f \in Copies : Stamped(f)' =>
        Stamped(f) /\ last_activity'[f] = last_activity[f]
  BY <1>1 DEF Stamped
<1> QED
  BY <1>1, <1>2, checkDInv

\* A second passes: nothing is being handled, and the next check is waited for.
LEMMA TickDInv ==
  ASSUME TypeOK, CheckChain, DInv, Prompt, Tick
  PROVE  DInv'
<1>1. /\ \A t \in Threads : work[t] = Idle
      /\ posted = 0 /\ wait # 0 /\ alive
      /\ UNCHANGED <<live_copies, work>>
  BY DEF Tick, Due, TypeOK
<1>2. Checking = {} /\ Checking' = {} /\ In(Stamps)' = {}
  BY <1>1, CheckingIs DEF In, Idle, Checks, Stamps
<1>3. wait \in 1 .. Interval /\ wait' = wait - 1
  <2>1. Cardinality(Checking) = 0
    BY <1>2, FS_EmptySet
  <2>2. errors \in Nat
    BY ConstantsAssumption DEF TypeOK
  <2>3. wait # NoWait
    BY <1>1, <2>1, <2>2 DEF CheckChain
  <2> QED
    BY <1>1, <2>3 DEF Tick, Sooner, TypeOK, Interval, NoWait
<1>4. /\ DOMAIN last_activity' = DOMAIN last_activity
      /\ \A e \in DOMAIN last_activity : last_activity'[e] = Older(last_activity[e])
      /\ \A e \in Copies : heard'[e] = Older(heard[e])
  BY DEF Tick
<1>5. \A a, b \in Ages :
        /\ Older(a) \in Ages /\ Older(a) <= a + 1
        /\ a <= b => Older(a) <= Older(b)
  BY DEF Ages, Older, MaxAge, Silence, Interval
<1>6. Older(NoTime) = NoTime
  BY DEF NoTime, Older
<1>7. JustHeard' /\ ChosenAll'
  BY <1>2 DEF JustHeard, ChosenAll
<1>8. StampsNoNewer'
  <2> SUFFICES ASSUME NEW e \in Copies, Stamped(e)'
               PROVE  heard'[e] <= last_activity'[e]
    BY DEF StampsNoNewer
  <2>1. Stamped(e) /\ heard[e] <= last_activity[e]
    BY <1>4, <1>6 DEF Stamped, DInv, StampsNoNewer
  <2>2. heard[e] \in Ages /\ last_activity[e] \in Ages
    BY <2>1 DEF Stamped, TypeOK
  <2>3. Older(heard[e]) <= Older(last_activity[e])
    BY <1>5, <2>1, <2>2
  <2> QED
    BY <1>4, <2>1, <2>3 DEF Stamped
<1>9. TimeLeft'
  <2> SUFFICES ASSUME NEW e \in live_copies, Stamped(e)'
               PROVE  /\ heard'[e] <= Silence + Interval
                      /\ heard'[e] + wait' <= Silence + Interval
    BY <1>1 DEF TimeLeft
  <2>1. Stamped(e)
    BY <1>4, <1>6 DEF Stamped
  <2>2. heard[e] + wait <= Silence + Interval
    BY <1>3, <2>1 DEF DInv, TimeLeft, NoWait
  <2>3. heard[e] \in Ages /\ heard'[e] \in Ages /\ heard'[e] <= heard[e] + 1
    BY <1>4, <1>5 DEF TypeOK
  <2> QED
    BY <1>3, <2>2, <2>3 DEF Ages, MaxAge, Silence, Interval
<1> QED
  BY <1>7, <1>8, <1>9 DEF DInv

\* The process ends: nothing is waited for and nobody is being handled.
LEMMA TerminateDInv ==
  ASSUME TypeOK, DInv, Terminate
  PROVE  DInv'
<1>1. /\ \A t \in Threads : work'[t] = Idle
      /\ live_copies' = {} /\ DOMAIN last_activity' = {}
  BY DEF Terminate
<1>2. Checking' = {} /\ In(Stamps)' = {}
  BY <1>1, CheckingIs DEF In, Idle, Checks, Stamps
<1> QED
  BY <1>1, <1>2 DEF DInv, JustHeard, StampsNoNewer, TimeLeft, ChosenAll, Stamped

LEMMA timerExpiresDInv ==
  ASSUME TypeOK, DInv, timerExpires
  PROVE  DInv'
<1>1. /\ wait' = NoWait
      /\ UNCHANGED <<live_copies, last_activity, heard, work>>
  BY DEF timerExpires
<1> QED
  BY <1>1 DEF DInv, JustHeard, StampsNoNewer, TimeLeft, ChosenAll, Stamped, In,
              Checking, At

Punctual == Prompt /\ errors = 0 => DInv

LEMMA InitDInv == Init => DInv
BY DEF Init, DInv, JustHeard, StampsNoNewer, TimeLeft, ChosenAll, Stamped, In,
       Stamps, Idle

LEMMA NextPunctual ==
  ASSUME TypeOK, CheckChain, Punctual, [Next]_vars
  PROVE  Punctual'
<1> SUFFICES ASSUME Prompt, errors' = 0 PROVE DInv'
  BY DEF Punctual
<1>1. errors \in Nat /\ errors = 0
  <2>1. errors \in Nat
    BY ConstantsAssumption DEF TypeOK
  <2>2. \A t \in Threads : Handler(t) => errors' \in {errors, errors + 1}
    BY DEF Handler, handleReceive, stampCopy, ignoreStranger,
           handleReceiveError, checkActivity, eraseCopy, eraseStamp,
           checkAgain, sendUdpMessage, Terminate
  <2>3. errors' \in {errors, errors + 1}
    BY <2>2 DEF Next, vars, timerExpires, receiveFails, Tick, dataRace,
                Terminate, PeerSends, Lose, Arrive
  <2> QED
    BY <2>1, <2>3
<1>2. DInv
  BY <1>1 DEF Punctual
<1>3. CASE UNCHANGED vars
  BY <1>2, <1>3, AsideDInv DEF vars
<1>4. ASSUME NEW t \in Threads, Handler(t)
      PROVE  DInv'
  <2>1. CASE handleReceive(t)
    BY <1>2, <2>1, handleReceiveDInv
  <2>2. CASE stampCopy(t)
    BY <1>2, <2>2, stampCopyDInv
  <2>3. CASE ignoreStranger(t)
    BY <1>2, <2>3, AsideDInv DEF ignoreStranger
  <2>4. CASE handleReceiveError(t)
    BY <1>1, <2>4 DEF handleReceiveError
  <2>5. CASE checkActivity(t)
    BY <1>2, <2>5, checkActivityDInv
  <2>6. CASE eraseCopy(t)
    BY <1>2, <2>6, eraseCopyDInv
  <2>7. CASE eraseStamp(t)
    BY <1>2, <2>7, eraseStampDInv
  <2>8. CASE checkAgain(t)
    BY <1>2, <2>8, checkAgainDInv
  <2>9. CASE sendUdpMessage(t)
    BY <1>2, <2>9, AsideDInv, TerminateDInv DEF sendUdpMessage
  <2> QED
    BY <1>4, <2>1, <2>2, <2>3, <2>4, <2>5, <2>6, <2>7, <2>8, <2>9 DEF Handler
<1>5. CASE timerExpires
  BY <1>2, <1>5, timerExpiresDInv
<1>6. CASE receiveFails
  BY <1>2, <1>6, AsideDInv DEF receiveFails
<1>7. CASE Tick
  BY <1>2, <1>7, TickDInv
<1>8. CASE dataRace
  BY <1>2, <1>8, TerminateDInv DEF dataRace
<1>9. ASSUME NEW e \in Copies \cup {Stranger},
             PeerSends(e) \/ Lose(e) \/ Arrive(e)
      PROVE  DInv'
  BY <1>2, <1>9, AsideDInv DEF PeerSends, Lose, Arrive
<1> QED
  BY <1>3, <1>4, <1>5, <1>6, <1>7, <1>8, <1>9 DEF Next

\* Whatever the threads do to each other, a copy that is on the list with a
\* time stamp has been heard within two intervals, as long as no receive has
\* failed and the handlers run within their second.
\* multicast_receiver.cpp:69-100.
THEOREM SilentRemoved == Spec => []SilentCopyRemoved
<1>1. Init => Punctual
  BY InitDInv DEF Punctual
<1>2. TypeOK /\ CheckChain /\ Punctual /\ [Next]_vars => Punctual'
  BY NextPunctual
<1>3. TypeOK /\ Punctual => SilentCopyRemoved
  BY DEF Punctual, DInv, TimeLeft, Stamped, SilentCopyRemoved
<1> QED
  BY <1>1, <1>2, <1>3, TypeCorrect, ChainKept, PTL DEF Spec
-----------------------------------------------------------------------------
(***************************************************************************)
(* Who is heard steadily is on the list.  A check can take a copy off only *)
(* on the word of an old time stamp, and the time stamp of a copy is never *)
(* far behind what was heard of it, but for one that another thread left   *)
(* behind between the two containers: the next beat makes that one good,   *)
(* so that the copy has not been steady for long when it is removed.       *)
(***************************************************************************)
Missed == 2 * Beat

\* A thread is about to erase the time stamp of e; one is about to write it;
\* one is about to write it unless there is one.
Forgotten(e) == \E t \in At("forget") : work[t].who = e
Stamping(e) == \E t \in In(Stamps) : work[t].who = e
Keeping(e) == \E t \in At("stampNew") : work[t].who = e

\* Who is steady was heard a short while ago.
SteadyHeard == \A e \in Copies : steady[e] > 0 => heard[e] <= Missed

\* The time stamp of a copy that is not listed is no older than what was heard.
UnlistedRecent ==
  \A e \in Copies \ live_copies :
    Stamped(e) /\ ~Forgotten(e) => last_activity[e] <= heard[e]

\* A time stamp that is not written because there is one is a recent one.
KeptRecent ==
  \A e \in Copies : Keeping(e) /\ Stamped(e) /\ ~Forgotten(e) =>
    last_activity[e] <= Missed \/ steady[e] = 0

\* Once it is written, a time stamp is little older than what was heard, or the
\* copy has only been steady since then.
StampsRecent ==
  \A e \in Copies : Stamped(e) /\ ~Forgotten(e) /\ ~Stamping(e) =>
    last_activity[e] <= heard[e] + Missed \/ steady[e] <= heard[e]

\* Whoever a check may choose, has chosen or has removed is not steady for long.
OldUnsteady ==
  \A e \in Copies :
    Stamped(e) /\ last_activity[e] > Silence => steady[e] <= Missed
ChosenUnsteady ==
  /\ \A t \in Checking : \A e \in work[t].from : steady[e] <= Missed
  /\ \A t \in At("forget") : steady[work[t].who] <= Missed
UnlistedUnsteady ==
  \A e \in Copies \ live_copies : steady[e] <= Missed + heard[e]

VInv == /\ SteadyHeard /\ UnlistedRecent /\ KeptRecent /\ StampsRecent
        /\ OldUnsteady /\ ChosenUnsteady /\ UnlistedUnsteady

\* A step that leaves alone what the invariant is about preserves it.
LEMMA AsideVInv ==
  ASSUME VInv, UNCHANGED <<live_copies, last_activity, heard, steady, work>>
  PROVE  VInv'
BY DEF VInv, SteadyHeard, UnlistedRecent, KeptRecent, StampsRecent,
       OldUnsteady, ChosenUnsteady, UnlistedUnsteady, Stamped, Forgotten,
       Stamping, Keeping, In, Checking, At

\* Who is where, spelled out.
LEMMA WhoIs ==
  ASSUME NEW e
  PROVE  /\ Forgotten(e) <=> \E t \in Threads :
              work[t].at = "forget" /\ work[t].who = e
         /\ Stamping(e) <=> \E t \in Threads :
              work[t].at \in Stamps /\ work[t].who = e
         /\ Forgotten(e)' <=> \E t \in Threads :
              work'[t].at = "forget" /\ work'[t].who = e
         /\ Stamping(e)' <=> \E t \in Threads :
              work'[t].at \in Stamps /\ work'[t].who = e
         /\ At("forget") = {t \in Threads : work[t].at = "forget"}
         /\ At("forget")' = {t \in Threads : work'[t].at = "forget"}
         /\ Keeping(e) <=> \E t \in Threads :
              work[t].at = "stampNew" /\ work[t].who = e
         /\ Keeping(e)' <=> \E t \in Threads :
              work'[t].at = "stampNew" /\ work'[t].who = e
BY DEF Forgotten, Stamping, Keeping, At, In

\* One of ours is heard: nothing of it is old, unless it is not steady.
LEMMA handleReceiveVInv ==
  ASSUME TypeOK, VInv, NEW t \in Threads, handleReceive(t)
  PROVE  VInv'
<1> DEFINE w == Receiving(IF receive \in live_copies THEN "stampKnown"
                                                     ELSE "stampNew", receive)
<1>1. /\ receive \in Copies /\ live_copies' = live_copies \cup {receive}
      /\ \A e \in Copies : heard'[e] = IF e = receive THEN 0 ELSE heard[e]
      /\ UNCHANGED <<last_activity, steady>>
      /\ \A u \in Threads : work'[u] = IF u = t THEN w ELSE work[u]
      /\ w.who = receive /\ w.at \in Stamps /\ w.at \notin Checks
      /\ w.at = "stampNew" => receive \notin live_copies
      /\ work[t].at = "idle"
  BY WorkNext DEF handleReceive, TypeOK, Receiving, Stamps, Checks, Idle
<1>2. /\ \A u \in Threads : work[u].at \in Stamps \cup {"forget"} =>
                              work[u].who \in Copies
      /\ \A e \in Copies : heard[e] \in Nat /\ steady[e] \in Nat
      /\ \A e \in DOMAIN last_activity : last_activity[e] \in Int
  BY DEF TypeOK, Works, Idle, Stamps, Ages, MaxAge, Silence, Interval, NoTime,
         Settled
<1> HIDE DEF w
<1>3. \A e \in Copies : /\ Stamped(e)' <=> Stamped(e)
                        /\ Forgotten(e)' <=> Forgotten(e)
                        /\ Stamping(e)' <=> Stamping(e) \/ e = receive
  <2>1. "forget" \in Checks /\ "idle" \notin Stamps \cup {"forget"}
    BY DEF Checks, Stamps
  <2> QED
    BY <1>1, <2>1, WhoIs DEF Stamped
<1>4. SteadyHeard'
  BY <1>1, <1>2 DEF VInv, SteadyHeard, Missed, Beat
<1>5. UnlistedRecent'
  BY <1>1, <1>3 DEF VInv, UnlistedRecent
<1>6. KeptRecent'
  <2> SUFFICES ASSUME NEW e \in Copies,
                      Keeping(e)', Stamped(e)', ~Forgotten(e)'
               PROVE  last_activity[e] <= Missed \/ steady[e] = 0
    BY <1>1 DEF KeptRecent
  <2>1. CASE Keeping(e)
    BY <2>1, <1>3 DEF VInv, KeptRecent
  <2>2. CASE ~Keeping(e)
    <3>1. e = receive /\ e \notin live_copies
      BY <2>2, <1>1, WhoIs
    <3>2. last_activity[e] <= heard[e]
      BY <3>1, <1>3 DEF VInv, UnlistedRecent
    <3>3. steady[e] > 0 => heard[e] <= Missed
      BY DEF VInv, SteadyHeard
    <3> QED
      BY <1>2, <1>3, <3>2, <3>3 DEF Stamped, Missed, Beat
  <2> QED
    BY <2>1, <2>2
<1>7. StampsRecent'
  BY <1>1, <1>3 DEF VInv, StampsRecent
<1>8. OldUnsteady'
  BY <1>1, <1>3 DEF VInv, OldUnsteady
<1>9. ChosenUnsteady'
  <2>1. "forget" \in Checks
    BY DEF Checks
  <2> QED
    BY <1>1, <2>1, WhoIs, CheckingIs DEF VInv, ChosenUnsteady
<1>10. UnlistedUnsteady'
  BY <1>1 DEF VInv, UnlistedUnsteady
<1> QED
  BY <1>4, <1>5, <1>6, <1>7, <1>8, <1>9, <1>10 DEF VInv

\* Its time stamp is written, or kept when there is one that is recent.
LEMMA stampCopyVInv ==
  ASSUME TypeOK, VInv, NEW t \in Threads, stampCopy(t)
  PROVE  VInv'
<1> DEFINE e == work[t].who
<1>1. /\ t \in Threads /\ work[t].at \in Stamps /\ e \in Copies
      /\ UNCHANGED <<live_copies, heard, steady>>
      /\ \A u \in Threads : work'[u] = IF u = t THEN Idle ELSE work[u]
      /\ Idle.at \notin Stamps \cup Checks
  BY WorkNext, WorkTypes DEF stampCopy, At, Stamps, TypeOK, Works, Idle
<1>2. /\ \A f \in Copies \ {e} :
           /\ f \in DOMAIN last_activity' <=> f \in DOMAIN last_activity
           /\ f \in DOMAIN last_activity' => last_activity'[f] = last_activity[f]
      /\ e \in DOMAIN last_activity'
      /\ \/ last_activity'[e] = 0
         \/ /\ e \in DOMAIN last_activity /\ last_activity'[e] = last_activity[e]
            /\ work[t].at = "stampNew"
  BY <1>1 DEF stampCopy
<1>3. /\ \A f \in Copies : heard[f] \in Nat /\ steady[f] \in Nat
      /\ \A u \in Threads : work[u].at \in Stamps \cup {"forget"} =>
                              work[u].who \in Copies
      /\ \A f \in DOMAIN last_activity : last_activity[f] \in Int
  BY DEF TypeOK, Works, Idle, Stamps, Ages, MaxAge, Silence, Interval, Settled,
         NoTime
<1> HIDE DEF e
<1>4. \A f \in Copies : /\ Forgotten(f)' <=> Forgotten(f)
                        /\ f # e => /\ Stamping(f)' <=> Stamping(f)
                                    /\ Stamped(f)' <=> Stamped(f)
  <2>1. "forget" \in Checks /\ "forget" \notin Stamps
    BY DEF Checks, Stamps
  <2> QED
    BY <1>1, <1>2, <2>1, WhoIs DEF Stamped, e
<1>5. SteadyHeard' /\ UnlistedUnsteady'
  BY <1>1 DEF VInv, SteadyHeard, UnlistedUnsteady
<1>6. UnlistedRecent'
  BY <1>1, <1>2, <1>3, <1>4 DEF VInv, UnlistedRecent, Stamped
<1>7. KeptRecent'
  <2> SUFFICES ASSUME NEW f \in Copies,
                      Keeping(f)', Stamped(f)', ~Forgotten(f)'
               PROVE  last_activity'[f] <= Missed \/ steady[f] = 0
    BY <1>1 DEF KeptRecent
  <2>1. Keeping(f)
    BY <1>1, WhoIs DEF Stamps
  <2>2. CASE last_activity'[f] = 0
    BY <2>2 DEF Missed, Beat
  <2>3. CASE last_activity'[f] # 0
    <3>1. Stamped(f) /\ last_activity'[f] = last_activity[f]
      BY <2>3, <1>2 DEF Stamped
    <3> QED
      BY <2>1, <3>1, <1>4 DEF VInv, KeptRecent
  <2> QED
    BY <2>2, <2>3
<1>8. StampsRecent'
  <2> SUFFICES ASSUME NEW f \in Copies,
                      Stamped(f)', ~Forgotten(f)', ~Stamping(f)'
               PROVE  \/ last_activity'[f] <= heard[f] + Missed
                      \/ steady[f] <= heard[f]
    BY <1>1 DEF StampsRecent
  <2>1. CASE f # e
    <3>1. Stamped(f) /\ ~Forgotten(f) /\ ~Stamping(f)
      BY <1>4, <2>1
    <3>2. last_activity'[f] = last_activity[f]
      BY <1>2, <2>1 DEF Stamped
    <3> QED
      BY <3>1, <3>2 DEF VInv, StampsRecent
  <2>2. CASE f = e /\ last_activity'[e] = 0
    BY <1>3, <2>2 DEF Missed, Beat
  <2>3. CASE f = e /\ last_activity'[e] # 0
    <3>1. /\ work[t].at = "stampNew" /\ Stamped(e) /\ ~Forgotten(e)
          /\ last_activity'[e] = last_activity[e]
      BY <2>3, <1>2, <1>4 DEF Stamped
    <3>2. Keeping(e)
      BY <3>1, WhoIs DEF e
    <3>3. last_activity[e] <= Missed \/ steady[e] = 0
      BY <1>1, <3>1, <3>2 DEF VInv, KeptRecent
    <3> QED
      BY <2>3, <3>1, <3>3, <1>1, <1>3 DEF Stamped, Missed, Beat
  <2> QED
    BY <2>1, <2>2, <2>3
<1>9. OldUnsteady'
  BY <1>1, <1>2, <1>4 DEF VInv, OldUnsteady, Stamped, Silence
<1>10. ChosenUnsteady'
  <2>1. "forget" \in Checks
    BY DEF Checks
  <2> QED
    BY <1>1, <2>1, WhoIs, CheckingIs DEF VInv, ChosenUnsteady
<1> QED
  BY <1>5, <1>6, <1>7, <1>8, <1>9, <1>10 DEF VInv

\* The copies to be removed are chosen by their time stamps.
LEMMA checkActivityVInv ==
  ASSUME TypeOK, VInv, NEW t \in Threads, checkActivity(t)
  PROVE  VInv'
<1> DEFINE stamp(e) == IF e \in DOMAIN last_activity THEN last_activity[e]
                                                     ELSE NoTime
           w == Erasing({e \in live_copies : stamp(e) > Silence})
<1>1. /\ \A u \in Threads : work'[u] = IF u = t THEN w ELSE work[u]
      /\ UNCHANGED <<live_copies, heard, steady>>
      /\ last_activity' = [e \in DOMAIN last_activity \cup live_copies |->
                             stamp(e)]
      /\ work[t].at = "idle"
  BY WorkNext DEF checkActivity, Idle
<1>2. w.at = "erase" /\ w.from = {e \in live_copies : stamp(e) > Silence}
  BY DEF Erasing
<1>3. \A e \in Copies :
        /\ Stamped(e)' <=> Stamped(e)
        /\ Stamped(e) => last_activity'[e] = last_activity[e]
  BY <1>1 DEF Stamped
<1>4. \A e \in w.from : steady[e] <= Missed
  <2> SUFFICES ASSUME NEW e \in live_copies, stamp(e) > Silence
               PROVE  steady[e] <= Missed
    BY <1>2
  <2>1. e \in Copies /\ Stamped(e) /\ last_activity[e] > Silence
    BY DEF Stamped, NoTime, Silence, TypeOK
  <2> QED
    BY <2>1 DEF VInv, OldUnsteady
<1> HIDE DEF w
<1>5. \A e : /\ Forgotten(e)' <=> Forgotten(e)
             /\ Stamping(e)' <=> Stamping(e)
             /\ Keeping(e)' <=> Keeping(e)
  BY <1>1, <1>2, WhoIs DEF Stamps
<1>6. \A u \in Threads : work'[u].at = "forget" => work'[u] = work[u]
  BY <1>1, <1>2
<1>8. KeptRecent'
  BY <1>1, <1>3, <1>5 DEF VInv, KeptRecent
<1>9. ChosenUnsteady'
  BY <1>1, <1>4, <1>6, WhoIs, CheckingIs DEF VInv, ChosenUnsteady
<1>10. SteadyHeard' /\ UnlistedRecent' /\ StampsRecent' /\ OldUnsteady'
         /\ UnlistedUnsteady'
  BY <1>1, <1>3, <1>5
     DEF VInv, SteadyHeard, UnlistedRecent, StampsRecent, OldUnsteady,
         UnlistedUnsteady
<1> QED
  BY <1>8, <1>9, <1>10 DEF VInv

\* One of them is taken off the list, and is not steady for long.
LEMMA eraseCopyVInv ==
  ASSUME TypeOK, VInv, NEW t \in Threads, eraseCopy(t)
  PROVE  VInv'
<1>1. PICK e \in work[t].from :
        /\ live_copies' = live_copies \ {e}
        /\ Goes(t, Forgetting(e, work[t].from \ {e}))
  BY DEF eraseCopy
<1> DEFINE w == Forgetting(e, work[t].from \ {e})
<1>2. /\ work[t].at = "erase" /\ UNCHANGED <<last_activity, heard, steady>>
      /\ w.at = "forget" /\ w.who = e /\ w.from = work[t].from \ {e}
      /\ \A u \in Threads : work'[u] = IF u = t THEN w ELSE work[u]
  BY <1>1, WorkNext DEF eraseCopy, At, Forgetting
<1> HIDE DEF w
<1>3. e \in Copies /\ steady[e] <= Missed
  <2>1. t \in Checking /\ work[t].from \subseteq Copies
    BY <1>2, CheckingIs DEF Checks, TypeOK, Works, Idle
  <2> QED
    BY <2>1 DEF VInv, ChosenUnsteady
<1>4. \A f : /\ Stamped(f)' <=> Stamped(f)
             /\ Stamping(f)' <=> Stamping(f)
             /\ Keeping(f)' <=> Keeping(f)
             /\ Forgotten(f)' <=> Forgotten(f) \/ f = e
  BY <1>2, WhoIs DEF Stamps, Stamped
<1>5. SteadyHeard' /\ KeptRecent' /\ StampsRecent' /\ OldUnsteady'
  BY <1>2, <1>4 DEF VInv, SteadyHeard, KeptRecent, StampsRecent, OldUnsteady
<1>6. UnlistedRecent'
  BY <1>1, <1>2, <1>4 DEF VInv, UnlistedRecent
<1>7. ChosenUnsteady'
  BY <1>2, <1>3, WhoIs, CheckingIs DEF VInv, ChosenUnsteady, Checks
<1>8. UnlistedUnsteady'
  <2>1. \A f \in Copies : heard[f] \in Nat /\ steady[f] \in Nat
    BY DEF TypeOK, Ages, MaxAge, Silence, Interval, Settled
  <2> QED
    BY <1>1, <1>2, <1>3, <2>1 DEF VInv, UnlistedUnsteady, Missed, Beat
<1> QED
  BY <1>5, <1>6, <1>7, <1>8 DEF VInv

\* ... and loses its time stamp.
LEMMA eraseStampVInv ==
  ASSUME TypeOK, VInv, NEW t \in Threads, eraseStamp(t)
  PROVE  VInv'
<1> DEFINE w == Erasing(work[t].from)
<1>1. /\ work[t].at = "forget"
      /\ w.at = "erase" /\ w.from = work[t].from
      /\ \A u \in Threads : work'[u] = IF u = t THEN w ELSE work[u]
      /\ UNCHANGED <<live_copies, heard, steady>>
  BY WorkNext DEF eraseStamp, At, Erasing
<1>2. /\ DOMAIN last_activity' = DOMAIN last_activity \ {work[t].who}
      /\ \A f \in DOMAIN last_activity' : last_activity'[f] = last_activity[f]
  BY DEF eraseStamp, Restrict
<1> HIDE DEF w
<1>3. \A f : /\ Stamped(f)' => Stamped(f) /\ f # work[t].who
             /\ Stamped(f)' => last_activity'[f] = last_activity[f]
             /\ Stamping(f)' <=> Stamping(f)
             /\ Keeping(f)' <=> Keeping(f)
             /\ f # work[t].who => (Forgotten(f)' <=> Forgotten(f))
  BY <1>1, <1>2, WhoIs DEF Stamps, Stamped
<1>4. SteadyHeard' /\ UnlistedUnsteady'
  BY <1>1 DEF VInv, SteadyHeard, UnlistedUnsteady
<1>5. UnlistedRecent'
  BY <1>1, <1>3 DEF VInv, UnlistedRecent
<1>6. KeptRecent'
  BY <1>1, <1>3 DEF VInv, KeptRecent
<1>7. StampsRecent'
  BY <1>1, <1>3 DEF VInv, StampsRecent
<1>8. OldUnsteady'
  BY <1>1, <1>3 DEF VInv, OldUnsteady
<1>9. ChosenUnsteady'
  BY <1>1, WhoIs, CheckingIs DEF VInv, ChosenUnsteady, Checks
<1> QED
  BY <1>4, <1>5, <1>6, <1>7, <1>8, <1>9 DEF VInv

\* The check ends.
LEMMA checkAgainVInv ==
  ASSUME TypeOK, VInv, NEW t \in Threads, checkAgain(t)
  PROVE  VInv'
<1>1. /\ work[t].at = "erase"
      /\ Idle.at = "idle"
      /\ \A u \in Threads : work'[u] = IF u = t THEN Idle ELSE work[u]
      /\ UNCHANGED <<live_copies, last_activity, heard, steady>>
  BY WorkNext DEF checkAgain, Erasing, Idle
<1>2. \A f : /\ Stamped(f)' <=> Stamped(f)
             /\ Stamping(f)' <=> Stamping(f)
             /\ Keeping(f)' <=> Keeping(f)
             /\ Forgotten(f)' <=> Forgotten(f)
  BY <1>1, WhoIs DEF Stamps, Stamped
<1>3. ChosenUnsteady'
  BY <1>1, WhoIs, CheckingIs DEF VInv, ChosenUnsteady, Checks
<1> QED
  BY <1>1, <1>2, <1>3
     DEF VInv, SteadyHeard, UnlistedRecent, KeptRecent, StampsRecent,
         OldUnsteady, UnlistedUnsteady

\* A second passes, and nothing is being handled: who misses a second beat is
\* not steady any more; of who does not, the time stamp is too young to grow
\* old, unless it has only been steady since it was heard last.
LEMMA TickVInv ==
  ASSUME TypeOK, VInv, Prompt, Tick
  PROVE  VInv'
<1>1. /\ \A t \in Threads : work[t] = Idle
      /\ UNCHANGED <<live_copies, work>>
      /\ DOMAIN last_activity' = DOMAIN last_activity
      /\ \A e \in DOMAIN last_activity : last_activity'[e] = Older(last_activity[e])
      /\ \A e \in Copies :
           /\ heard'[e] = Older(heard[e])
           /\ steady'[e] = IF heard'[e] > Missed THEN 0
                           ELSE IF steady[e] < Settled THEN steady[e] + 1
                           ELSE Settled
  BY DEF Tick, Due, Missed
<1>2. \A t \in Threads : work'[t].at = "idle" /\ work[t].at = "idle"
  BY <1>1 DEF Idle
<1>3. Checking' = {} /\ At("forget")' = {}
  BY <1>2, WhoIs, CheckingIs DEF Checks
<1>4. \A e : ~Forgotten(e) /\ ~Stamping(e) /\ ~Keeping(e)'
  BY <1>2, WhoIs DEF Stamps
<1>5. \A a \in 0 .. 10 : Older(a) = IF a < 10 THEN a + 1 ELSE 10
  BY DEF Older, MaxAge, Silence, Interval
<1>6. \A e \in Copies : Stamped(e)' =>
        /\ Stamped(e) /\ last_activity[e] \in 0 .. 10
        /\ last_activity'[e] = Older(last_activity[e])
  BY <1>1 DEF Stamped, TypeOK, Older, NoTime, Ages, MaxAge, Silence, Interval
<1>7. \A e \in Copies : heard[e] \in 0 .. 10 /\ steady[e] \in 0 .. 5
  BY DEF TypeOK, Ages, MaxAge, Silence, Interval, Settled
<1>8. Missed = 2 /\ Silence = 4 /\ Settled = 5
  BY DEF Missed, Beat, Silence, Settled
<1>9. SteadyHeard'
  <2> SUFFICES ASSUME NEW e \in Copies, steady'[e] > 0
               PROVE  heard'[e] <= Missed
    BY DEF SteadyHeard
  <2>1. heard'[e] \in 0 .. 10
    BY <1>1, <1>5, <1>7
  <2>2. ~(heard'[e] > Missed)
    BY <1>1
  <2> QED
    BY <1>8, <2>1, <2>2
<1>10. UnlistedRecent'
  <2> SUFFICES ASSUME NEW e \in Copies \ live_copies, Stamped(e)'
               PROVE  last_activity'[e] <= heard'[e]
    BY <1>1 DEF UnlistedRecent
  <2>1. last_activity[e] <= heard[e]
    BY <1>4, <1>6 DEF VInv, UnlistedRecent
  <2> QED
    BY <1>1, <1>5, <1>6, <1>7, <2>1
<1>11. KeptRecent'
  BY <1>4 DEF KeptRecent
<1>12. \A e \in Copies : Stamped(e)' =>
         last_activity[e] <= heard[e] + 2 \/ steady[e] <= heard[e]
  BY <1>4, <1>6, <1>8 DEF VInv, StampsRecent
<1>13. StampsRecent'
  <2> SUFFICES ASSUME NEW e \in Copies, Stamped(e)'
               PROVE  last_activity'[e] <= heard'[e] + 2 \/ steady'[e] <= heard'[e]
    BY <1>8 DEF StampsRecent
  <2>1. CASE heard'[e] > 2
    BY <2>1, <1>1, <1>5, <1>7, <1>8
  <2>2. CASE ~(heard'[e] > 2)
    BY <2>2, <1>1, <1>5, <1>6, <1>7, <1>8, <1>12
  <2> QED
    BY <2>1, <2>2
<1>14. OldUnsteady'
  <2> SUFFICES ASSUME NEW e \in Copies, Stamped(e)', last_activity'[e] > 4
               PROVE  steady'[e] <= 2
    BY <1>8 DEF OldUnsteady
  <2>1. CASE heard'[e] > 2
    BY <2>1, <1>1, <1>8
  <2>2. CASE ~(heard'[e] > 2)
    <3>1. heard[e] <= 1 /\ last_activity[e] >= 4
      BY <2>2, <1>1, <1>5, <1>6, <1>7
    <3>2. steady[e] <= 1
      BY <3>1, <1>6, <1>7, <1>12
    <3> QED
      BY <2>2, <3>2, <1>1, <1>7, <1>8
  <2> QED
    BY <2>1, <2>2
<1>15. ChosenUnsteady'
  BY <1>3 DEF ChosenUnsteady
<1>16. UnlistedUnsteady'
  <2> SUFFICES ASSUME NEW e \in Copies \ live_copies
               PROVE  steady'[e] <= 2 + heard'[e]
    BY <1>1, <1>8 DEF UnlistedUnsteady
  <2>1. steady[e] <= 2 + heard[e]
    BY <1>8 DEF VInv, UnlistedUnsteady
  <2> QED
    BY <1>1, <1>5, <1>7, <1>8, <2>1
<1> QED
  BY <1>9, <1>10, <1>11, <1>13, <1>14, <1>15, <1>16 DEF VInv

\* The process ends and forgets everything.
LEMMA TerminateVInv ==
  ASSUME Terminate
  PROVE  VInv'
<1>1. /\ \A t \in Threads : work'[t].at = "idle"
      /\ \A e \in Copies : heard'[e] \in Nat /\ steady'[e] = 0
      /\ DOMAIN last_activity' = {}
  BY DEF Terminate, Idle, MaxAge, Silence, Interval
<1>2. \A e : ~Stamped(e)' /\ ~Keeping(e)'
  BY <1>1, WhoIs DEF Stamped
<1>3. Checking' = {} /\ At("forget")' = {}
  BY <1>1, WhoIs, CheckingIs DEF Checks
<1> QED
  BY <1>1, <1>2, <1>3
     DEF VInv, SteadyHeard, UnlistedRecent, KeptRecent, StampsRecent,
         OldUnsteady, ChosenUnsteady, UnlistedUnsteady, Missed, Beat

\* At the start nobody has been heard.
LEMMA InitVInv ==
  ASSUME Init
  PROVE  VInv
<1>1. /\ \A e \in Copies : heard[e] \in Nat /\ steady[e] = 0
      /\ DOMAIN last_activity = {} /\ \A t \in Threads : work[t].at = "idle"
  BY DEF Init, Idle, MaxAge, Silence, Interval
<1>2. Checking = {} /\ At("forget") = {}
  BY <1>1, WhoIs, CheckingIs DEF Checks
<1> QED
  BY <1>1, <1>2
     DEF VInv, SteadyHeard, UnlistedRecent, KeptRecent, StampsRecent,
         OldUnsteady, ChosenUnsteady, UnlistedUnsteady, Missed, Beat, Stamped

\* Every step preserves the invariant.
LEMMA NextVInv ==
  ASSUME TypeOK, VInv, Prompt, [Next]_vars
  PROVE  VInv'
<1>1. CASE UNCHANGED vars
  BY <1>1, AsideVInv DEF vars
<1>2. ASSUME NEW t \in Threads, Handler(t)
      PROVE  VInv'
  <2>1. CASE handleReceive(t)
    BY <2>1, handleReceiveVInv
  <2>2. CASE stampCopy(t)
    BY <2>2, stampCopyVInv
  <2>3. CASE ignoreStranger(t) \/ handleReceiveError(t)
    BY <2>3, AsideVInv DEF ignoreStranger, handleReceiveError
  <2>4. CASE checkActivity(t)
    BY <2>4, checkActivityVInv
  <2>5. CASE eraseCopy(t)
    BY <2>5, eraseCopyVInv
  <2>6. CASE eraseStamp(t)
    BY <2>6, eraseStampVInv
  <2>7. CASE checkAgain(t)
    BY <2>7, checkAgainVInv
  <2>8. CASE sendUdpMessage(t)
    BY <2>8, AsideVInv, TerminateVInv DEF sendUdpMessage
  <2> QED
    BY <1>2, <2>1, <2>2, <2>3, <2>4, <2>5, <2>6, <2>7, <2>8 DEF Handler
<1>3. CASE timerExpires \/ receiveFails
  BY <1>3, AsideVInv DEF timerExpires, receiveFails
<1>4. CASE Tick
  BY <1>4, TickVInv
<1>5. CASE dataRace
  BY <1>5, TerminateVInv DEF dataRace
<1>6. ASSUME NEW e \in Copies \cup {Stranger},
             PeerSends(e) \/ Lose(e) \/ Arrive(e)
      PROVE  VInv'
  BY <1>6, AsideVInv DEF PeerSends, Lose, Arrive
<1> QED
  BY <1>1, <1>2, <1>3, <1>4, <1>5, <1>6 DEF Next

\* A copy that has not missed two heartbeats in a row for more than four
\* seconds is on the list, however many threads run the handlers, however
\* their steps overlap and whichever receives fail, provided the handlers run
\* within their second.  multicast_receiver.cpp:41-100.
THEOREM SteadyListed == Spec => []SteadyCopyListed
<1>1. Init => (Prompt => VInv)
  BY InitVInv
<1>2. TypeOK /\ (Prompt => VInv) /\ [Next]_vars => (Prompt => VInv)'
  BY NextVInv
<1>3. TypeOK /\ (Prompt => VInv) => SteadyCopyListed
  <2> SUFFICES ASSUME TypeOK, VInv, NEW e \in Copies, steady[e] > Silence,
                      e \notin live_copies
               PROVE  FALSE
    BY DEF SteadyCopyListed
  <2>1. steady[e] \in Nat /\ heard[e] \in Nat
    BY DEF TypeOK, Ages, MaxAge, Silence, Interval, Settled
  <2>2. heard[e] <= 2 /\ steady[e] <= 2 + heard[e]
    BY <2>1 DEF VInv, SteadyHeard, UnlistedUnsteady, Missed, Beat, Silence
  <2> QED
    BY <2>1, <2>2 DEF Silence
<1> QED
  BY <1>1, <1>2, <1>3, TypeCorrect, PTL DEF Spec
=============================================================================
