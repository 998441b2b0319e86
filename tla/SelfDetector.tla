---------------------------- MODULE SelfDetector ----------------------------
(***************************************************************************)
(* selfdetecting/src: copies of the application find each other by UDP     *)
(* multicast.  Each sends its identifier once a second, lists the          *)
(* endpoints it hears the identifier from, and every four seconds takes    *)
(* those off that have been silent for more than four.                     *)
(*                                                                         *)
(* Two threads run the same io_context and nothing serialises the handlers *)
(* of the receiver: each operation on its two containers is one step, and  *)
(* the steps of handlers interleave.  Time is counted in whole seconds,    *)
(* as second_clock does; a time stamp is kept as its age.                  *)
(***************************************************************************)
EXTENDS Integers, FiniteSets, Functions

CONSTANTS
  Threads,    \* the threads that call io_context.run()
  Copies,     \* endpoints that send our identifier
  Self,       \* the endpoint of this copy, which hears itself
  Stranger,   \* an endpoint that sends something else
  Faults,     \* a subset of {"receive", "send", "race"}
  MaxErrors,  \* bound on the receives that fail
  Prompt      \* TRUE: what is due is done before the clock moves on

Results == {"pending", "none", "error"}   \* of a receive, besides endpoints

ASSUME ConstantsAssumption ==
  /\ IsFiniteSet(Threads)
  /\ Self \in Copies /\ Stranger \notin Copies
  /\ Results \cap (Copies \cup {Stranger}) = {}
  /\ Faults \subseteq {"receive", "send", "race"}
  /\ MaxErrors \in Nat
  /\ Prompt \in BOOLEAN

VARIABLES
  alive,          \* no exception has left a thread
  live_copies,
  last_activity,  \* the age of each endpoint's time stamp
  wait,           \* the seconds left of activity_check_timer's wait
  posted,         \* checkActivity handlers waiting for a thread
  beat,           \* the seconds left of the sender's timer
  network,        \* the endpoints that have a datagram in flight
  receive,        \* the receive: pending, posted with its result, or none
  work,           \* where each thread is
  heard,          \* history: the seconds since an endpoint was handled
  errors,         \* history: the receives whose failure was handled
  steady          \* history: the seconds without two beats missed in a row

vars == <<alive, live_copies, last_activity, wait, posted, beat, network,
          receive, work, heard, errors, steady>>

Interval == 4   \* startActivityCheckTimer
Silence  == 4   \* removeInactiveCopies
Beat     == 1   \* MulticastSender
MaxAge   == Silence + Interval + 2
Ages     == 0 .. MaxAge
Settled  == Silence + 1   \* bound on steady

\* not_a_date_time: no comparison with it holds.
NoTime == -1
\* The timer is not being waited for.
NoWait == -1

Idle == [at |-> "idle"]
Receiving(step, e) == [at |-> step, who |-> e]
Erasing(S) == [at |-> "erase", from |-> S]
Forgetting(e, S) == [at |-> "forget", who |-> e, from |-> S]
Works == {Idle} \cup [at : {"stampNew", "stampKnown"}, who : Copies]
           \cup [at : {"erase"}, from : SUBSET Copies]
           \cup [at : {"forget"}, who : Copies, from : SUBSET Copies]

At(step) == {t \in Threads : work[t].at = step}
Checking == At("erase") \cup At("forget")

\* Thread t is at the given step with what it carries.
Goes(t, w) == work' = [work EXCEPT ![t] = w]

(***************************************************************************)
(* MulticastReceiver.                                                      *)
(***************************************************************************)
startReceive == receive' = "pending"

\* expires_from_now() cancels the wait under way; its handler, which does not
\* look at the error, is posted all the same.
startActivityCheckTimer ==
  /\ posted' = posted + (IF wait # NoWait THEN 1 ELSE 0)
  /\ wait' = Interval

\* The sender's constructor: its timer is set for the first heartbeat.
InitSender == beat = Beat

Init ==
  /\ InitSender
  /\ alive = TRUE
  /\ live_copies = {}
  /\ last_activity = <<>>
  /\ wait = Interval /\ posted = 0
  /\ network = {}
  /\ receive = "pending"
  /\ work = [t \in Threads |-> Idle]
  /\ heard = [e \in Copies |-> MaxAge]
  /\ errors = 0
  /\ steady = [e \in Copies |-> 0]

\* Variants of handleReceive with a bug: the identifier is not compared; the
\* next receive is started before the endpoint is used.
handleReceiveAnyone(t) ==
  /\ work[t] = Idle
  /\ receive \in Copies \cup {Stranger}
  /\ live_copies' = live_copies \cup {receive}
  /\ Goes(t, Receiving("stampNew", receive))
  /\ receive' = "none"
  /\ UNCHANGED <<alive, last_activity, wait, posted, beat, network, heard,
                 errors, steady>>
handleReceiveEarly(t) ==
  /\ work[t] = Idle
  /\ receive \in Copies
  /\ live_copies' = live_copies \cup {receive}
  /\ Goes(t, Receiving("stampKnown", receive))
  /\ startReceive
  /\ heard' = [heard EXCEPT ![receive] = 0]
  /\ UNCHANGED <<alive, last_activity, wait, posted, beat, network, errors,
                 steady>>

\* handleReceive, the datagram being one of ours: it is put on the list.
handleReceive(t) ==
  /\ work[t] = Idle
  /\ receive \in Copies
  /\ live_copies' = live_copies \cup {receive}
  /\ Goes(t, Receiving(IF receive \in live_copies THEN "stampKnown"
                                                  ELSE "stampNew", receive))
  /\ receive' = "none"
  /\ heard' = [heard EXCEPT ![receive] = 0]
  /\ UNCHANGED <<alive, last_activity, wait, posted, beat, network, errors,
                 steady>>

\* Variant with a bug: a time stamp that is there is never renewed.
stampCopyOnce(t) ==
  /\ t \in At("stampNew") \cup At("stampKnown")
  /\ LET e == work[t].who
         stamped == DOMAIN last_activity
     IN last_activity' = [f \in stamped \cup {e} |->
                            IF f \in stamped THEN last_activity[f] ELSE 0]
  /\ Goes(t, Idle)
  /\ startReceive
  /\ UNCHANGED <<alive, live_copies, wait, posted, beat, network, heard,
                 errors, steady>>

\* ... and gets its time stamp: map::insert keeps an entry that is there.
stampCopy(t) ==
  /\ t \in At("stampNew") \cup At("stampKnown")
  /\ LET e == work[t].who
         stamped == DOMAIN last_activity
     IN last_activity' = IF work[t].at = "stampNew" /\ e \in stamped
                         THEN last_activity
                         ELSE [f \in stamped \cup {e} |->
                                 IF f = e THEN 0 ELSE last_activity[f]]
  /\ Goes(t, Idle)
  /\ startReceive
  /\ UNCHANGED <<alive, live_copies, wait, posted, beat, network, heard,
                 errors, steady>>

\* handleReceive, the datagram being someone else's.
ignoreStranger(t) ==
  /\ work[t] = Idle
  /\ receive = Stranger
  /\ startReceive
  /\ UNCHANGED <<alive, live_copies, last_activity, wait, posted, beat,
                 network, work, heard, errors, steady>>

\* handleReceive, the receive having failed: the timer is started once more.
handleReceiveError(t) ==
  /\ work[t] = Idle
  /\ receive = "error"
  /\ startActivityCheckTimer
  /\ startReceive
  /\ errors' = errors + 1
  /\ UNCHANGED <<alive, live_copies, last_activity, beat, network, work,
                 heard, steady>>

\* Variant with a bug: the operands of the difference are swapped.
checkActivityReversed(t) ==
  /\ work[t] = Idle
  /\ posted > 0
  /\ posted' = posted - 1
  /\ Goes(t, Erasing({}))
  /\ UNCHANGED <<alive, live_copies, last_activity, wait, beat, network,
                 receive, heard, errors, steady>>

\* checkActivity up to the end of the first loop of removeInactiveCopies;
\* operator[] gives an endpoint that has no time stamp the one NoTime.
checkActivity(t) ==
  /\ work[t] = Idle
  /\ posted > 0
  /\ posted' = posted - 1
  /\ LET stamp(e) == IF e \in DOMAIN last_activity THEN last_activity[e]
                                                   ELSE NoTime
     IN /\ last_activity' = [e \in DOMAIN last_activity \cup live_copies |->
                               stamp(e)]
        /\ Goes(t, Erasing({e \in live_copies : stamp(e) > Silence}))
  /\ UNCHANGED <<alive, live_copies, wait, beat, network, receive, heard,
                 errors, steady>>

\* The second loop: first the list, then the time stamp.
eraseCopy(t) ==
  /\ t \in At("erase")
  /\ \E e \in work[t].from :
       /\ live_copies' = live_copies \ {e}
       /\ Goes(t, Forgetting(e, work[t].from \ {e}))
  /\ UNCHANGED <<alive, last_activity, wait, posted, beat, network, receive,
                 heard, errors, steady>>

eraseStamp(t) ==
  /\ t \in At("forget")
  /\ last_activity' = Restrict(last_activity,
                               DOMAIN last_activity \ {work[t].who})
  /\ Goes(t, Erasing(work[t].from))
  /\ UNCHANGED <<alive, live_copies, wait, posted, beat, network, receive,
                 heard, errors, steady>>

\* Variant with a bug: the timer is not started again.
checkAgainNever(t) ==
  /\ work[t] = Erasing({})
  /\ Goes(t, Idle)
  /\ UNCHANGED <<alive, live_copies, last_activity, wait, posted, beat,
                 network, receive, heard, errors, steady>>

\* The end of checkActivity.
checkAgain(t) ==
  /\ work[t] = Erasing({})
  /\ startActivityCheckTimer
  /\ Goes(t, Idle)
  /\ UNCHANGED <<alive, live_copies, last_activity, beat, network, receive,
                 heard, errors, steady>>

(***************************************************************************)
(* MulticastSender.                                                        *)
(***************************************************************************)

\* An exception that leaves a thread ends the process, and with it its memory.
Terminate == /\ alive' = FALSE
             /\ live_copies' = {} /\ last_activity' = <<>>
             /\ work' = [t \in Threads |-> Idle]
             /\ receive' = "none" /\ posted' = 0
             /\ wait' = NoWait /\ beat' = NoWait
             /\ network' = {}
             /\ heard' = [e \in Copies |-> MaxAge]
             /\ steady' = [e \in Copies |-> 0]
             /\ UNCHANGED errors

sendUdpMessage(t) ==
  /\ work[t] = Idle
  /\ beat = 0
  /\ \/ /\ network' = network \cup {Self}
        /\ beat' = Beat
        /\ UNCHANGED <<alive, live_copies, last_activity, wait, posted,
                       receive, work, heard, errors, steady>>
     \/ "send" \in Faults /\ Terminate

(***************************************************************************)
(* The network, the clock, and what two threads may do to a container.     *)
(***************************************************************************)
timerExpires ==
  /\ wait = 0
  /\ wait' = NoWait
  /\ posted' = posted + 1
  /\ UNCHANGED <<alive, live_copies, last_activity, beat, network, receive,
                 work, heard, errors, steady>>

\* Other copies come and go; datagrams are lost and reordered.
PeerSends(e) ==
  /\ alive
  /\ e # Self
  /\ network' = network \cup {e}
  /\ UNCHANGED <<alive, live_copies, last_activity, wait, posted, beat,
                 receive, work, heard, errors, steady>>
Lose(e) ==
  /\ network' = network \ {e}
  /\ e \in network
  /\ UNCHANGED <<alive, live_copies, last_activity, wait, posted, beat,
                 receive, work, heard, errors, steady>>
Arrive(e) ==
  /\ receive = "pending"
  /\ e \in network
  /\ network' = network \ {e}
  /\ receive' = e
  /\ UNCHANGED <<alive, live_copies, last_activity, wait, posted, beat, work,
                 heard, errors, steady>>
receiveFails ==
  /\ "receive" \in Faults
  /\ receive = "pending"
  /\ errors < MaxErrors
  /\ receive' = "error"
  /\ UNCHANGED <<alive, live_copies, last_activity, wait, posted, beat,
                 network, work, heard, errors, steady>>

Older(age) == IF age \in 0 .. (MaxAge - 1) THEN age + 1 ELSE age
Sooner(left) == IF left > 0 THEN left - 1 ELSE left

Due == \/ posted > 0 \/ wait = 0 \/ beat = 0
       \/ receive # "pending" \/ \E t \in Threads : work[t] # Idle

Tick ==
  /\ alive
  /\ Prompt => ~Due
  /\ last_activity' = [e \in DOMAIN last_activity |-> Older(last_activity[e])]
  /\ heard' = [e \in Copies |-> Older(heard[e])]
  /\ steady' = [e \in Copies |-> IF heard'[e] > 2 * Beat THEN 0
                                 ELSE IF steady[e] < Settled THEN steady[e] + 1
                                 ELSE Settled]
  /\ wait' = Sooner(wait)
  /\ beat' = Sooner(beat)
  /\ UNCHANGED <<alive, live_copies, posted, network, receive, work, errors>>

\* Two threads are in the same container, one of them changing it, or both
\* start the timer: the end of a check and the handler of a failed receive.
Races ==
  \/ At("stampNew") \cup At("stampKnown") # {} /\ Checking # {}
  \/ Cardinality(Checking) > 1
  \/ /\ receive = "error" /\ At("idle") # {}
     /\ \E t \in Threads : work[t] = Erasing({})
dataRace == "race" \in Faults /\ Races /\ Terminate

(***************************************************************************)
(* The specification.                                                      *)
(***************************************************************************)
Handler(t) ==
  \/ handleReceive(t) \/ stampCopy(t) \/ ignoreStranger(t)
  \/ handleReceiveError(t)
  \/ checkActivity(t) \/ eraseCopy(t) \/ eraseStamp(t) \/ checkAgain(t)
  \/ sendUdpMessage(t)

Next ==
  \/ \E t \in Threads : Handler(t)
  \/ timerExpires \/ receiveFails \/ Tick \/ dataRace
  \/ \E e \in Copies \cup {Stranger} : PeerSends(e) \/ Lose(e) \/ Arrive(e)

Spec == Init /\ [][Next]_vars
-----------------------------------------------------------------------------
\* Every variable keeps its type: among others only endpoints that sent our
\* identifier get into the two containers.  multicast_receiver.cpp:49-59.
TypeOK ==
  /\ alive \in BOOLEAN
  /\ live_copies \subseteq Copies
  /\ DOMAIN last_activity \subseteq Copies
  /\ \A e \in DOMAIN last_activity : last_activity[e] \in Ages \cup {NoTime}
  /\ wait \in 0 .. Interval \cup {NoWait}
  /\ posted \in Nat
  /\ beat \in 0 .. Beat \cup {NoWait}
  /\ network \subseteq Copies \cup {Stranger}
  /\ receive \in Results \cup {Stranger} \cup Copies
  /\ work \in [Threads -> Works]
  /\ heard \in [Copies -> Ages]
  /\ errors \in 0 .. MaxErrors
  /\ steady \in [Copies -> 0 .. Settled]

\* The chain of checks neither breaks nor forks on its own: the check waited
\* for, those posted and those running are one, and one more for every receive
\* that failed.  From two on the timer never runs out any more, every check
\* cancels the wait of another one.  multicast_receiver.cpp:62-77.
CheckChain ==
  alive => (IF wait # NoWait THEN 1 ELSE 0) + posted + Cardinality(Checking)
             = 1 + errors

\* The receive is under way in one place: nothing fills recv_buffer and
\* remote_endpoint while a handler reads them.  multicast_receiver.cpp:34-67.
OneReceive ==
  alive => Cardinality(At("stampNew") \cup At("stampKnown"))
             = IF receive = "none" THEN 1 ELSE 0

\* A listed copy that has a time stamp is off the list two intervals after it
\* was last heard, provided handlers are not held up.
\* multicast_receiver.cpp:69-100.
SilentCopyRemoved ==
  Prompt /\ errors = 0 =>
    \A e \in live_copies :
      e \in DOMAIN last_activity /\ last_activity[e] # NoTime
        => heard[e] <= Silence + Interval

\* A copy that has missed no two heartbeats in a row for more than four
\* seconds is on the list, whatever the handlers of the threads have
\* overlapped with until now: a check that takes it off on the word of an old
\* time stamp, or a stamp that is left behind by one, is made good within that
\* time.  Again provided handlers are not held up.
\* multicast_receiver.cpp:49-61,80-95.
SteadyCopyListed ==
  Prompt => \A e \in Copies : steady[e] > Silence => e \in live_copies

\* Only copies that have been silent for more than four seconds are taken off
\* the list, and whoever is heard is put on it.  multicast_receiver.cpp:41-100,
\* where the log says "Removed inactive copy"; two threads do not keep it.
List == INSTANCE Membership WITH listed <- live_copies, silence <- heard,
                                 Limit <- Silence
ListIsRight == List!Spec
=============================================================================
