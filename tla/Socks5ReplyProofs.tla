------------------------- MODULE Socks5ReplyProofs -------------------------
(***************************************************************************)
(* What the proxy tells its clients, for any clients, connections, inputs  *)
(* and faults and in any order of the handlers: SUCCESS is said only of a  *)
(* remote socket that was connected, as long as async_connect fails with   *)
(* no error but those getConnectionError lists.                            *)
(*                                                                         *)
(* A reply is right because nothing else of its session can touch the      *)
(* remote socket while it is being written: the operations of a session in *)
(* flight are one, or one for each direction of the relay.                 *)
(***************************************************************************)
EXTENDS Socks5ProxyProofs

\* Every error async_connect may report is one getConnectionError lists.
ErrorsListed == "other" \notin ConnectErrors

NotYet == {"none", "connecting", "failed"}
Connected(s) == remote[s] \notin NotYet

\* Only the accept is of no client.
Owned == \A o \in Ongoing : o.s \in Clients \/ o.h = "accept"

\* An accept that has succeeded has a client.
Greeted ==
  \A i \in DOMAIN ready :
    ready[i].op.h = "accept" /\ Succeeded(i) => Session(i) \in Clients

\* A connect ends in success or in an error of its own, and after a success
\* nothing but the remote's leaving happens to the socket.
Answered ==
  \A i \in DOMAIN ready :
    ready[i].op.h = "sendServerResponse" =>
      /\ ready[i].ec \in {"ok"} \cup ConnectErrors
      /\ Succeeded(i) => Connected(Session(i))

\* o and p are not of one client, or they are its relay's two directions.
Apart(o, p) ==
  o.s = p.s /\ o.s \in Clients =>
    \/ o.h \in UpLoop /\ p.h \in DownLoop
    \/ o.h \in DownLoop /\ p.h \in UpLoop

\* No two operations in flight of one session are in the same direction, and
\* none is with another while the session shakes hands: neither its buffers
\* nor its remote socket are ever used twice at a time.
\* proxy_server.cpp:210-291.
Alone ==
  /\ \A o, p \in pending : o # p => Apart(o, p)
  /\ \A o \in pending, i \in DOMAIN ready : Apart(o, ready[i].op)
  /\ \A i, j \in DOMAIN ready : i # j => Apart(ready[i].op, ready[j].op)

\* A client that waits to be accepted has no operation in flight.
Backlog ==
  \A s \in Clients : client[s] = "backlog" => \A o \in Ongoing : o.s # s

\* What is proved of the replies.
Truthful == ErrorsListed => SuccessMeansConnected

SInv == Truthful /\ Owned /\ Greeted /\ Answered /\ Alone /\ Backlog

-----------------------------------------------------------------------------
(***************************************************************************)
(* Where the operations of the next state come from.                       *)
(***************************************************************************)

\* Being apart does not depend on which of the two is named first.
LEMMA ApartSymmetric ==
  ASSUME NEW o, NEW p, Apart(o, p)
  PROVE  Apart(p, o)
BY DEF Apart

\* What is in the queue after Begin was there, at a place of its own other
\* than i, or is an operation that has been aborted, once.
LEMMA BeginOrigin ==
  ASSUME TypeOK, NEW i \in DOMAIN ready,
         NEW started \in SUBSET Ops, IsFiniteSet(started),
         Begin(i, started)
  PROVE  \E n \in Nat : \E lost \in [1 .. n -> (pending \cup started) \ pending'] :
           LET old(k) == IF k < i THEN k ELSE k + 1
               m == Len(ready) - 1
           IN /\ DOMAIN ready' = 1 .. m + n
              /\ \A k \in 1 .. m : /\ old(k) \in DOMAIN ready \ {i}
                                   /\ ready'[k] = ready[old(k)]
              /\ \A k \in m + 1 .. m + n :
                   /\ k - m \in 1 .. n
                   /\ ready'[k] = [op |-> lost[k - m], ec |-> "err"]
              /\ \A j, k \in 1 .. n : lost[j] = lost[k] => j = k
              /\ \A k \in 1 .. n : ~Attached(lost[k])'
<1> DEFINE begun == pending \cup started
           aborted == {o \in begun : ~Attached(o)'}
<1>1. PICK order \in SetToSeqs(aborted) :
        ready' = RemoveAt(ready, i)
                   \o [k \in DOMAIN order |-> [op |-> order[k], ec |-> "err"]]
  BY DEF Begin
<1>2. pending' = begun \ aborted
  BY DEF Begin
<1>3. begun \in SUBSET Ops /\ IsFiniteSet(begun)
  BY FS_Union DEF TypeOK
<1>4. aborted \in SUBSET Ops /\ aborted = begun \ pending'
  BY <1>2, <1>3
<1>5. IsFiniteSet(aborted)
  <2> HIDE DEF begun
  <2> QED  BY <1>3, FS_Subset
<1> DEFINE n == Cardinality(aborted)
           rest == RemoveAt(ready, i)
           tail == [k \in DOMAIN order |-> [op |-> order[k], ec |-> "err"]]
<1>6. n \in Nat
  <2> HIDE DEF aborted
  <2> QED  BY <1>5, FS_CardinalityType
<1>7. /\ order \in [1 .. n -> aborted]
      /\ \A j, k \in 1 .. n : order[j] = order[k] => j = k
  <2> HIDE DEF aborted
  <2> QED  BY <1>1 DEF SetToSeqs
<1>8. ready \in Seq(Entries) /\ Len(ready) \in Nat
      /\ DOMAIN ready = 1 .. Len(ready)
  BY LenProperties DEF TypeOK, Entries
<1>9. /\ rest \in Seq(Entries)
      /\ Len(rest) = Len(ready) - 1
      /\ \A k \in 1 .. Len(ready) - 1 :
           rest[k] = IF k < i THEN ready[k] ELSE ready[k + 1]
  BY <1>8, RemoveAtProperties
<1>10. /\ tail \in [1 .. n -> Entries]
       /\ \A k \in 1 .. n : tail[k] = [op |-> order[k], ec |-> "err"]
  <2> HIDE DEF aborted, n
  <2> QED  BY <1>4, <1>7 DEF Entries, Results
<1>11. \A k \in 1 .. n : ~Attached(order[k])'
  <2> HIDE DEF n
  <2> QED  BY <1>7
<1> HIDE DEF begun, aborted, n, rest, tail
<1>12. tail \in Seq(Entries) /\ Len(tail) = n
  BY <1>6, <1>10, SeqDef, LenProperties
<1>13. ready' = rest \o tail
  BY <1>1 DEF rest, tail
<1>14. /\ ready' \in Seq(Entries)
       /\ Len(ready') = Len(rest) + n
       /\ \A k \in 1 .. Len(rest) + n :
            ready'[k] = IF k <= Len(rest) THEN rest[k] ELSE tail[k - Len(rest)]
  BY <1>9, <1>12, <1>13, ConcatProperties
<1>15. DOMAIN ready' = 1 .. (Len(ready) - 1) + n
  BY <1>9, <1>14, LenProperties
<1>16. ASSUME NEW k \in 1 .. Len(ready) - 1
       PROVE  /\ (IF k < i THEN k ELSE k + 1) \in DOMAIN ready \ {i}
              /\ ready'[k] = ready[IF k < i THEN k ELSE k + 1]
  <2>1. k \in 1 .. Len(rest) + n /\ k <= Len(rest)
    BY <1>6, <1>8, <1>9
  <2>2. ready'[k] = rest[k]
    BY <2>1, <1>14
  <2>3. (IF k < i THEN k ELSE k + 1) \in DOMAIN ready \ {i}
    BY <1>8
  <2> QED  BY <2>2, <2>3, <1>9
<1>17. ASSUME NEW k \in (Len(ready) - 1) + 1 .. (Len(ready) - 1) + n
       PROVE  /\ k - (Len(ready) - 1) \in 1 .. n
              /\ ready'[k] = [op |-> order[k - (Len(ready) - 1)], ec |-> "err"]
  <2>1. /\ k - Len(rest) \in 1 .. n /\ ~(k <= Len(rest))
        /\ k \in 1 .. Len(rest) + n
    BY <1>6, <1>8, <1>9
  <2>2. ready'[k] = tail[k - Len(rest)]
    BY <2>1, <1>14
  <2> QED  BY <2>1, <2>2, <1>9, <1>10
<1>18. order \in [1 .. n -> (pending \cup started) \ pending']
  BY <1>4, <1>7 DEF begun
<1> WITNESS n \in Nat
<1> WITNESS order \in [1 .. n -> (pending \cup started) \ pending']
<1> QED
  BY <1>7, <1>11, <1>15, <1>16, <1>17

\* So an entry of the next queue is an old one or has been aborted, and every
\* operation of the next state was in flight besides entry i, or is started.
LEMMA BeginEntries ==
  ASSUME TypeOK, NEW i \in DOMAIN ready,
         NEW started \in SUBSET Ops, IsFiniteSet(started),
         Begin(i, started)
  PROVE  /\ \A k \in DOMAIN ready' :
              \/ \E j \in DOMAIN ready \ {i} : ready'[k] = ready[j]
              \/ \E o \in pending \cup started :
                   ready'[k] = [op |-> o, ec |-> "err"] /\ ~Attached(o)'
         /\ Ongoing' \subseteq Others(i) \cup started
<1>1. PICK n \in Nat :
        \E lost \in [1 .. n -> (pending \cup started) \ pending'] :
          LET old(k) == IF k < i THEN k ELSE k + 1
              m == Len(ready) - 1
          IN /\ DOMAIN ready' = 1 .. m + n
             /\ \A k \in 1 .. m : /\ old(k) \in DOMAIN ready \ {i}
                                  /\ ready'[k] = ready[old(k)]
             /\ \A k \in m + 1 .. m + n :
                  /\ k - m \in 1 .. n
                  /\ ready'[k] = [op |-> lost[k - m], ec |-> "err"]
             /\ \A k \in 1 .. n : ~Attached(lost[k])'
  BY BeginOrigin
<1>2. Len(ready) \in Nat /\ i \in 1 .. Len(ready)
  BY LenProperties DEF TypeOK
<1>3. ASSUME NEW k \in DOMAIN ready'
      PROVE  \/ \E j \in DOMAIN ready \ {i} : ready'[k] = ready[j]
             \/ \E o \in pending \cup started :
                  ready'[k] = [op |-> o, ec |-> "err"] /\ ~Attached(o)'
  <2>1. CASE k \in 1 .. Len(ready) - 1
    BY <1>1, <2>1
  <2>2. CASE k \notin 1 .. Len(ready) - 1
    <3>1. k \in (Len(ready) - 1) + 1 .. (Len(ready) - 1) + n
      BY <1>1, <1>2, <2>2
    <3> QED  BY <1>1, <3>1
  <2> QED  BY <2>1, <2>2
<1>4. pending' \subseteq pending \cup started
  BY BeginEffect
<1>5. Ongoing' \subseteq Others(i) \cup started
  <2>1. \A k \in DOMAIN ready' : ready'[k].op \in Others(i) \cup started
    BY <1>3 DEF Others
  <2> QED  BY <1>4, <2>1 DEF Ongoing, Others
<1> QED
  BY <1>3, <1>5

-----------------------------------------------------------------------------
(***************************************************************************)
(* What a handler starts.                                                  *)
(***************************************************************************)

\* o may follow entry i: it is the next accept, or the session goes on with it
\* and stays in the direction it was in.
Follows(i, o) ==
  \/ o.h = "accept" /\ o.s = NoClient
  \/ /\ o.s = Session(i) /\ o.s \in Clients
     /\ ready[i].op.h \in UpLoop => o.h \in UpLoop
     /\ ready[i].op.h \in DownLoop => o.h \in DownLoop

\* A handler that starts what may follow, one operation for each direction at
\* the most, leaves every operation alone.
LEMMA AloneKept ==
  ASSUME TypeOK, Alone, NEW i \in DOMAIN ready,
         NEW started \in SUBSET Ops, IsFiniteSet(started),
         \A o \in started : Follows(i, o),
         \A o, p \in started : o # p => Apart(o, p),
         Begin(i, started)
  PROVE  Alone'
<1> DEFINE begun == pending \cup started
<1>1. NoClient \notin Clients
  BY ConstantsAssumption
<1>2. ASSUME NEW o \in started, NEW q, Apart(q, ready[i].op)
      PROVE  Apart(o, q)
  BY <1>1, <1>2 DEF Apart, Follows, Session
<1>3. \A o \in begun, j \in DOMAIN ready \ {i} : Apart(o, ready[j].op)
  <2>1. \A j \in DOMAIN ready \ {i} : Apart(ready[j].op, ready[i].op)
    BY DEF Alone
  <2> QED  BY <1>2, <2>1 DEF Alone
<1>4. \A o, p \in begun : o # p => Apart(o, p)
  <2>1. \A o \in pending : Apart(o, ready[i].op)
    BY DEF Alone
  <2>2. \A o \in started, p \in pending : Apart(o, p) /\ Apart(p, o)
    BY <1>2, <2>1, ApartSymmetric
  <2> QED  BY <2>2 DEF Alone
<1>5. \A j, k \in DOMAIN ready : j # k => Apart(ready[j].op, ready[k].op)
  BY DEF Alone
<1>0. PICK n \in Nat : \E lost \in [1 .. n -> begun \ pending'] :
        LET old(k) == IF k < i THEN k ELSE k + 1
            m == Len(ready) - 1
        IN /\ DOMAIN ready' = 1 .. m + n
           /\ \A k \in 1 .. m : /\ old(k) \in DOMAIN ready \ {i}
                                /\ ready'[k] = ready[old(k)]
           /\ \A k \in m + 1 .. m + n :
                /\ k - m \in 1 .. n
                /\ ready'[k] = [op |-> lost[k - m], ec |-> "err"]
           /\ \A j, k \in 1 .. n : lost[j] = lost[k] => j = k
  BY BeginOrigin
<1>6. PICK lost \in [1 .. n -> begun \ pending'] :
        LET old(k) == IF k < i THEN k ELSE k + 1
            m == Len(ready) - 1
        IN /\ DOMAIN ready' = 1 .. m + n
           /\ \A k \in 1 .. m : /\ old(k) \in DOMAIN ready \ {i}
                                /\ ready'[k] = ready[old(k)]
           /\ \A k \in m + 1 .. m + n :
                /\ k - m \in 1 .. n
                /\ ready'[k] = [op |-> lost[k - m], ec |-> "err"]
           /\ \A j, k \in 1 .. n : lost[j] = lost[k] => j = k
  BY <1>0
<1>7. pending' \subseteq begun
  BY BeginEffect
<1> DEFINE m == Len(ready) - 1
           old(k) == IF k < i THEN k ELSE k + 1
<1>8. Len(ready) \in Nat /\ i \in 1 .. Len(ready) /\ m \in Nat
  BY LenProperties DEF TypeOK
<1>9. ASSUME NEW k \in DOMAIN ready'
      PROVE  \/ /\ k \in 1 .. m
                /\ old(k) \in DOMAIN ready \ {i}
                /\ ready'[k].op = ready[old(k)].op
             \/ /\ k \in m + 1 .. m + n
                /\ k - m \in 1 .. n
                /\ lost[k - m] \in begun \ pending'
                /\ ready'[k].op = lost[k - m]
  <2>1. CASE k \in 1 .. m
    BY <1>6, <2>1
  <2>2. CASE k \notin 1 .. m
    <3>1. k \in m + 1 .. m + n
      BY <1>6, <1>8, <2>2
    <3>2. k - m \in 1 .. n /\ ready'[k] = [op |-> lost[k - m], ec |-> "err"]
      BY <1>6, <3>1
    <3> QED  BY <3>1, <3>2
  <2> QED  BY <2>1, <2>2
<1>10. \A j, k \in 1 .. n : lost[j] = lost[k] => j = k
  BY <1>6
<1>11. \A j, k \in 1 .. m : old(j) = old(k) => j = k
  BY <1>8
<1>12. \A j, k \in m + 1 .. m + n : j - m = k - m => j = k
  BY <1>8
<1> HIDE DEF m, old, begun
<1>13. ASSUME NEW o \in pending', NEW k \in DOMAIN ready'
       PROVE  Apart(o, ready'[k].op)
  BY <1>3, <1>4, <1>7, <1>9
<1>14. ASSUME NEW j \in DOMAIN ready', NEW k \in DOMAIN ready', j # k
       PROVE  Apart(ready'[j].op, ready'[k].op)
  <2>1. CASE j \in 1 .. m /\ old(j) \in DOMAIN ready \ {i}
             /\ ready'[j].op = ready[old(j)].op
    BY <1>3, <1>5, <1>9, <1>11, <1>14, <2>1, ApartSymmetric
  <2>2. CASE j \in m + 1 .. m + n /\ j - m \in 1 .. n
             /\ lost[j - m] \in begun \ pending' /\ ready'[j].op = lost[j - m]
    <3>1. CASE k \in 1 .. m /\ old(k) \in DOMAIN ready \ {i}
               /\ ready'[k].op = ready[old(k)].op
      BY <1>3, <2>2, <3>1
    <3>2. CASE k \in m + 1 .. m + n /\ k - m \in 1 .. n
               /\ lost[k - m] \in begun \ pending' /\ ready'[k].op = lost[k - m]
      <4>1. lost[j - m] # lost[k - m]
        BY <1>10, <1>12, <1>14, <2>2, <3>2
      <4> QED  BY <1>4, <2>2, <3>2, <4>1
    <3> QED  BY <1>9, <3>1, <3>2
  <2> QED  BY <1>9, <2>1, <2>2
<1>15. \A o, p \in pending' : o # p => Apart(o, p)
  BY <1>4, <1>7
<1> QED
  BY <1>13, <1>14, <1>15 DEF Alone, Apart

\* While a handler of a session runs, all its other operations are a relay's.
LEMMA OthersRelay ==
  ASSUME Alone, NEW i \in DOMAIN ready, NEW q \in Others(i),
         q.s = Session(i), q.s \in Clients
  PROVE  q.h \in UpLoop \cup DownLoop
<1>1. Apart(q, ready[i].op)
  BY DEF Alone, Others
<1> QED
  BY <1>1 DEF Apart, Session

\* The names of the handlers are different.
LEMMA HandlerNames ==
  UpLoop \cup DownLoop \subseteq
    Handlers \ {"accept", "startDataTransfer", "sendServerResponse"}
BY DEF UpLoop, DownLoop, Handlers, ClientReads, ClientWrites, RemoteReads,
       RemoteWrites

\* A handler preserves the invariant when what it starts may follow, when it
\* changes no remote socket but its session's and puts no client in the
\* backlog, and when a SUCCESS it starts is true.
LEMMA SessionStep ==
  ASSUME TypeOK, SInv, NEW i \in DOMAIN ready,
         NEW started \in SUBSET Ops, IsFiniteSet(started),
         \A o \in started : Follows(i, o),
         \A o, p \in started : o # p => Apart(o, p),
         Begin(i, started),
         ErrorsListed => \A o \in started :
           o.arg = "SUCCESS" => o.h = "startDataTransfer" /\ Connected(o.s)',
         \A t \in Clients \ {Session(i)} : remote'[t] = remote[t],
         \A t \in Clients : client'[t] = "backlog" => client[t] = "backlog"
  PROVE  SInv'
<1>1. /\ Truthful /\ Owned /\ Greeted /\ Answered /\ Alone /\ Backlog
      /\ NoClient \notin Clients
  BY ConstantsAssumption DEF SInv
<1>2. /\ Ongoing' \subseteq Others(i) \cup started
      /\ \A k \in DOMAIN ready' :
           \/ \E j \in DOMAIN ready \ {i} : ready'[k] = ready[j]
           \/ \E o \in pending \cup started :
                ready'[k] = [op |-> o, ec |-> "err"] /\ ~Attached(o)'
  BY BeginEntries
<1>3. Others(i) \subseteq Ongoing /\ ready[i].op \in Ongoing
  BY DEF Others, Ongoing
\* What is true of a remote socket for another operation remains so.
<1>4. ASSUME NEW o \in Others(i), o.s \in Clients,
             o.h \in {"startDataTransfer", "sendServerResponse"}, Connected(o.s)
      PROVE  Connected(o.s)'
  <2>1. o.s # Session(i)
    BY <1>1, <1>4, OthersRelay, HandlerNames
  <2> QED  BY <1>4, <2>1 DEF Connected
<1>5. Truthful'
  <2> SUFFICES ASSUME ErrorsListed, NEW o \in Ongoing', o.arg = "SUCCESS"
               PROVE  o.h = "startDataTransfer" /\ Connected(o.s)'
    BY DEF Truthful, ErrorsListed, SuccessMeansConnected, Connected, NotYet
  <2>1. CASE o \in Others(i)
    <3>1. o.h = "startDataTransfer" /\ Connected(o.s) /\ o.s \in Clients
      BY <1>1, <1>3, <2>1 DEF Truthful, SuccessMeansConnected, Owned, Connected, NotYet
    <3> QED  BY <1>4, <2>1, <3>1
  <2> QED  BY <1>2, <2>1
<1>6. Owned'
  <2> SUFFICES ASSUME NEW o \in Ongoing'
               PROVE  o.s \in Clients \/ o.h = "accept"
    BY DEF Owned
  <2> QED  BY <1>1, <1>2, <1>3 DEF Owned, Follows
<1>7. Greeted'
  <2> SUFFICES ASSUME NEW k \in DOMAIN ready', ready'[k].op.h = "accept",
                      ready'[k].ec = "ok"
               PROVE  ready'[k].op.s \in Clients
    BY DEF Greeted, Succeeded, Session
  <2>1. PICK j \in DOMAIN ready \ {i} : ready'[k] = ready[j]
    BY <1>2
  <2> QED  BY <1>1, <2>1 DEF Greeted, Succeeded, Session
<1>8. Answered'
  <2> SUFFICES ASSUME NEW k \in DOMAIN ready',
                      ready'[k].op.h = "sendServerResponse"
               PROVE  /\ ready'[k].ec \in {"ok"} \cup ConnectErrors
                      /\ ready'[k].ec = "ok" => remote'[ready'[k].op.s] \notin NotYet
    BY DEF Answered, Succeeded, Session, Connected
  <2>1. \A o : o.h = "sendServerResponse" => Attached(o)'
    BY DEF Attached, ClientReads, ClientWrites, RemoteReads, RemoteWrites
  <2>2. PICK j \in DOMAIN ready \ {i} : ready'[k] = ready[j]
    BY <1>2, <2>1
  <2>3. /\ ready[j].ec \in {"ok"} \cup ConnectErrors
        /\ ready[j].ec = "ok" => Connected(ready[j].op.s)
    BY <1>1, <2>2 DEF Answered, Succeeded, Session
  <2>4. ready[j].op \in Others(i) /\ ready[j].op.s \in Clients
    BY <1>1, <1>3, <2>2 DEF Others, Owned
  <2>5. ready[j].ec = "ok" => remote'[ready[j].op.s] \notin NotYet
    <3> SUFFICES ASSUME NEW o, o = ready[j].op, ready[j].ec = "ok"
                 PROVE  remote'[o.s] \notin NotYet
      OBVIOUS
    <3> QED  BY <1>4, <2>2, <2>3, <2>4 DEF Connected
  <2> QED  BY <2>2, <2>3, <2>5
<1>9. Alone'
  BY <1>1, AloneKept
<1>10. Backlog'
  <2> SUFFICES ASSUME NEW t \in Clients, client'[t] = "backlog",
                      NEW o \in Ongoing'
               PROVE  o.s # t
    BY DEF Backlog
  <2>1. \A q \in Ongoing : q.s # t
    BY <1>1 DEF Backlog
  <2> QED  BY <1>1, <1>2, <1>3, <2>1 DEF Follows, Session
<1> QED
  BY <1>5, <1>6, <1>7, <1>8, <1>9, <1>10 DEF SInv

\* The same for a handler that starts one operation, no false SUCCESS.
LEMMA SessionStepOne ==
  ASSUME TypeOK, SInv, NEW i \in DOMAIN ready,
         NEW o \in Ops, Follows(i, o), ErrorsListed => o.arg # "SUCCESS",
         Begin(i, {o}),
         \A t \in Clients \ {Session(i)} : remote'[t] = remote[t],
         \A t \in Clients : client'[t] = "backlog" => client[t] = "backlog"
  PROVE  SInv'
<1>1. {o} \in SUBSET Ops /\ IsFiniteSet({o})
  BY FS_Singleton
<1>2. \A p \in {o} : Follows(i, p) /\ (ErrorsListed => p.arg # "SUCCESS")
  OBVIOUS
<1>3. \A p, q \in {o} : p # q => Apart(p, q)
  OBVIOUS
<1> DEFINE started == {o}
<1>4. Begin(i, started)
  OBVIOUS
<1> HIDE DEF started
<1> QED
  BY <1>1, <1>2, <1>3, <1>4, SessionStep DEF started

-----------------------------------------------------------------------------
(***************************************************************************)
(* How handlers end.                                                       *)
(***************************************************************************)

\* A handler other than the accept's is a client's.
LEMMA ClientsHandler ==
  ASSUME SInv, NEW i \in DOMAIN ready, ready[i].op.h # "accept"
  PROVE  Session(i) \in Clients
BY DEF SInv, Owned, Ongoing, Session

\* A handler that starts operations of its session, telling no SUCCESS that is
\* not true, and changes nothing else.
LEMMA ProceedSInv ==
  ASSUME TypeOK, SInv, NEW i \in DOMAIN ready,
         NEW started \in SUBSET Ops, IsFiniteSet(started),
         \A o \in started : Follows(i, o),
         \A o, p \in started : o # p => Apart(o, p),
         ErrorsListed => \A o \in started :
           o.arg = "SUCCESS" => o.h = "startDataTransfer" /\ Connected(o.s),
         Proceed(i, started)
  PROVE  SInv'
<1>1. Begin(i, started) /\ client' = client /\ remote' = remote
  BY DEF Proceed
<1>2. ErrorsListed => \A o \in started :
        o.arg = "SUCCESS" => o.h = "startDataTransfer" /\ Connected(o.s)'
  BY <1>1 DEF Connected
<1> QED
  BY <1>1, <1>2, SessionStep

\* One operation is never in its own way.
LEMMA ProceedOneSInv ==
  ASSUME TypeOK, SInv, NEW i \in DOMAIN ready, NEW o \in Ops, Follows(i, o),
         ErrorsListed /\ o.arg = "SUCCESS" =>
           o.h = "startDataTransfer" /\ Connected(o.s),
         Proceed(i, {o})
  PROVE  SInv'
BY FS_Singleton, ProceedSInv

\* addConnection puts no client in the backlog.
LEMMA addConnectionClient ==
  ASSUME TypeOK, NEW c \in Conns, addConnection(c)
  PROVE  \A t \in Clients : client'[t] = "backlog" => client[t] = "backlog"
<1>1. Dropped(peer[c]) \in {"idle", "gone"}
  BY DEF Dropped
<1>2. client' \in {client, [client EXCEPT ![peer[c]] = Dropped(peer[c])]}
  BY DEF addConnection
<1> HIDE DEF Dropped
<1> QED
  BY <1>1, <1>2 DEF TypeOK

\* A session is given up while it shakes hands,
LEMMA GiveUpSInv ==
  ASSUME TypeOK, SInv, NEW i \in DOMAIN ready, GiveUp(i)
  PROVE  SInv'
<1>1. Conn(i) \in Conns
  BY EntryTypes
<1>2. \A t \in Clients : client'[t] = "backlog" => client[t] = "backlog"
  BY <1>1, addConnectionClient DEF GiveUp
<1>3. Begin(i, {}) /\ remote' = remote
  BY DEF GiveUp
<1> QED
  BY <1>2, <1>3, FS_EmptySet, SessionStep

\* or while it relays, which may close its own remote socket.
LEMMA HangUpSInv ==
  ASSUME TypeOK, SInv, NEW i \in DOMAIN ready, HangUp(i)
  PROVE  SInv'
<1>1. Conn(i) \in Conns
  BY EntryTypes
<1>2. \A t \in Clients : client'[t] = "backlog" => client[t] = "backlog"
  BY <1>1, addConnectionClient DEF HangUp
<1>3. \A t \in Clients \ {Session(i)} : remote'[t] = remote[t]
  <2>1. \E x : remote' = [remote EXCEPT ![Session(i)] = x]
    BY DEF HangUp, closeRemote
  <2> QED  BY <2>1 DEF TypeOK
<1>4. Begin(i, {})
  BY DEF HangUp
<1> QED
  BY <1>2, <1>3, <1>4, FS_EmptySet, SessionStep

\* When the process ends nothing is in flight.
LEMMA CrashSInv ==
  ASSUME Crash
  PROVE  SInv'
<1>1. pending' = {} /\ ready' = <<>>
  BY DEF Crash
<1>2. DOMAIN ready' = {} /\ Ongoing' = {}
  BY <1>1, EmptySeq DEF Ongoing
<1> QED
  BY <1>1, <1>2
     DEF SInv, Truthful, SuccessMeansConnected, Owned, Greeted, Answered, Alone,
         Backlog

-----------------------------------------------------------------------------
(***************************************************************************)
(* The handlers.                                                           *)
(***************************************************************************)

\* The accept's handler starts the session of the client it got, and the next
\* accept.
LEMMA acceptConnectionSInv ==
  ASSUME TypeOK, SInv, NEW i \in DOMAIN ready, acceptConnection(i)
  PROVE  SInv'
<1>1. /\ ready[i].op.h = "accept"
      /\ Conn(i) \in Conns /\ Session(i) \in Clients \cup {NoClient}
      /\ ready[i].op.h \notin UpLoop \cup DownLoop
      /\ NoClient \notin Clients
  BY EntryTypes, HandlerNames, ConstantsAssumption DEF acceptConnection, Runs
<1>2. ASSUME NEW c \in Conns
      PROVE  /\ Accept(c) \in Ops /\ Follows(i, Accept(c))
             /\ Accept(c).arg = "none" /\ Accept(c).s = NoClient
  BY DEF Accept, Op, OpArg, Ops, Handlers, Follows
<1>3. ASSUME client' = client, remote' = remote,
             NEW c \in Conns, Begin(i, {Accept(c)})
      PROVE  SInv'
  BY <1>2, <1>3, SessionStepOne
<1>4. ASSUME client' = client, remote' = remote, Succeeded(i), NEW c \in Conns,
             Begin(i, {Op("readAuthMethods", Conn(i), Session(i)), Accept(c)})
      PROVE  SInv'
  <2> DEFINE first == Op("readAuthMethods", Conn(i), Session(i))
             started == {first, Accept(c)}
  <2>1. Session(i) \in Clients
    BY <1>1, <1>4 DEF SInv, Greeted
  <2>2. first \in Ops /\ first.s = Session(i) /\ first.arg = "none"
    BY <1>1 DEF Op, OpArg, Ops, Handlers, ClientReads
  <2>3. Follows(i, first)
    BY <1>1, <2>1, <2>2 DEF Follows
  <2> HIDE DEF first
  <2>4. started \in SUBSET Ops /\ \A o \in started : Follows(i, o)
    BY <1>2, <2>2, <2>3
  <2>5. \A o, p \in started : o # p => Apart(o, p)
    BY <1>1, <1>2, <2>1, <2>2 DEF Apart
  <2>6. IsFiniteSet(started) /\ \A o \in started : o.arg # "SUCCESS"
    BY <1>2, <2>2, PairFinite
  <2>7. Begin(i, started)
    BY <1>4 DEF first
  <2> HIDE DEF started
  <2> QED  BY <1>4, <2>4, <2>5, <2>6, <2>7, SessionStep
<1>5. CASE Crash
  BY <1>5, CrashSInv
<1>6. CASE /\ UNCHANGED <<alive, resolved_hosts, peer, client, remote>>
           /\ \E c \in Conns : getConnection(c) /\ Begin(i, {Accept(c)})
  BY <1>3, <1>6
<1>7. CASE /\ Succeeded(i)
           /\ UNCHANGED <<alive, resolved_hosts, client, remote>>
           /\ \E c \in Conns :
                /\ getConnection(c)
                /\ Begin(i, {Op("readAuthMethods", Conn(i), Session(i)),
                             Accept(c)})
  BY <1>4, <1>7
<1> QED
  BY <1>5, <1>6, <1>7 DEF acceptConnection

\* What a handler of the handshake starts may follow it.
LEMMA NextOfHandshake ==
  ASSUME TypeOK, SInv, NEW i \in DOMAIN ready,
         ready[i].op.h \notin UpLoop \cup DownLoop \cup {"accept"},
         NEW h \in Handlers, NEW a \in Replies \cup {"none", "excess"}
  PROVE  /\ OpArg(h, Conn(i), Session(i), a) \in Ops
         /\ OpArg(h, Conn(i), Session(i), a).h = h
         /\ OpArg(h, Conn(i), Session(i), a).s = Session(i)
         /\ OpArg(h, Conn(i), Session(i), a).arg = a
         /\ Follows(i, OpArg(h, Conn(i), Session(i), a))
<1>1. Conn(i) \in Conns /\ Session(i) \in Clients
  BY EntryTypes, ClientsHandler
<1> QED
  BY <1>1 DEF OpArg, Ops, Follows

\* The handlers of the handshake go on with one operation that is no reply, or
\* give up.
LEMMA HandshakeSInv ==
  ASSUME TypeOK, SInv, NEW i \in DOMAIN ready,
         \/ readAuthMethods(i) \/ sendServerChoice(i)
         \/ handleConnectionRequest(i) \/ readAddressType(i)
         \/ handleAddress(i) \/ getDomainLength(i)
  PROVE  SInv'
<1>1. ready[i].op.h \notin UpLoop \cup DownLoop \cup {"accept"}
  BY DEF readAuthMethods, sendServerChoice, handleConnectionRequest,
         readAddressType, handleAddress, getDomainLength, Runs, UpLoop, DownLoop
<1>2. ASSUME NEW h \in Handlers, NEW a \in {"none", "excess"},
             Proceed(i, {OpArg(h, Conn(i), Session(i), a)})
      PROVE  SInv'
  BY <1>1, <1>2, NextOfHandshake, ProceedOneSInv
<1>3. ASSUME NEW h \in Handlers, Proceed(i, {Op(h, Conn(i), Session(i))})
      PROVE  SInv'
  BY <1>2, <1>3 DEF Op
<1>4. {"sendServerChoice", "handleConnectionRequest", "readAddressType",
       "handleAddress", "readIPv4Address", "getDomainLength",
       "getDomainName"} \subseteq Handlers
  BY DEF Handlers, ClientReads, ClientWrites
<1>5. CASE readAuthMethods(i)
  BY <1>2, <1>4, <1>5, GiveUpSInv DEF readAuthMethods
<1>6. CASE sendServerChoice(i)
  BY <1>3, <1>4, <1>6, GiveUpSInv DEF sendServerChoice
<1>7. CASE handleConnectionRequest(i)
  BY <1>3, <1>4, <1>7, GiveUpSInv DEF handleConnectionRequest
<1>8. CASE readAddressType(i)
  BY <1>3, <1>4, <1>8, GiveUpSInv DEF readAddressType
<1>9. CASE handleAddress(i)
  BY <1>3, <1>4, <1>9, GiveUpSInv DEF handleAddress
<1>10. CASE getDomainLength(i)
  BY <1>2, <1>4, <1>10, GiveUpSInv DEF getDomainLength
<1> QED
  BY <1>5, <1>6, <1>7, <1>8, <1>9, <1>10

\* A connect is started, of the session's own socket.
LEMMA readIPv4AddressSInv ==
  ASSUME TypeOK, SInv, NEW i \in DOMAIN ready, readIPv4Address(i)
  PROVE  SInv'
<1> DEFINE o == Op("sendServerResponse", Conn(i), Session(i))
<1>1. ready[i].op.h \notin UpLoop \cup DownLoop \cup {"accept"}
  BY DEF readIPv4Address, Runs, UpLoop, DownLoop
<1>2. CASE /\ remote' = [remote EXCEPT ![Session(i)] = "connecting"]
           /\ UNCHANGED <<alive, pool, pool_size, resolved_hosts, peer, client>>
           /\ Begin(i, {o})
  <2>1. o \in Ops /\ o.arg = "none" /\ Follows(i, o)
    BY <1>1, NextOfHandshake DEF Op, Handlers
  <2>2. \A t \in Clients \ {Session(i)} : remote'[t] = remote[t]
    BY <1>2 DEF TypeOK
  <2> HIDE DEF o
  <2> QED  BY <1>2, <2>1, <2>2, SessionStepOne
<1> QED
  BY <1>2, GiveUpSInv DEF readIPv4Address

\* A domain name ends the session, and its socket closes.
LEMMA getDomainNameSInv ==
  ASSUME TypeOK, SInv, NEW i \in DOMAIN ready, getDomainName(i)
  PROVE  SInv'
<1>1. CASE /\ \/ client' = client
              \/ client' = [client EXCEPT ![peer[Conn(i)]] =
                                            Dropped(peer[Conn(i)])]
           /\ UNCHANGED <<alive, pool, pool_size, remote>>
           /\ Begin(i, {})
  <2>1. Dropped(peer[Conn(i)]) \in {"idle", "gone"}
    BY DEF Dropped
  <2>2. \A t \in Clients : client'[t] = "backlog" => client[t] = "backlog"
    <3> HIDE DEF Dropped
    <3> QED  BY <1>1, <2>1 DEF TypeOK
  <2> QED  BY <1>1, <2>2, FS_EmptySet, SessionStep
<1> QED
  BY <1>1, GiveUpSInv DEF getDomainName

\* Every listed error has a reply of its own.
LEMMA ErrorsTold ==
  ASSUME NEW e \in ConnectErrors
  PROVE  /\ getConnectionError(e) \in Replies
         /\ ErrorsListed => getConnectionError(e) # "SUCCESS"
<1> DEFINE listed == {"network_unreachable", "host_unreachable",
                      "connection_refused", "timed_out",
                      "address_family_not_supported"}
<1>1. ErrorsListed => e \in listed
  BY ConstantsAssumption DEF ErrorsListed, AllConnectErrors
<1>2. e \in listed =>
        getConnectionError(e) \in Replies /\ getConnectionError(e) # "SUCCESS"
  BY DEF getConnectionError, Replies
<1>3. e \notin listed => getConnectionError(e) \in Replies
  BY DEF getConnectionError, Replies
<1> QED
  BY <1>1, <1>2, <1>3

\* The reply is SUCCESS after a connect that succeeded and only then.
LEMMA sendServerResponseSInv ==
  ASSUME TypeOK, SInv, NEW i \in DOMAIN ready, sendServerResponse(i)
  PROVE  SInv'
<1> DEFINE reply == getConnectionError(ready[i].ec)
           start == OpArg("startDataTransfer", Conn(i), Session(i), reply)
           refuse == OpArg("addConnection", Conn(i), Session(i), reply)
<1>1. /\ ready[i].op.h = "sendServerResponse"
      /\ ready[i].op.h \notin UpLoop \cup DownLoop \cup {"accept"}
  BY DEF sendServerResponse, Runs, UpLoop, DownLoop
<1>2. /\ ready[i].ec \in {"ok"} \cup ConnectErrors
      /\ Succeeded(i) => Connected(Session(i))
  BY <1>1 DEF SInv, Answered
<1>3. Succeeded(i) => reply = "SUCCESS"
  BY DEF Succeeded, getConnectionError
<1>4. Failed(i) => reply \in Replies /\ (ErrorsListed => reply # "SUCCESS")
  BY <1>2, ErrorsTold DEF Failed
<1>5. "SUCCESS" \in Replies /\ {"startDataTransfer", "addConnection"} \subseteq Handlers
  BY DEF Replies, Handlers, ClientWrites
<1> HIDE DEF reply
<1>6. CASE Succeeded(i) /\ Proceed(i, {start})
  <2>1. /\ start \in Ops /\ start.h = "startDataTransfer" /\ start.s = Session(i)
        /\ Follows(i, start)
    BY <1>1, <1>3, <1>5, <1>6, NextOfHandshake
  <2> HIDE DEF start
  <2> QED  BY <1>2, <1>6, <2>1, ProceedOneSInv
<1>7. CASE /\ Failed(i)
           /\ remote' = [remote EXCEPT ![Session(i)] = "none"]
           /\ UNCHANGED <<alive, pool, pool_size, resolved_hosts, peer, client>>
           /\ Begin(i, {refuse})
  <2>1. /\ refuse \in Ops /\ Follows(i, refuse)
        /\ ErrorsListed => refuse.arg # "SUCCESS"
    BY <1>1, <1>4, <1>5, <1>7, NextOfHandshake
  <2>2. \A t \in Clients \ {Session(i)} : remote'[t] = remote[t]
    BY <1>7 DEF TypeOK
  <2> HIDE DEF refuse
  <2> QED  BY <1>7, <2>1, <2>2, SessionStepOne
<1> QED
  BY <1>6, <1>7, CrashSInv DEF sendServerResponse, reply

\* What a handler of the relay starts stays in its direction; after the reply
\* one operation is started in each.
LEMMA RelaySInv ==
  ASSUME TypeOK, SInv, NEW i \in DOMAIN ready, NEW h, h # "accept",
         NEW a \in UpLoop \cup DownLoop, NEW b \in UpLoop \cup DownLoop,
         h \in UpLoop => {a, b} \subseteq UpLoop,
         h \in DownLoop => {a, b} \subseteq DownLoop,
         a = b \/ (a \in UpLoop /\ b \in DownLoop),
         NEW next, next = {a, b}, Relay(i, h, next)
  PROVE  SInv'
<1> DEFINE o == Op(a, Conn(i), Session(i))
           p == Op(b, Conn(i), Session(i))
<1>1. ready[i].op.h = h /\ Conn(i) \in Conns /\ Session(i) \in Clients
  BY EntryTypes, ClientsHandler DEF Relay, Runs
<1>2. /\ o \in Ops /\ o.h = a /\ o.s = Session(i) /\ o.arg = "none"
      /\ p \in Ops /\ p.h = b /\ p.s = Session(i) /\ p.arg = "none"
  BY <1>1, HandlerNames DEF Op, OpArg, Ops
<1>3. Follows(i, o) /\ Follows(i, p)
  <2> HIDE DEF o, p
  <2> QED  BY <1>1, <1>2 DEF Follows
<1>4. o # p => Apart(o, p) /\ Apart(p, o)
  <2>1. a = b => o = p
    OBVIOUS
  <2> HIDE DEF o, p
  <2> QED  BY <1>2, <2>1 DEF Apart
<1>5. CASE Proceed(i, {o, p})
  <2> HIDE DEF o, p
  <2>1. IsFiniteSet({o, p}) /\ {o, p} \in SUBSET Ops
    BY <1>2, PairFinite
  <2> QED  BY <1>2, <1>3, <1>4, <1>5, <2>1, ProceedSInv
<1>6. {Op(n, Conn(i), Session(i)) : n \in next} = {o, p}
  OBVIOUS
<1> HIDE DEF o, p
<1> QED
  BY <1>5, <1>6, HangUpSInv DEF Relay

\* The handlers of the relay.
LEMMA RelayingSInv ==
  ASSUME TypeOK, SInv, NEW i \in DOMAIN ready,
         \/ startDataTransfer(i) \/ sendDataToServer(i)
         \/ recvDataFromClient(i) \/ sendDataToClient(i)
         \/ recvDataFromServer(i)
  PROVE  SInv'
<1>1. ASSUME NEW h, NEW a,
             \/ h \in UpLoop /\ a \in UpLoop
             \/ h \in DownLoop /\ a \in DownLoop,
             Relay(i, h, {a})
      PROVE  SInv'
  <2>1. UpLoop \cap DownLoop = {} /\ h # "accept"
    BY <1>1, HandlerNames DEF UpLoop, DownLoop
  <2> QED  BY <1>1, <2>1, RelaySInv, {a} = {a, a}
<1>2. CASE startDataTransfer(i)
  BY <1>2, RelaySInv, HandlerNames DEF startDataTransfer, UpLoop, DownLoop
<1>3. CASE sendDataToServer(i)
  BY <1>1, <1>3 DEF sendDataToServer, UpLoop
<1>4. CASE recvDataFromClient(i)
  BY <1>1, <1>4 DEF recvDataFromClient, UpLoop
<1>5. CASE sendDataToClient(i)
  BY <1>1, <1>5 DEF sendDataToClient, DownLoop
<1>6. CASE recvDataFromServer(i)
  BY <1>1, <1>6 DEF recvDataFromServer, DownLoop
<1> QED
  BY <1>2, <1>3, <1>4, <1>5, <1>6

\* The rest of a message is the same operation again.
LEMMA continueTransferSInv ==
  ASSUME TypeOK, SInv, NEW i \in DOMAIN ready, continueTransfer(i)
  PROVE  SInv'
<1> SUFFICES ASSUME ~Crash PROVE SInv'
  BY CrashSInv
<1>1. ready[i].op.h # "accept" /\ Proceed(i, {ready[i].op})
  BY DEF continueTransfer, Runs, Composed, ClientReads, ClientWrites,
         RemoteWrites
<1>2. ready[i].op \in Ops /\ Session(i) \in Clients
  BY <1>1, EntryTypes, ClientsHandler
<1>3. Follows(i, ready[i].op)
  BY <1>2 DEF Follows, Session
<1>4. ErrorsListed /\ ready[i].op.arg = "SUCCESS" =>
        ready[i].op.h = "startDataTransfer" /\ Connected(ready[i].op.s)
  BY DEF SInv, Truthful, SuccessMeansConnected, Ongoing, Connected, NotYet
<1> QED
  BY <1>1, <1>2, <1>3, <1>4, ProceedOneSInv

\* Every handler preserves the invariant.
LEMMA HandlerSInv ==
  ASSUME TypeOK, SInv, NEW i \in DOMAIN ready, Handler(i)
  PROVE  SInv'
BY acceptConnectionSInv, HandshakeSInv, readIPv4AddressSInv, getDomainNameSInv,
   sendServerResponseSInv, GiveUpSInv, RelayingSInv, continueTransferSInv
   DEF Handler, replyWritten

-----------------------------------------------------------------------------
(***************************************************************************)
(* The network.                                                            *)
(***************************************************************************)

\* Posting the pending operation o, as q when the acceptor has got a client
\* that nothing in flight is of.
LEMMA PostSInv ==
  ASSUME TypeOK, SInv, NEW o \in pending, NEW q, q.h = o.h, q.arg = o.arg,
         \/ q = o
         \/ q.s \in Clients /\ o.h = "accept" /\ \A p \in Ongoing : p.s # q.s,
         NEW e,
         pending' = pending \ {o},
         ready' = Append(ready, [op |-> q, ec |-> e]),
         o.h = "accept" /\ e = "ok" => q.s \in Clients,
         o.h = "sendServerResponse" =>
           /\ e \in {"ok"} \cup ConnectErrors
           /\ e = "ok" => Connected(o.s)',
         \A t \in Clients :
           remote'[t] = remote[t] \/ (o.h = "sendServerResponse" /\ t = o.s),
         \A t \in Clients :
           client'[t] = "backlog" => client[t] = "backlog" /\ t # q.s
  PROVE  SInv'
<1>1. /\ Truthful /\ Owned /\ Greeted /\ Answered /\ Alone /\ Backlog
      /\ o \in Ongoing
  BY DEF SInv, Ongoing
<1> DEFINE n == Len(ready) + 1
<1>2. /\ DOMAIN ready' = DOMAIN ready \cup {n} /\ n \notin DOMAIN ready
      /\ \A k \in DOMAIN ready : ready'[k] = ready[k]
      /\ ready'[n] = [op |-> q, ec |-> e]
  <2>1. Len(ready) \in Nat /\ DOMAIN ready = 1 .. Len(ready)
    BY LenProperties DEF TypeOK
  <2> QED  BY <2>1 DEF TypeOK
<1> HIDE DEF n
<1>3. Ongoing' \subseteq Ongoing \cup {q}
  BY <1>2 DEF Ongoing
\* What is in flight besides o is apart from q.
<1>4. ASSUME NEW p \in Ongoing, Apart(p, o)
      PROVE  Apart(p, q)
  BY <1>4 DEF Apart
<1>5. /\ \A p \in pending' : Apart(p, q)
      /\ \A k \in DOMAIN ready : Apart(ready[k].op, q)
  <2>1. \A p \in pending' : Apart(p, o)
    BY <1>1 DEF Alone
  <2>2. \A k \in DOMAIN ready : Apart(ready[k].op, o)
    BY <1>1, ApartSymmetric DEF Alone
  <2> QED  BY <1>4, <2>1, <2>2 DEF Ongoing
<1>6. Alone'
  <2>1. \A p, r \in pending' : p # r => Apart(p, r)
    BY <1>1 DEF Alone
  <2>2. \A p \in pending', k \in DOMAIN ready' : Apart(p, ready'[k].op)
    BY <1>1, <1>2, <1>5 DEF Alone
  <2>3. \A j, k \in DOMAIN ready' : j # k => Apart(ready'[j].op, ready'[k].op)
    BY <1>1, <1>2, <1>5, ApartSymmetric DEF Alone
  <2> QED  BY <2>1, <2>2, <2>3 DEF Alone, Apart
\* A connect under way is all its session has in flight.
<1>7. ASSUME NEW p, p \in pending' \cup {ready[k].op : k \in DOMAIN ready},
             p.s \in Clients,
             p.h \in {"startDataTransfer", "sendServerResponse"}
      PROVE  remote'[p.s] = remote[p.s]
  <2>1. Apart(p, o)
    BY <1>1, <1>7, ApartSymmetric DEF Alone
  <2> QED  BY <1>7, <2>1, HandlerNames DEF Apart
<1>8. Truthful'
  <2> SUFFICES ASSUME ErrorsListed, NEW p \in Ongoing', p.arg = "SUCCESS"
               PROVE  p.h = "startDataTransfer" /\ remote'[p.s] \notin NotYet
    BY DEF Truthful, ErrorsListed, SuccessMeansConnected, NotYet
  <2>1. CASE p \in pending' \cup {ready[k].op : k \in DOMAIN ready}
    <3>1. p \in Ongoing
      BY <2>1 DEF Ongoing
    <3>2. /\ p.h = "startDataTransfer" /\ remote[p.s] \notin NotYet
          /\ p.s \in Clients
      BY <1>1, <3>1 DEF Truthful, SuccessMeansConnected, Owned, NotYet
    <3> QED  BY <1>7, <2>1, <3>2
  <2>2. CASE p = q
    <3>1. /\ o.h = "startDataTransfer" /\ remote[o.s] \notin NotYet
          /\ o.s \in Clients
      BY <1>1, <2>2 DEF Truthful, SuccessMeansConnected, Owned, NotYet
    <3> QED  BY <2>2, <3>1
  <2> QED  BY <1>2, <2>1, <2>2 DEF Ongoing
<1>9. Owned'
  BY <1>1, <1>3 DEF Owned
<1>10. Greeted'
  BY <1>1, <1>2 DEF Greeted, Succeeded, Session
<1>11. Answered'
  <2> SUFFICES ASSUME NEW k \in DOMAIN ready',
                      ready'[k].op.h = "sendServerResponse"
               PROVE  /\ ready'[k].ec \in {"ok"} \cup ConnectErrors
                      /\ ready'[k].ec = "ok" =>
                           remote'[ready'[k].op.s] \notin NotYet
    BY DEF Answered, Succeeded, Session, Connected
  <2>1. CASE k \in DOMAIN ready
    <3>1. /\ ready[k].ec \in {"ok"} \cup ConnectErrors
          /\ ready[k].ec = "ok" => remote[ready[k].op.s] \notin NotYet
      BY <1>1, <1>2, <2>1 DEF Answered, Succeeded, Session, Connected
    <3>2. ready[k].op.s \in Clients
      BY <1>1, <1>2, <2>1 DEF Owned, Ongoing
    <3>3. remote'[ready[k].op.s] = remote[ready[k].op.s]
      BY <1>2, <1>7, <2>1, <3>2
    <3> QED  BY <1>2, <2>1, <3>1, <3>3
  <2>2. CASE k = n
    BY <1>2, <2>2 DEF Connected
  <2> QED  BY <1>2, <2>1, <2>2
<1>12. Backlog'
  BY <1>1, <1>3 DEF Backlog
<1> QED
  BY <1>6, <1>8, <1>9, <1>10, <1>11, <1>12 DEF SInv

\* The reactor completes an operation.
LEMMA CompleteSInv ==
  ASSUME TypeOK, SInv, NEW o \in pending, Complete(o)
  PROVE  SInv'
<1>1. PICK e \in Outcomes(o) :
        /\ Post(o, e)
        /\ remote' = IF o.h = "sendServerResponse"
                     THEN [remote EXCEPT ![o.s] = IF e = "ok" THEN "up"
                                                              ELSE "failed"]
                     ELSE remote
  BY DEF Complete
<1>2. o \in Ongoing /\ client' = client
  BY DEF Ongoing, Complete
<1>3. o.h # "accept"
  BY <1>1 DEF Outcomes, Transfer, Composed, ClientReads, ClientWrites,
              RemoteReads, RemoteWrites
<1>4. o.s \in Clients
  BY <1>2, <1>3 DEF SInv, Owned
<1>5. ASSUME o.h = "sendServerResponse"
      PROVE  /\ e \in {"ok"} \cup ConnectErrors
             /\ e = "ok" => Connected(o.s)'
  <2>1. e \in {"ok"} \cup ConnectErrors
    BY <1>1, <1>5 DEF Outcomes, Transfer, Composed, ClientReads, ClientWrites,
                      RemoteReads, RemoteWrites
  <2>2. e = "ok" => remote'[o.s] = "up"
    BY <1>1, <1>4, <1>5 DEF TypeOK
  <2> QED  BY <2>1, <2>2 DEF Connected, NotYet
<1>6. \A t \in Clients :
        remote'[t] = remote[t] \/ (o.h = "sendServerResponse" /\ t = o.s)
  BY <1>1, <1>4 DEF TypeOK
<1>7. \A t \in Clients :
        client'[t] = "backlog" => client[t] = "backlog" /\ t # o.s
  BY <1>2 DEF SInv, Backlog
<1> QED
  BY <1>1, <1>3, <1>5, <1>6, <1>7, PostSInv DEF Post

\* The acceptor gets a client, which had nothing in flight.
LEMMA AcceptClientSInv ==
  ASSUME TypeOK, SInv, NEW s \in Clients, AcceptClient(s)
  PROVE  SInv'
<1>1. PICK o \in pending :
        /\ o.h = "accept"
        /\ pending' = pending \ {o}
        /\ ready' = Append(ready, [op |-> [o EXCEPT !.s = s], ec |-> "ok"])
  BY DEF AcceptClient
<1> DEFINE q == [o EXCEPT !.s = s]
<1>2. q.h = o.h /\ q.arg = o.arg /\ q.s = s
  BY DEF TypeOK, Ops
<1>3. \A p \in Ongoing : p.s # s
  BY DEF AcceptClient, SInv, Backlog
<1>4. remote' = remote /\ client' = [client EXCEPT ![s] = "up"]
  BY DEF AcceptClient
<1>5. \A t \in Clients : client'[t] = "backlog" => client[t] = "backlog" /\ t # s
  BY <1>4 DEF TypeOK
<1> HIDE DEF q
<1>6. ready' = Append(ready, [op |-> q, ec |-> "ok"])
  BY <1>1 DEF q
<1> QED
  BY <1>1, <1>2, <1>3, <1>4, <1>5, <1>6, PostSInv

\* The acceptor reports an error.
LEMMA AcceptFailsSInv ==
  ASSUME TypeOK, SInv, AcceptFails
  PROVE  SInv'
<1>1. PICK o \in pending : o.h = "accept" /\ Post(o, "err")
  BY DEF AcceptFails
<1>2. client' = client /\ remote' = remote /\ o \in Ongoing
  BY DEF AcceptFails, Ongoing
<1>3. \A t \in Clients :
        client'[t] = "backlog" => client[t] = "backlog" /\ t # o.s
  BY <1>2 DEF SInv, Backlog
<1> QED
  BY <1>1, <1>2, <1>3, PostSInv DEF Post

\* Clients come, and clients and remotes leave: a remote socket that was
\* connected has been connected.
LEMMA FarEndSInv ==
  ASSUME TypeOK, SInv, NEW s \in Clients,
         Connect(s) \/ ClientLeaves(s) \/ RemoteLeaves(s)
  PROVE  SInv'
<1>1. pending' = pending /\ ready' = ready
  BY DEF Connect, ClientLeaves, RemoteLeaves
<1>2. Ongoing' = Ongoing
  BY <1>1 DEF Ongoing
<1>3. Alone' /\ Owned' /\ Greeted'
  BY <1>1, <1>2
     DEF SInv, Alone, Apart, Owned, Greeted, Succeeded, Session
<1>4. \A t \in Clients : remote[t] \notin NotYet => remote'[t] \notin NotYet
  BY DEF TypeOK, Connect, ClientLeaves, RemoteLeaves, Leaves, NotYet
<1>5. Truthful'
  <2> SUFFICES ASSUME ErrorsListed, NEW o \in Ongoing, o.arg = "SUCCESS"
               PROVE  o.h = "startDataTransfer" /\ remote'[o.s] \notin NotYet
    BY <1>2 DEF Truthful, ErrorsListed, SuccessMeansConnected, NotYet
  <2>1. /\ o.h = "startDataTransfer" /\ remote[o.s] \notin NotYet
        /\ o.s \in Clients
    BY DEF SInv, Truthful, SuccessMeansConnected, Owned, NotYet
  <2> QED  BY <1>4, <2>1
<1>6. Answered'
  <2> SUFFICES ASSUME NEW k \in DOMAIN ready,
                      ready[k].op.h = "sendServerResponse"
               PROVE  /\ ready[k].ec \in {"ok"} \cup ConnectErrors
                      /\ ready[k].ec = "ok" =>
                           remote'[ready[k].op.s] \notin NotYet
    BY <1>1 DEF Answered, Succeeded, Session, Connected
  <2>1. ready[k].op.s \in Clients
    BY DEF SInv, Owned, Ongoing
  <2> QED  BY <1>4, <2>1 DEF SInv, Answered, Succeeded, Session, Connected
<1>7. ASSUME NEW t \in Clients, client'[t] = "backlog", NEW o \in Ongoing
      PROVE  o.s # t
  <2>1. CASE client[t] = "backlog"
    BY <2>1 DEF SInv, Backlog
  <2>2. CASE client[t] # "backlog"
    <3>1. t = s /\ Connect(s)
      BY <1>7, <2>2
         DEF TypeOK, Connect, ClientLeaves, RemoteLeaves, Leaves
    <3> QED  BY <3>1 DEF Connect, Ongoing
  <2> QED  BY <2>1, <2>2
<1>8. Backlog'
  BY <1>2, <1>7 DEF Backlog
<1> QED
  BY <1>3, <1>5, <1>6, <1>8 DEF SInv

-----------------------------------------------------------------------------
(***************************************************************************)
(* The theorems.                                                           *)
(***************************************************************************)
LEMMA InitSInv == Init => SInv
<1> SUFFICES ASSUME Init
             PROVE  SInv
  OBVIOUS
<1>1. PICK c \in Conns : pending = {Accept(c)} /\ ready = <<>>
  BY DEF Init
<1>2. /\ Accept(c).h = "accept" /\ Accept(c).arg = "none"
      /\ Accept(c).s = NoClient /\ NoClient \notin Clients
  BY ConstantsAssumption DEF Accept, Op, OpArg
<1>3. Ongoing = {Accept(c)} /\ DOMAIN ready = {}
  BY <1>1, EmptySeq DEF Ongoing
<1>4. \A s \in Clients : client[s] # "backlog"
  BY DEF Init
<1> HIDE DEF Accept
<1> QED
  BY <1>1, <1>2, <1>3, <1>4
     DEF SInv, Truthful, SuccessMeansConnected, Owned, Greeted, Answered, Alone,
         Backlog

LEMMA NextSInv == TypeOK /\ SInv /\ [Next]_vars => SInv'
<1> SUFFICES ASSUME TypeOK, SInv, [Next]_vars
             PROVE  SInv'
  OBVIOUS
<1>1. ASSUME NEW i \in DOMAIN ready, Handler(i)
      PROVE  SInv'
  BY <1>1, HandlerSInv
<1>2. ASSUME NEW o \in pending, Complete(o)
      PROVE  SInv'
  BY <1>2, CompleteSInv
<1>3. CASE Network
  BY <1>3, AcceptFailsSInv, AcceptClientSInv, FarEndSInv DEF Network
<1>4. CASE UNCHANGED vars
  BY <1>4 DEF vars, SInv, Truthful, ErrorsListed, SuccessMeansConnected, Owned,
              Greeted, Answered, Alone, Apart, Backlog, Ongoing, Succeeded, Session, Connected
<1> QED
  BY <1>1, <1>2, <1>3, <1>4 DEF Next

\* The invariant of this module holds in every reachable state.
THEOREM InductiveReplies == Spec => []SInv
<1> QED
  BY InitSInv, NextSInv, TypeCorrect, PTL DEF Spec

\* A client is told SUCCESS only when its remote socket has been connected, if
\* every error of a connect is listed; run proxy_reply shows that it is not so
\* when one is not.  proxy_server.cpp:164-208.
THEOREM RepliesAreTrue ==
  ASSUME ErrorsListed
  PROVE  Spec => []SuccessMeansConnected
<1>1. SInv => SuccessMeansConnected
  BY DEF SInv, Truthful
<1> QED
  BY InductiveReplies, <1>1, PTL

\* No two operations of a session in flight share a direction of its relay,
\* and none is in flight beside a step of its handshake.
\* proxy_server.cpp:37-291.
THEOREM NoneInTheWay == Spec => []Alone
<1>1. SInv => Alone
  BY DEF SInv
<1> QED
  BY InductiveReplies, <1>1, PTL
=============================================================================
