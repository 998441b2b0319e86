------------------------- MODULE Socks5OwnerProofs -------------------------
(***************************************************************************)
(* Whose a connection is, and who listens on it.                           *)
(*                                                                         *)
(* For any clients, connections, inputs and faults and in any order of the *)
(* handlers: a session whose connection is open is heard, unless it has    *)
(* ended with a domain name and an operation of an earlier session keeps   *)
(* its connection from being closed.                                       *)
(*                                                                         *)
(* When the queue is run in order and nobody resets a connection: what     *)
(* waits on a connection is of the client it is open to, every session has *)
(* the operations its stage calls for and no others, and a handler that    *)
(* comes late cuts off nobody but a client that is being greeted.          *)
(***************************************************************************)
EXTENDS Socks5ReplyProofs

Live == {"up", "fin", "rst"}
Loops == UpLoop \cup DownLoop

\* A connection is open to a client that is connected,
PeersLive == \A c \in Conns : Open(c) => client[peer[c]] \in Live

\* and to no two connections at a time.
OnePerClient ==
  \A c, d \in Conns : Open(c) /\ peer[c] = peer[d] => c = d

\* The client of an accept that is posted has no connection yet.
Unmet(o) ==
  o.h = "accept" /\ o.s \in Clients =>
    client[o.s] \in Live /\ \A c \in Conns : peer[c] # o.s
AcceptsUnmet == \A o \in Ongoing : Unmet(o)

\* The operations of a session that is open are on its own connection.
OwnConnection ==
  \A o \in Ongoing : o.h # "accept" =>
    \A c \in Conns : peer[c] = o.s => o.c = c

\* An operation of session s waits for the client, or one for each end.
Busy(s) == \/ \E o \in Ongoing : o.s = s /\ o.h \notin Loops
           \/ /\ \E o \in Ongoing : o.s = s /\ o.h \in UpLoop
              /\ \E o \in Ongoing : o.s = s /\ o.h \in DownLoop

\* Only another session's operation is left on the connection c.
LeftOn(c) == /\ \A o \in Ongoing : o.s # peer[c]
             /\ \E o \in Ongoing : o.c = c /\ o.h # "accept"

Heard == \A c \in Conns : Open(c) => Busy(peer[c]) \/ LeftOn(c)

HInv == PeersLive /\ OnePerClient /\ AcceptsUnmet /\ OwnConnection /\ Heard

-----------------------------------------------------------------------------
(***************************************************************************)
(* All the operations of the next state.                                   *)
(***************************************************************************)

\* A sequence of the elements of a finite set, each once, has all of them.
LEMMA OrderCovers ==
  ASSUME NEW S, IsFiniteSet(S), NEW order \in SetToSeqs(S)
  PROVE  /\ order \in [1 .. Cardinality(S) -> S]
         /\ \A x \in S : \E k \in 1 .. Cardinality(S) : order[k] = x
<1> DEFINE n == Cardinality(S)
<1>1. n \in Nat
  BY FS_CardinalityType
<1>2. order \in [1 .. n -> S] /\ \A j, k \in 1 .. n : j # k => order[j] # order[k]
  BY DEF SetToSeqs
<1>3. IsFiniteSet(1 .. n) /\ Cardinality(1 .. n) = n
  <2> HIDE DEF n
  <2>1. 1 \in Int /\ n \in Int
    BY <1>1
  <2>2. IsFiniteSet(1 .. n) /\ Cardinality(1 .. n) = IF 1 > n THEN 0 ELSE n - 1 + 1
    BY <2>1, FS_Interval
  <2>3. (IF 1 > n THEN 0 ELSE n - 1 + 1) = n
    BY <1>1
  <2> QED  BY <2>2, <2>3
<1>4. order \in Injection(1 .. n, S)
  BY <1>2 DEF Injection, IsInjective
<1>5. order \in Surjection(1 .. n, S)
  <2>1. Cardinality(1 .. n) = Cardinality(S)
    BY <1>3
  <2> HIDE DEF n
  <2> QED  BY <1>4, <2>1, FS_Injection
<1> QED
  BY <1>2, <1>5 DEF Surjection

\* Every operation that is aborted is posted, behind the entries that were not
\* consumed.
LEMMA BeginPosts ==
  ASSUME TypeOK, NEW i \in DOMAIN ready,
         NEW started \in SUBSET Ops, IsFiniteSet(started),
         Begin(i, started)
  PROVE  /\ \A o \in pending' : Attached(o)'
         /\ \A o \in (pending \cup started) \ pending' :
              \E k \in DOMAIN ready' :
                k > Len(ready) - 1 /\ ready'[k].op = o
<1> DEFINE begun == pending \cup started
           aborted == {o \in begun : ~Attached(o)'}
<1>1. PICK order \in SetToSeqs(aborted) :
        ready' = RemoveAt(ready, i)
                   \o [k \in DOMAIN order |-> [op |-> order[k], ec |-> "err"]]
  BY DEF Begin
<1>2. pending' = begun \ aborted
  BY DEF Begin
<1>3. begun \in SUBSET Ops /\ IsFiniteSet(begun)
  BY FS_Union DEF TypeOK
<1>4. aborted \in SUBSET Ops
  BY <1>3
<1>5. IsFiniteSet(aborted)
  <2> HIDE DEF begun
  <2> QED  BY <1>3, FS_Subset
<1> DEFINE n == Cardinality(aborted)
           rest == RemoveAt(ready, i)
           tail == [k \in DOMAIN order |-> [op |-> order[k], ec |-> "err"]]
<1>6. /\ order \in [1 .. n -> aborted]
      /\ \A o \in aborted : \E k \in 1 .. n : order[k] = o
  <2> HIDE DEF aborted
  <2> QED  BY <1>1, <1>5, OrderCovers
<1>7. n \in Nat
  <2> HIDE DEF aborted
  <2> QED  BY <1>5, FS_CardinalityType
<1>8. ready \in Seq(Entries) /\ Len(ready) \in Nat
      /\ DOMAIN ready = 1 .. Len(ready)
  BY LenProperties DEF TypeOK, Entries
<1>9. rest \in Seq(Entries) /\ Len(rest) = Len(ready) - 1
  BY <1>8, RemoveAtProperties
<1>10. /\ tail \in [1 .. n -> Entries]
       /\ \A k \in 1 .. n : tail[k].op = order[k]
  <2> HIDE DEF aborted, n
  <2> QED  BY <1>4, <1>6 DEF Entries, Results
<1> HIDE DEF begun, aborted, n, rest, tail
<1>11. tail \in Seq(Entries) /\ Len(tail) = n
  BY <1>7, <1>10, SeqDef, LenProperties
<1>12. ready' = rest \o tail
  BY <1>1 DEF rest, tail
<1>13. /\ Len(ready') = Len(rest) + Len(tail)
       /\ ready' \in Seq(Entries)
       /\ \A k \in 1 .. Len(rest) + Len(tail) :
            ready'[k] = IF k <= Len(rest) THEN rest[k] ELSE tail[k - Len(rest)]
  BY <1>9, <1>11, <1>12, ConcatProperties
<1>14. DOMAIN ready' = 1 .. Len(rest) + n /\ Len(rest) \in Nat
  BY <1>9, <1>11, <1>13, LenProperties
<1>15. ASSUME NEW o \in aborted
       PROVE  \E k \in DOMAIN ready' :
                k > Len(ready) - 1 /\ ready'[k].op = o
  <2>1. PICK k \in 1 .. n : order[k] = o
    BY <1>6
  <2>2. /\ Len(rest) + k \in 1 .. Len(rest) + n /\ ~(Len(rest) + k <= Len(rest))
        /\ (Len(rest) + k) - Len(rest) = k
        /\ Len(rest) + k > Len(ready) - 1
    BY <1>7, <1>9, <1>14
  <2>3. ready'[Len(rest) + k] = tail[k]
    BY <1>11, <1>13, <2>2
  <2> QED  BY <1>10, <1>14, <2>1, <2>2, <2>3
<1>16. (pending \cup started) \ pending' \subseteq aborted
       /\ \A o \in pending' : Attached(o)'
  BY <1>2 DEF begun, aborted
<1> QED
  BY <1>15, <1>16

\* Nothing gets lost: what a handler does not consume, and what it starts, is
\* pending or posted.
LEMMA BeginKeeps ==
  ASSUME TypeOK, NEW i \in DOMAIN ready,
         NEW started \in SUBSET Ops, IsFiniteSet(started),
         Begin(i, started)
  PROVE  Ongoing' = Others(i) \cup started
<1>1. Len(ready) \in Nat /\ DOMAIN ready = 1 .. Len(ready)
  BY LenProperties DEF TypeOK
\* The entries that were not consumed are there.
<1>2. ASSUME NEW j \in DOMAIN ready \ {i}
      PROVE  \E k \in DOMAIN ready' : ready'[k] = ready[j]
  <2>1. /\ 1 .. (Len(ready) - 1) \subseteq DOMAIN ready'
        /\ \A k \in 1 .. (Len(ready) - 1) :
             ready'[k] = IF k < i THEN ready[k] ELSE ready[k + 1]
    BY BeginEffect
  <2>2. CASE j < i
    <3>1. j \in 1 .. (Len(ready) - 1)
      BY <1>1, <2>2
    <3> QED  BY <2>1, <2>2, <3>1
  <2>3. CASE ~(j < i)
    <3>1. j - 1 \in 1 .. (Len(ready) - 1) /\ ~(j - 1 < i) /\ (j - 1) + 1 = j
      BY <1>1, <2>3
    <3>2. ready'[j - 1] = ready[(j - 1) + 1]
      BY <2>1, <3>1
    <3>3. j - 1 \in DOMAIN ready' /\ ready'[j - 1] = ready[j]
      BY <2>1, <3>1, <3>2
    <3> QED  BY <3>3
  <2> QED  BY <2>2, <2>3
<1>3. \A o \in (pending \cup started) \ pending' :
        \E k \in DOMAIN ready' : ready'[k].op = o
  BY BeginPosts
<1>4. Others(i) \cup started \subseteq Ongoing'
  BY <1>2, <1>3 DEF Others, Ongoing
<1> QED
  BY <1>4, BeginEntries

-----------------------------------------------------------------------------
(***************************************************************************)
(* How a session goes on, or ends.                                         *)
(***************************************************************************)

\* Besides the operation of entry i, those of its session are the other
\* direction's.
LEMMA EntryAndOthers ==
  ASSUME SInv, NEW i \in DOMAIN ready
  PROVE  /\ Ongoing = Others(i) \cup {ready[i].op}
         /\ ready[i].op.s = Session(i) /\ ready[i].op.c = Conn(i)
         /\ \A o \in Others(i) :
              o.s = Session(i) /\ o.s \in Clients =>
                \/ o.h \in UpLoop /\ ready[i].op.h \in DownLoop
                \/ o.h \in DownLoop /\ ready[i].op.h \in UpLoop
<1>1. \A o \in Others(i) : Apart(o, ready[i].op)
  BY DEF SInv, Alone, Others
<1>2. Ongoing = Others(i) \cup {ready[i].op}
  BY DEF Ongoing, Others
<1> QED
  BY <1>1, <1>2 DEF Apart, Session, Conn

\* A handler relays in one direction.
LEMMA DirectionsDiffer == UpLoop \cap DownLoop = {}
BY DEF UpLoop, DownLoop

\* An accept waits for a connection that is closed.
LEMMA AcceptClosed ==
  ASSUME IInv, alive, NEW o \in Ongoing, o.h = "accept"
  PROVE  ~Open(o.c)
<1>1. PICK d \in Conns : AcceptOn(d) /\ ~Open(d)
  BY DEF IInv, AcceptArmed
<1>2. o.c = d
  BY <1>1 DEF AcceptOn, Ongoing, Conn
<1> QED
  BY <1>1, <1>2

\* A handler keeps its session going: what it starts is of the session, on
\* the same connection and waits for the client, or for the ends that entry i
\* did.
LEMMA GoesOn ==
  ASSUME TypeOK, SInv, HInv, NEW i \in DOMAIN ready, ready[i].op.h # "accept",
         NEW started \in SUBSET Ops, IsFiniteSet(started), started # {},
         \A o \in started : /\ o.h # "accept"
                            /\ o.s = Session(i) /\ o.c = Conn(i),
         \/ \E o \in started : o.h \notin Loops
         \/ /\ ready[i].op.h \in UpLoop \/ \E o \in started : o.h \in DownLoop
            /\ ready[i].op.h \in DownLoop \/ \E o \in started : o.h \in UpLoop,
         Begin(i, started),
         peer' = peer, client' = client
  PROVE  HInv'
<1>1. /\ Ongoing' = Others(i) \cup started
      /\ Ongoing = Others(i) \cup {ready[i].op}
      /\ ready[i].op.s = Session(i) /\ ready[i].op.c = Conn(i)
      /\ Session(i) \in Clients
      /\ \A o \in Others(i) :
           o.s = Session(i) =>
             \/ o.h \in UpLoop /\ ready[i].op.h \in DownLoop
             \/ o.h \in DownLoop /\ ready[i].op.h \in UpLoop
  BY BeginKeeps, EntryAndOthers, ClientsHandler
<1>2. PeersLive /\ OnePerClient /\ AcceptsUnmet /\ OwnConnection /\ Heard
  BY DEF HInv
<1>3. PeersLive' /\ OnePerClient'
  BY <1>2 DEF PeersLive, OnePerClient, Open
<1>4. AcceptsUnmet'
  BY <1>1, <1>2 DEF AcceptsUnmet, Unmet
<1>5. OwnConnection'
  BY <1>1, <1>2 DEF OwnConnection
<1>6. ASSUME NEW c \in Conns, Open(c), Busy(peer[c])
      PROVE  Busy(peer[c])'
  <2>1. CASE peer[c] = Session(i)
    <3>1. CASE ready[i].op.h \in Loops
      <4>1. \A o \in Ongoing : o.s = Session(i) => o.h \in Loops
        BY <1>1, <3>1 DEF Loops
      <4>2. \E u, d \in Ongoing : /\ u.s = Session(i) /\ u.h \in UpLoop
                                   /\ d.s = Session(i) /\ d.h \in DownLoop
        BY <1>6, <2>1, <4>1 DEF Busy
      <4> QED  BY <1>1, <2>1, <3>1, <4>2, DirectionsDiffer DEF Busy, Loops
    <3>2. CASE ready[i].op.h \notin Loops
      BY <1>1, <2>1, <3>2 DEF Busy, Loops
    <3> QED  BY <3>1, <3>2
  <2>2. CASE peer[c] # Session(i)
    BY <1>1, <1>6, <2>2 DEF Busy
  <2> QED  BY <2>1, <2>2
<1>7. ASSUME NEW c \in Conns, LeftOn(c)
      PROVE  LeftOn(c)'
  BY <1>1, <1>7 DEF LeftOn
<1>8. Heard'
  BY <1>2, <1>6, <1>7 DEF Heard, Open
<1> QED
  BY <1>3, <1>4, <1>5, <1>8 DEF HInv

\* A handler ends its session: it closes the connection unless that is closed
\* already or, for a session that shook hands, another operation is on it.
LEMMA Ends ==
  ASSUME IInv, SInv, HInv, NEW i \in DOMAIN ready, ready[i].op.h # "accept",
         Begin(i, {}),
         \/ /\ Open(Conn(i))
            /\ peer' = [peer EXCEPT ![Conn(i)] = NoClient]
            /\ client' = [client EXCEPT ![peer[Conn(i)]] =
                                          Dropped(peer[Conn(i)])]
         \/ /\ ~Open(Conn(i))
            /\ UNCHANGED <<peer, client>>
         \/ /\ ready[i].op.h \notin Loops
            /\ \E o \in Others(i) : o.c = Conn(i)
            /\ UNCHANGED <<peer, client>>
  PROVE  HInv'
<1> USE DEF Open
<1>0. TypeOK /\ alive /\ NoClient \notin Clients /\ Conn(i) \in Conns
  BY IInvParts, RunsAlive, ConstantsAssumption, EntryTypes
<1>1. /\ Ongoing' = Others(i)
      /\ Ongoing = Others(i) \cup {ready[i].op}
      /\ ready[i].op.s = Session(i) /\ ready[i].op.c = Conn(i)
      /\ Session(i) \in Clients
      /\ \A o \in Others(i) :
           o.s = Session(i) =>
             \/ o.h \in UpLoop /\ ready[i].op.h \in DownLoop
             \/ o.h \in DownLoop /\ ready[i].op.h \in UpLoop
  BY <1>0, BeginKeeps, FS_EmptySet, EntryAndOthers, ClientsHandler
<1>2. /\ PeersLive /\ OnePerClient /\ AcceptsUnmet /\ OwnConnection /\ Heard
      /\ \A o \in Ongoing : o.s \in Clients \/ o.h = "accept"
      /\ peer \in [Conns -> Clients \cup {NoClient}]
      /\ client \in [Clients -> {"idle", "backlog", "up", "fin", "rst", "gone"}]
  BY <1>0 DEF HInv, SInv, Owned, TypeOK
\* The clients that stay connected.
<1>3. /\ \A c \in Conns : peer'[c] \in {peer[c], NoClient}
      /\ \A t \in Clients :
           client'[t] = client[t] \/ (Open(Conn(i)) /\ t = peer[Conn(i)]
                                      /\ peer'[Conn(i)] = NoClient)
  BY <1>0, <1>2
<1>4. PeersLive'
  BY <1>0, <1>2, <1>3 DEF PeersLive, OnePerClient
<1>5. OnePerClient'
  BY <1>2, <1>3 DEF OnePerClient
<1>6. AcceptsUnmet'
  BY <1>0, <1>1, <1>2, <1>3 DEF AcceptsUnmet, Unmet
<1>7. OwnConnection'
  <2> SUFFICES ASSUME NEW o \in Ongoing', o.h # "accept",
                      NEW c \in Conns, peer'[c] = o.s
               PROVE  o.c = c
    BY DEF OwnConnection
  <2>1. o \in Ongoing /\ o.s # NoClient
    BY <1>0, <1>1, <1>2
  <2> QED  BY <1>2, <1>3, <2>1 DEF OwnConnection
\* On another connection nothing changes.
<1>8. ASSUME NEW c \in Conns, peer'[c] # NoClient, c # Conn(i)
      PROVE  (Busy(peer[c]) \/ LeftOn(c))' 
  <2>1. peer'[c] = peer[c] /\ Open(c)
    BY <1>3, <1>8
  <2>2. peer[c] # Session(i)
    BY <1>1, <1>2, <1>8 DEF OwnConnection
  <2>3. CASE Busy(peer[c])
    BY <1>1, <2>1, <2>2, <2>3 DEF Busy
  <2>4. CASE LeftOn(c)
    BY <1>1, <1>8, <2>1, <2>4 DEF LeftOn
  <2> QED  BY <1>2, <2>1, <2>3, <2>4 DEF Heard
\* On its own another session's operation may be left.
<1>9. ASSUME NEW c \in Conns, c = Conn(i), peer'[c] # NoClient
      PROVE  (Busy(peer[c]) \/ LeftOn(c))'
  <2>1. /\ ready[i].op.h \notin Loops
        /\ peer' = peer /\ Open(c)
        /\ \E o \in Others(i) : o.c = c
    BY <1>0, <1>2, <1>9
  <2>2. PICK o \in Others(i) : o.c = c /\ o.h # "accept"
    BY <1>0, <1>1, <2>1, AcceptClosed
  <2>3. CASE peer[c] = Session(i)
    <3>1. \A q \in Others(i) : q.s # Session(i)
      BY <1>1, <2>1 DEF Loops
    <3> QED  BY <1>1, <2>1, <2>2, <2>3, <3>1 DEF LeftOn
  <2>4. CASE peer[c] # Session(i)
    <3>1. CASE Busy(peer[c])
      BY <1>1, <2>1, <2>4, <3>1 DEF Busy
    <3>2. CASE LeftOn(c)
      BY <1>1, <2>1, <2>2, <3>2 DEF LeftOn
    <3> QED  BY <1>0, <1>2, <2>1, <3>1, <3>2 DEF Heard
  <2> QED  BY <2>3, <2>4
<1>10. Heard'
  BY <1>8, <1>9 DEF Heard
<1> QED
  BY <1>4, <1>5, <1>6, <1>7, <1>10 DEF HInv

\* While the accept's handler runs no other accept is in flight.
LEMMA OnlyAccept ==
  ASSUME IInv, NEW i \in DOMAIN ready, ready[i].op.h = "accept"
  PROVE  /\ \A o \in Others(i) : o.h # "accept"
         /\ ~Open(Conn(i))
<1>1. alive
  BY RunsAlive
<1>2. PICK d \in Conns : AcceptOn(d) /\ ~Open(d)
  BY <1>1 DEF IInv, AcceptArmed
<1> QED
  BY <1>2 DEF AcceptOn, Others, Conn

\* The accept's handler starts the session of a client that had no connection
\* and nothing in flight.
LEMMA SessionStarts ==
  ASSUME IInv, SInv, HInv, NEW i \in DOMAIN ready, ready[i].op.h = "accept",
         Session(i) \in Clients,
         NEW first \in Ops, first.h = "readAuthMethods",
         first.s = Session(i), first.c = Conn(i),
         NEW next \in Ops, next.h = "accept", next.s = NoClient,
         Begin(i, {first, next}),
         peer' = [peer EXCEPT ![Conn(i)] = Session(i)], client' = client
  PROVE  HInv'
<1> USE DEF Open
<1>0. TypeOK /\ NoClient \notin Clients /\ Conn(i) \in Conns
  BY IInvParts, ConstantsAssumption, EntryTypes
<1>1. /\ Ongoing' = Others(i) \cup {first, next}
      /\ Ongoing = Others(i) \cup {ready[i].op}
      /\ ready[i].op.s = Session(i)
      /\ \A o \in Others(i) : o.s # Session(i) /\ o.h # "accept"
      /\ peer[Conn(i)] = NoClient
  <2>1. {first, next} \in SUBSET Ops /\ IsFiniteSet({first, next})
    BY PairFinite
  <2>2. Ongoing' = Others(i) \cup {first, next}
    <3> DEFINE started == {first, next}
    <3>1. Begin(i, started)
      OBVIOUS
    <3> HIDE DEF started
    <3> QED  BY <1>0, <2>1, <3>1, BeginKeeps DEF started
  <2>3. ready[i].op.h \notin UpLoop \cup DownLoop
    BY HandlerNames
  <2>4. /\ Ongoing = Others(i) \cup {ready[i].op}
        /\ ready[i].op.s = Session(i)
        /\ \A o \in Others(i) : o.s # Session(i)
    BY <2>3, EntryAndOthers
  <2> QED  BY <2>2, <2>4, OnlyAccept
<1>2. /\ PeersLive /\ OnePerClient /\ AcceptsUnmet /\ OwnConnection /\ Heard
      /\ peer \in [Conns -> Clients \cup {NoClient}]
  BY <1>0 DEF HInv, TypeOK
<1>3. /\ client[Session(i)] \in Live
      /\ \A c \in Conns : peer[c] # Session(i)
  BY <1>1, <1>2 DEF AcceptsUnmet, Unmet
<1>4. \A c \in Conns : peer'[c] = IF c = Conn(i) THEN Session(i) ELSE peer[c]
  BY <1>0, <1>2
<1>5. PeersLive' /\ OnePerClient'
  BY <1>2, <1>3, <1>4 DEF PeersLive, OnePerClient
<1>6. AcceptsUnmet'
  <2> SUFFICES ASSUME NEW o \in Ongoing', o.h = "accept", o.s \in Clients
               PROVE  FALSE
    BY DEF AcceptsUnmet, Unmet
  <2> QED  BY <1>0, <1>1
<1>7. OwnConnection'
  BY <1>0, <1>1, <1>2, <1>3, <1>4 DEF OwnConnection
<1>8. ASSUME NEW c \in Conns, c # Conn(i), peer[c] # NoClient
      PROVE  (Busy(peer[c]) \/ LeftOn(c))'
  <2>1. peer'[c] = peer[c] /\ peer[c] # Session(i)
    BY <1>3, <1>4, <1>8
  <2>2. CASE Busy(peer[c])
    BY <1>1, <2>1, <2>2 DEF Busy
  <2>3. CASE LeftOn(c)
    <3>1. \A o \in Ongoing' : o.s # peer'[c]
      BY <1>1, <1>8, <2>1, <2>3 DEF LeftOn
    <3>2. \E o \in Ongoing' : o.c = c /\ o.h # "accept"
      BY <1>1, <2>3 DEF LeftOn
    <3> QED  BY <3>1, <3>2 DEF LeftOn
  <2> QED  BY <1>2, <1>8, <2>2, <2>3 DEF Heard
<1>9. ASSUME NEW c \in Conns, c = Conn(i)
      PROVE  Busy(peer[c])'
  <2>1. first.h \notin Loops
    BY DEF Loops, UpLoop, DownLoop
  <2> QED  BY <1>1, <1>4, <1>9, <2>1 DEF Busy
<1>10. Heard'
  BY <1>4, <1>8, <1>9 DEF Heard
<1> QED
  BY <1>5, <1>6, <1>7, <1>10 DEF HInv

\* What no client is of may come and go, and clients may leave.
LEMMA HInvFrame ==
  ASSUME HInv, peer' = peer,
         peer \in [Conns -> Clients \cup {NoClient}],
         \A t \in Clients : client[t] \in Live => client'[t] \in Live,
         NEW p, p.h = "accept",
         NEW q, q.h = "accept",
         q.s \in Clients =>
           client'[q.s] \in Live /\ \A c \in Conns : peer[c] # q.s,
         Ongoing \subseteq Ongoing' \cup {p},
         Ongoing' \subseteq Ongoing \cup {q}
  PROVE  HInv'
<1> USE DEF Open
<1>1. PeersLive /\ OnePerClient /\ AcceptsUnmet /\ OwnConnection /\ Heard
      /\ NoClient \notin Clients
  BY ConstantsAssumption DEF HInv
<1>2. PeersLive' /\ OnePerClient' /\ AcceptsUnmet' /\ OwnConnection'
  BY <1>1 DEF PeersLive, OnePerClient, AcceptsUnmet, Unmet, OwnConnection
<1>3. ASSUME NEW c \in Conns, peer[c] # NoClient
      PROVE  (Busy(peer[c]) \/ LeftOn(c))'
  <2>1. \A o \in Ongoing : o.s = peer[c] => o.h # "accept"
    BY <1>1, <1>3 DEF AcceptsUnmet, Unmet
  <2>2. CASE Busy(peer[c])
    BY <2>1, <2>2 DEF Busy
  <2>3. CASE LeftOn(c)
    BY <1>1, <1>3, <2>3 DEF LeftOn
  <2> QED  BY <1>1, <1>3, <2>2, <2>3 DEF Heard
<1>4. Heard'
  BY <1>3 DEF Heard
<1> QED
  BY <1>2, <1>4 DEF HInv

-----------------------------------------------------------------------------
(***************************************************************************)
(* The handlers.                                                           *)
(***************************************************************************)

\* A session that gives its connection back ends, while it shakes hands or
\* relays.
LEMMA GivesBack ==
  ASSUME IInv, SInv, HInv, NEW i \in DOMAIN ready, ready[i].op.h # "accept",
         GiveUp(i) \/ HangUp(i)
  PROVE  HInv'
<1>1. addConnection(Conn(i)) /\ Begin(i, {})
  BY DEF GiveUp, HangUp
<1>2. \/ /\ Open(Conn(i))
         /\ peer' = [peer EXCEPT ![Conn(i)] = NoClient]
         /\ client' = [client EXCEPT ![peer[Conn(i)]] = Dropped(peer[Conn(i)])]
      \/ /\ ~Open(Conn(i))
         /\ UNCHANGED <<peer, client>>
  BY <1>1 DEF addConnection
<1> QED
  BY <1>1, <1>2, Ends

\* When the process ends no connection is open.
LEMMA CrashHInv ==
  ASSUME Crash
  PROVE  HInv'
<1>1. pending' = {} /\ ready' = <<>> /\ peer' = [c \in Conns |-> NoClient]
  BY DEF Crash
<1>2. Ongoing' = {} /\ \A c \in Conns : peer'[c] = NoClient
  BY <1>1, EmptySeq DEF Ongoing
<1> QED
  BY <1>2
     DEF HInv, PeersLive, OnePerClient, AcceptsUnmet, OwnConnection, Heard, Open

\* The operation h with which a session goes on.
LEMMA NextOfSession ==
  ASSUME IInv, NEW i \in DOMAIN ready, NEW h \in Handlers,
         NEW a \in Replies \cup {"none", "excess"}
  PROVE  /\ OpArg(h, Conn(i), Session(i), a) \in Ops
         /\ OpArg(h, Conn(i), Session(i), a).h = h
         /\ OpArg(h, Conn(i), Session(i), a).c = Conn(i)
         /\ OpArg(h, Conn(i), Session(i), a).s = Session(i)
<1>1. TypeOK
  BY IInvParts
<1> QED
  BY <1>1, EntryTypes DEF OpArg, Ops

\* One operation that waits for the client follows another.
LEMMA GoesOnHandshake ==
  ASSUME IInv, SInv, HInv, NEW i \in DOMAIN ready, ready[i].op.h # "accept",
         NEW h \in Handlers \ (Loops \cup {"accept"}),
         NEW a \in Replies \cup {"none", "excess"},
         Begin(i, {OpArg(h, Conn(i), Session(i), a)}),
         peer' = peer, client' = client
  PROVE  HInv'
<1> DEFINE o == OpArg(h, Conn(i), Session(i), a)
           started == {o}
<1>1. o \in Ops /\ o.h = h /\ o.c = Conn(i) /\ o.s = Session(i)
  BY NextOfSession
<1>2. TypeOK /\ Begin(i, started)
  BY IInvParts
<1> HIDE DEF o
<1>3. started \in SUBSET Ops /\ IsFiniteSet(started) /\ started # {}
  BY <1>1, FS_Singleton
<1>4. /\ \A p \in started : /\ p.h # "accept"
                            /\ p.s = Session(i) /\ p.c = Conn(i)
      /\ \E p \in started : p.h \notin Loops
  BY <1>1
<1> HIDE DEF started
<1> QED
  BY <1>2, <1>3, <1>4, GoesOn

\* The accept's handler.
LEMMA acceptConnectionHInv ==
  ASSUME IInv, SInv, HInv, NEW i \in DOMAIN ready, acceptConnection(i)
  PROVE  HInv'
<1>0. /\ ready[i].op.h = "accept" /\ TypeOK /\ NoClient \notin Clients
      /\ Conn(i) \in Conns /\ Session(i) \in Clients \cup {NoClient}
      /\ peer \in [Conns -> Clients \cup {NoClient}]
  BY IInvParts, EntryTypes, ConstantsAssumption
     DEF acceptConnection, Runs, TypeOK
<1>1. ASSUME NEW c \in Conns
      PROVE  /\ Accept(c) \in Ops /\ Accept(c).h = "accept"
             /\ Accept(c).s = NoClient
  BY DEF Accept, Op, OpArg, Ops, Handlers
<1>2. CASE Crash
  BY <1>2, CrashHInv
<1>3. CASE /\ UNCHANGED <<alive, resolved_hosts, peer, client, remote>>
           /\ \E c \in Conns : getConnection(c) /\ Begin(i, {Accept(c)})
  <2>1. PICK c \in Conns : Begin(i, {Accept(c)})
    BY <1>3
  <2> DEFINE next == Accept(c)
             started == {next}
  <2>2. next \in Ops /\ next.h = "accept" /\ next.s = NoClient
    BY <1>1
  <2>3. Begin(i, started)
    BY <2>1
  <2> HIDE DEF next
  <2>4. started \in SUBSET Ops /\ IsFiniteSet(started)
    BY <2>2, FS_Singleton
  <2> HIDE DEF started
  <2>5. Ongoing' = Others(i) \cup started
    BY <1>0, <2>3, <2>4, BeginKeeps
  <2>6. Ongoing = Others(i) \cup {ready[i].op}
    BY EntryAndOthers
  <2>7. Ongoing \subseteq Ongoing' \cup {ready[i].op}
        /\ Ongoing' \subseteq Ongoing \cup {next}
    BY <2>5, <2>6 DEF started
  <2>8. peer' = peer /\ \A t \in Clients : client[t] \in Live => client'[t] \in Live
    BY <1>3
  <2>9. next.s \notin Clients
    BY <1>0, <2>2
  <2> QED  BY <1>0, <2>2, <2>7, <2>8, <2>9, HInvFrame
<1>4. CASE /\ Succeeded(i)
           /\ peer' = [peer EXCEPT ![Conn(i)] = Session(i)]
           /\ UNCHANGED <<alive, resolved_hosts, client, remote>>
           /\ \E c \in Conns :
                /\ getConnection(c)
                /\ Begin(i, {Op("readAuthMethods", Conn(i), Session(i)),
                             Accept(c)})
  <2>1. PICK c \in Conns :
          Begin(i, {Op("readAuthMethods", Conn(i), Session(i)), Accept(c)})
    BY <1>4
  <2>2. Session(i) \in Clients
    BY <1>0, <1>4 DEF SInv, Greeted
  <2> DEFINE first == Op("readAuthMethods", Conn(i), Session(i))
  <2>3. /\ first \in Ops /\ first.h = "readAuthMethods"
        /\ first.s = Session(i) /\ first.c = Conn(i)
    BY <1>0 DEF Op, OpArg, Ops, Handlers, ClientReads
  <2> HIDE DEF first
  <2>4. Begin(i, {first, Accept(c)})
    BY <2>1 DEF first
  <2> QED  BY <1>0, <1>1, <1>4, <2>2, <2>3, <2>4, SessionStarts
<1> QED
  BY <1>2, <1>3, <1>4 DEF acceptConnection

\* The handlers of the handshake.
LEMMA HandshakeHInv ==
  ASSUME IInv, SInv, HInv, NEW i \in DOMAIN ready,
         \/ readAuthMethods(i) \/ sendServerChoice(i)
         \/ handleConnectionRequest(i) \/ readAddressType(i)
         \/ handleAddress(i) \/ getDomainLength(i) \/ readIPv4Address(i)
         \/ replyWritten(i)
  PROVE  HInv'
<1>1. ready[i].op.h # "accept"
  BY DEF readAuthMethods, sendServerChoice, handleConnectionRequest,
         readAddressType, handleAddress, getDomainLength, readIPv4Address,
         replyWritten, Runs
<1> DEFINE Next1 ==
      {"sendServerChoice", "handleConnectionRequest", "readAddressType",
       "handleAddress", "readIPv4Address", "getDomainLength",
       "getDomainName", "sendServerResponse"}
<1>2. Next1 \subseteq Handlers \ (Loops \cup {"accept"})
  BY DEF Handlers, ClientReads, ClientWrites, Loops, UpLoop, DownLoop
<1>3. ASSUME NEW h \in Next1, NEW a \in {"none", "excess"},
             Proceed(i, {OpArg(h, Conn(i), Session(i), a)})
      PROVE  HInv'
  <2>1. /\ Begin(i, {OpArg(h, Conn(i), Session(i), a)})
        /\ peer' = peer /\ client' = client
    BY <1>3 DEF Proceed
  <2> HIDE DEF Next1
  <2> QED  BY <1>1, <1>2, <1>3, <2>1, GoesOnHandshake
<1>4. ASSUME NEW h \in Next1, Proceed(i, {Op(h, Conn(i), Session(i))})
      PROVE  HInv'
  BY <1>3, <1>4 DEF Op
<1>5. CASE GiveUp(i)
  BY <1>1, <1>5, GivesBack
<1>6. CASE readAuthMethods(i)
  BY <1>3, <1>5, <1>6 DEF readAuthMethods
<1>7. CASE sendServerChoice(i)
  BY <1>4, <1>5, <1>7 DEF sendServerChoice
<1>8. CASE handleConnectionRequest(i)
  BY <1>4, <1>5, <1>8 DEF handleConnectionRequest
<1>9. CASE readAddressType(i)
  BY <1>4, <1>5, <1>9 DEF readAddressType
<1>10. CASE handleAddress(i)
  BY <1>4, <1>5, <1>10 DEF handleAddress
<1>11. CASE getDomainLength(i)
  BY <1>3, <1>5, <1>11 DEF getDomainLength
<1>12. CASE readIPv4Address(i)
  <2>1. CASE /\ peer' = peer /\ client' = client
             /\ Begin(i, {Op("sendServerResponse", Conn(i), Session(i))})
    <3>1. "sendServerResponse" \in Handlers \ (Loops \cup {"accept"})
      BY <1>2
    <3> QED  BY <1>1, <2>1, <3>1, GoesOnHandshake DEF Op
  <2> QED  BY <1>5, <1>12, <2>1 DEF readIPv4Address
<1> QED
  BY <1>5, <1>6, <1>7, <1>8, <1>9, <1>10, <1>11, <1>12 DEF replyWritten

\* A domain name ends the session; its connection closes with the last
\* reference to it.
LEMMA getDomainNameHInv ==
  ASSUME IInv, SInv, HInv, NEW i \in DOMAIN ready, getDomainName(i)
  PROVE  HInv'
<1>1. ready[i].op.h # "accept" /\ ready[i].op.h \notin Loops
  BY DEF getDomainName, Runs, Loops, UpLoop, DownLoop
<1>2. CASE GiveUp(i)
  BY <1>1, <1>2, GivesBack
<1>3. CASE /\ Begin(i, {})
           /\ IF Open(Conn(i)) /\ \A o \in Others(i) : o.c # Conn(i)
              THEN /\ peer' = [peer EXCEPT ![Conn(i)] = NoClient]
                   /\ client' = [client EXCEPT ![peer[Conn(i)]] =
                                               Dropped(peer[Conn(i)])]
              ELSE UNCHANGED <<peer, client>>
  BY <1>1, <1>3, Ends
<1> QED
  BY <1>2, <1>3 DEF getDomainName

\* After the connect the session goes on with its reply.
LEMMA sendServerResponseHInv ==
  ASSUME IInv, SInv, HInv, NEW i \in DOMAIN ready, sendServerResponse(i)
  PROVE  HInv'
<1> DEFINE reply == getConnectionError(ready[i].ec)
<1>1. ready[i].op.h # "accept"
  BY DEF sendServerResponse, Runs
<1>2. reply \in Replies
  BY DEF getConnectionError, Replies
<1>3. {"startDataTransfer", "addConnection"} \subseteq
        Handlers \ (Loops \cup {"accept"})
  BY DEF Handlers, ClientWrites, Loops, UpLoop, DownLoop
<1> HIDE DEF reply
<1>4. CASE Crash
  BY <1>4, CrashHInv
<1>5. ASSUME NEW h \in {"startDataTransfer", "addConnection"},
             Begin(i, {OpArg(h, Conn(i), Session(i), reply)}),
             peer' = peer, client' = client
      PROVE  HInv'
  BY <1>1, <1>2, <1>3, <1>5, GoesOnHandshake
<1>6. CASE Proceed(i, {OpArg("startDataTransfer", Conn(i), Session(i), reply)})
  BY <1>5, <1>6 DEF Proceed
<1>7. CASE /\ UNCHANGED <<alive, pool, pool_size, resolved_hosts, peer, client>>
           /\ Begin(i, {OpArg("addConnection", Conn(i), Session(i), reply)})
  BY <1>5, <1>7
<1> QED
  BY <1>4, <1>6, <1>7 DEF sendServerResponse, reply

\* A handler of the relay goes on in its direction, or in both from the
\* handshake.
LEMMA RelayHInv ==
  ASSUME IInv, SInv, HInv, NEW i \in DOMAIN ready, NEW h, h # "accept",
         NEW a \in Loops, NEW b \in Loops,
         h \in UpLoop \/ b \in DownLoop,
         h \in DownLoop \/ a \in UpLoop,
         NEW next, next = {a, b}, Relay(i, h, next)
  PROVE  HInv'
<1> DEFINE o == Op(a, Conn(i), Session(i))
           p == Op(b, Conn(i), Session(i))
           started == {o, p}
<1>1. ready[i].op.h = h /\ TypeOK
  BY IInvParts DEF Relay, Runs
<1>2. a \in Handlers \ {"accept"} /\ b \in Handlers \ {"accept"}
  BY HandlerNames DEF Loops
<1>3. /\ o \in Ops /\ o.h = a /\ o.s = Session(i) /\ o.c = Conn(i)
      /\ p \in Ops /\ p.h = b /\ p.s = Session(i) /\ p.c = Conn(i)
  BY <1>2, NextOfSession DEF Op
<1>4. {Op(n, Conn(i), Session(i)) : n \in next} = started
  OBVIOUS
<1> HIDE DEF o, p
<1>5. /\ started \in SUBSET Ops /\ IsFiniteSet(started) /\ started # {}
      /\ \A q \in started : /\ q.h # "accept"
                            /\ q.s = Session(i) /\ q.c = Conn(i)
      /\ h \in UpLoop \/ \E q \in started : q.h \in DownLoop
      /\ h \in DownLoop \/ \E q \in started : q.h \in UpLoop
  BY <1>2, <1>3, PairFinite
<1> HIDE DEF started
<1>6. CASE Proceed(i, started)
  <2>1. Begin(i, started) /\ peer' = peer /\ client' = client
    BY <1>6 DEF Proceed
  <2> QED  BY <1>1, <1>5, <2>1, GoesOn
<1>7. CASE HangUp(i)
  BY <1>1, <1>7, GivesBack
<1> QED
  BY <1>4, <1>6, <1>7 DEF Relay

\* The handlers of the relay.
LEMMA RelayingHInv ==
  ASSUME IInv, SInv, HInv, NEW i \in DOMAIN ready,
         \/ startDataTransfer(i) \/ sendDataToServer(i)
         \/ recvDataFromClient(i) \/ sendDataToClient(i)
         \/ recvDataFromServer(i)
  PROVE  HInv'
<1>1. ASSUME NEW h, NEW a,
             \/ h \in UpLoop /\ a \in UpLoop
             \/ h \in DownLoop /\ a \in DownLoop,
             Relay(i, h, {a})
      PROVE  HInv'
  <2>1. h # "accept" /\ a \in Loops
    BY <1>1, HandlerNames DEF Loops
  <2> QED  BY <1>1, <2>1, RelayHInv, {a} = {a, a}
<1>2. CASE startDataTransfer(i)
  BY <1>2, RelayHInv DEF startDataTransfer, Loops, UpLoop, DownLoop
<1>3. CASE sendDataToServer(i)
  BY <1>1, <1>3 DEF sendDataToServer, UpLoop
<1>4. CASE recvDataFromClient(i)
  BY <1>1, <1>4 DEF recvDataFromClient, UpLoop
<1>5. CASE sendDataToClient(i)
  BY <1>1, <1>5 DEF sendDataToClient, DownLoop
<1>6. CASE recvDataFromServer(i)
  BY <1>1, <1>6 DEF recvDataFromServer, DownLoop
<1> QED
  BY <1>2, <1>3, <1>4, <1>5, <1>6

\* The rest of a message is the same operation again.
LEMMA continueTransferHInv ==
  ASSUME IInv, SInv, HInv, NEW i \in DOMAIN ready, continueTransfer(i)
  PROVE  HInv'
<1> DEFINE o == ready[i].op
           started == {o}
<1> SUFFICES ASSUME ~Crash PROVE HInv'
  BY CrashHInv
<1>1. /\ o.h # "accept" /\ Begin(i, started)
      /\ peer' = peer /\ client' = client
  BY DEF continueTransfer, Runs, Composed, ClientReads, ClientWrites,
         RemoteWrites, Proceed
<1>2. TypeOK /\ o \in Ops /\ o.s = Session(i) /\ o.c = Conn(i)
  BY IInvParts, EntryTypes DEF Session, Conn
<1>3. /\ started \in SUBSET Ops /\ IsFiniteSet(started) /\ started # {}
      /\ \A q \in started : /\ q.h # "accept"
                            /\ q.s = Session(i) /\ q.c = Conn(i)
  BY <1>1, <1>2, FS_Singleton
<1>4. \/ \E q \in started : q.h \notin Loops
      \/ /\ o.h \in UpLoop \/ \E q \in started : q.h \in DownLoop
         /\ o.h \in DownLoop \/ \E q \in started : q.h \in UpLoop
  BY DEF Loops
<1> HIDE DEF started
<1> QED
  BY <1>1, <1>2, <1>3, <1>4, GoesOn

\* Every handler preserves the invariant.
LEMMA HandlerHInv ==
  ASSUME IInv, SInv, HInv, NEW i \in DOMAIN ready, Handler(i)
  PROVE  HInv'
BY acceptConnectionHInv, HandshakeHInv, getDomainNameHInv,
   sendServerResponseHInv, RelayingHInv, continueTransferHInv DEF Handler

-----------------------------------------------------------------------------
(***************************************************************************)
(* The network.                                                            *)
(***************************************************************************)

\* Posting the pending operation o, as q, leaves all other operations where
\* they are.
LEMMA PostKeeps ==
  ASSUME TypeOK, NEW o \in pending, NEW q, NEW e,
         pending' = pending \ {o},
         ready' = Append(ready, [op |-> q, ec |-> e])
  PROVE  Ongoing' = (pending \ {o}) \cup {ready[j].op : j \in DOMAIN ready}
                      \cup {q}
<1> DEFINE n == Len(ready) + 1
<1>1. Len(ready) \in Nat /\ DOMAIN ready = 1 .. Len(ready)
  BY LenProperties DEF TypeOK
<1>2. /\ DOMAIN ready' = DOMAIN ready \cup {n} /\ n \notin DOMAIN ready
      /\ \A k \in DOMAIN ready : ready'[k] = ready[k]
      /\ ready'[n] = [op |-> q, ec |-> e]
  BY <1>1 DEF TypeOK
<1> HIDE DEF n
<1>3. \A k \in DOMAIN ready' :
        ready'[k].op \in {ready[j].op : j \in DOMAIN ready} \cup {q}
  BY <1>2
<1>4. \A k \in DOMAIN ready : \E j \in DOMAIN ready' : ready'[j].op = ready[k].op
  BY <1>2
<1>5. \E j \in DOMAIN ready' : ready'[j].op = q
  BY <1>2
<1> QED
  BY <1>3, <1>4, <1>5 DEF Ongoing

\* A step of the network that moves the operations, and closes nothing.
LEMMA NothingClosed ==
  ASSUME TypeOK, HInv, peer' = peer, Ongoing' = Ongoing,
         \A t \in Clients : client[t] \in Live => client'[t] \in Live
  PROVE  HInv'
<1> DEFINE none == Accept(NoClient)
<1>1. none.h = "accept" /\ none.s = NoClient /\ NoClient \notin Clients
  BY ConstantsAssumption DEF Accept, Op, OpArg
<1>2. peer \in [Conns -> Clients \cup {NoClient}]
  BY DEF TypeOK
<1> HIDE DEF none
<1> QED
  BY <1>1, <1>2, HInvFrame

\* The network preserves the invariant.
LEMMA CompleteHInv ==
  ASSUME TypeOK, HInv, NEW o \in pending, Complete(o)
  PROVE  HInv'
<1>1. PICK e : Post(o, e)
  BY DEF Complete
<1>2. Ongoing' = (pending \ {o}) \cup {ready[j].op : j \in DOMAIN ready} \cup {o}
  BY <1>1, PostKeeps DEF Post
<1>3. Ongoing' = Ongoing
  BY <1>2 DEF Ongoing
<1>4. peer' = peer /\ client' = client
  BY DEF Complete
<1> QED
  BY <1>3, <1>4, NothingClosed

LEMMA NetworkHInv ==
  ASSUME TypeOK, HInv, Network
  PROVE  HInv'
<1>1. CASE AcceptFails
  <2>1. PICK o \in pending : Post(o, "err")
    BY <1>1 DEF AcceptFails
  <2>2. Ongoing' = (pending \ {o}) \cup {ready[j].op : j \in DOMAIN ready} \cup {o}
    BY <2>1, PostKeeps DEF Post
  <2>3. Ongoing' = Ongoing
    BY <2>2 DEF Ongoing
  <2>4. peer' = peer /\ client' = client
    BY <1>1 DEF AcceptFails
  <2> QED  BY <2>3, <2>4, NothingClosed
<1>2. ASSUME NEW s \in Clients, AcceptClient(s)
      PROVE  HInv'
  <2>1. PICK o \in pending :
          /\ o.h = "accept"
          /\ pending' = pending \ {o}
          /\ ready' = Append(ready, [op |-> [o EXCEPT !.s = s], ec |-> "ok"])
    BY <1>2 DEF AcceptClient
  <2> DEFINE q == [o EXCEPT !.s = s]
  <2>2. q.h = "accept" /\ q.s = s
    BY <2>1 DEF TypeOK, Ops
  <2>3. ready' = Append(ready, [op |-> q, ec |-> "ok"])
    BY <2>1
  <2> HIDE DEF q
  <2>4. Ongoing' = (pending \ {o}) \cup {ready[j].op : j \in DOMAIN ready} \cup {q}
    BY <2>1, <2>3, PostKeeps
  <2>5. Ongoing \subseteq Ongoing' \cup {o} /\ Ongoing' \subseteq Ongoing \cup {q}
    BY <2>4 DEF Ongoing
  <2>6. /\ client[s] = "backlog" /\ client' = [client EXCEPT ![s] = "up"]
        /\ peer' = peer
    BY <1>2 DEF AcceptClient
  <2>7. /\ \A t \in Clients : client[t] \in Live => client'[t] \in Live
        /\ client'[s] \in Live
        /\ peer \in [Conns -> Clients \cup {NoClient}]
    BY <2>6 DEF TypeOK, Live
  <2>8. \A c \in Conns : peer[c] # s
    BY <2>6, ConstantsAssumption DEF HInv, PeersLive, Live, Open
  <2> QED  BY <2>1, <2>2, <2>5, <2>6, <2>7, <2>8, HInvFrame
<1>3. ASSUME NEW s \in Clients,
             Connect(s) \/ ClientLeaves(s) \/ RemoteLeaves(s)
      PROVE  HInv'
  <2>1. pending' = pending /\ ready' = ready /\ peer' = peer
    BY <1>3 DEF Connect, ClientLeaves, RemoteLeaves
  <2>2. Ongoing' = Ongoing
    BY <2>1 DEF Ongoing
  <2>3. \A t \in Clients : client[t] \in Live => client'[t] \in Live
    BY <1>3 DEF Connect, ClientLeaves, RemoteLeaves, Leaves, Live, TypeOK
  <2> QED  BY <2>1, <2>2, <2>3, NothingClosed
<1> QED
  BY <1>1, <1>2, <1>3 DEF Network

-----------------------------------------------------------------------------
(***************************************************************************)
(* Counting the operations of a session.                                   *)
(***************************************************************************)
PendingOf(s, hs) == {o \in pending : o.s = s /\ o.h \in hs}
PostedOf(s, hs) ==
  {i \in DOMAIN ready : Session(i) = s /\ ready[i].op.h \in hs}

\* The sets that InFlight counts are finite.
LEMMA OfFinite ==
  ASSUME TypeOK, NEW s, NEW hs
  PROVE  /\ IsFiniteSet(PendingOf(s, hs)) /\ IsFiniteSet(PostedOf(s, hs))
         /\ InFlight(s, hs) =
              Cardinality(PendingOf(s, hs)) + Cardinality(PostedOf(s, hs))
<1>1. IsFiniteSet(pending) /\ IsFiniteSet(DOMAIN ready)
  <2>1. Len(ready) \in Nat /\ DOMAIN ready = 1 .. Len(ready)
    BY LenProperties DEF TypeOK
  <2>2. 1 \in Int /\ Len(ready) \in Int
    BY <2>1
  <2> QED  BY <2>1, <2>2, FS_Interval DEF TypeOK
<1>2. PendingOf(s, hs) \in SUBSET pending /\ PostedOf(s, hs) \in SUBSET (DOMAIN ready)
  BY DEF PendingOf, PostedOf
<1>3. InFlight(s, hs) =
        Cardinality(PendingOf(s, hs)) + Cardinality(PostedOf(s, hs))
  BY DEF InFlight, PendingOf, PostedOf
<1> QED
  BY <1>1, <1>2, <1>3, FS_Subset

\* None is none.
LEMMA CountNone ==
  ASSUME TypeOK, NEW s, NEW hs, \A o \in Ongoing : o.s = s => o.h \notin hs
  PROVE  InFlight(s, hs) = 0
<1>1. PendingOf(s, hs) = {} /\ PostedOf(s, hs) = {}
  BY DEF PendingOf, PostedOf, Ongoing, Session
<1> QED
  BY <1>1, OfFinite, FS_EmptySet

\* Operations of which no two may be in flight at a time are one, if any is.
LEMMA CountOne ==
  ASSUME TypeOK, Alone, NEW s \in Clients, NEW hs,
         \A o, p \in Ongoing :
           o.s = s /\ p.s = s /\ o.h \in hs /\ p.h \in hs => ~Apart(o, p),
         \E o \in Ongoing : o.s = s /\ o.h \in hs
  PROVE  InFlight(s, hs) = 1
<1>1. PICK o \in Ongoing : o.s = s /\ o.h \in hs
  OBVIOUS
<1>2. \A p \in Ongoing : p.s = s /\ p.h \in hs => ~Apart(p, o) /\ ~Apart(o, p)
  BY <1>1
<1>3. CASE o \in pending
  <2>1. \A p \in pending : p.s = s /\ p.h \in hs => p = o
    BY <1>2, <1>3 DEF Alone, Ongoing
  <2>2. \A j \in DOMAIN ready : ~(ready[j].op.s = s /\ ready[j].op.h \in hs)
    BY <1>2, <1>3 DEF Alone, Ongoing
  <2>3. PendingOf(s, hs) = {o} /\ PostedOf(s, hs) = {}
    BY <1>1, <1>3, <2>1, <2>2 DEF PendingOf, PostedOf, Session
  <2> QED  BY <2>3, OfFinite, FS_EmptySet, FS_Singleton
<1>4. CASE \E j \in DOMAIN ready : ready[j].op = o
  <2>1. PICK j \in DOMAIN ready : ready[j].op = o
    BY <1>4
  <2>2. \A p \in pending : ~(p.s = s /\ p.h \in hs)
    BY <1>2, <2>1 DEF Alone, Ongoing
  <2>3. \A k \in DOMAIN ready :
          ready[k].op.s = s /\ ready[k].op.h \in hs => k = j
    BY <1>2, <2>1 DEF Alone, Ongoing
  <2>4. PendingOf(s, hs) = {} /\ PostedOf(s, hs) = {j}
    BY <1>1, <2>1, <2>2, <2>3 DEF PendingOf, PostedOf, Session
  <2> QED  BY <2>4, OfFinite, FS_EmptySet, FS_Singleton
<1> QED
  BY <1>1, <1>3, <1>4 DEF Ongoing

\* An operation in flight has a handler.
LEMMA OngoingTypes ==
  ASSUME TypeOK, NEW o \in Ongoing
  PROVE  o \in Ops /\ o.h \in Handlers
<1>1. \A i \in DOMAIN ready : ready[i].op \in Ops
  BY EntryTypes
<1> QED
  BY <1>1 DEF TypeOK, Ongoing, Ops

\* A session that only relays has what its two directions have.
LEMMA CountLoops ==
  ASSUME TypeOK, NEW s, \A o \in Ongoing : o.s = s => o.h \in Loops
  PROVE  InFlight(s, Handlers) = InFlight(s, UpLoop) + InFlight(s, DownLoop)
<1> DEFINE P(hs) == Cardinality(PendingOf(s, hs))
           R(hs) == Cardinality(PostedOf(s, hs))
<1>1. /\ PendingOf(s, Handlers) = PendingOf(s, UpLoop) \cup PendingOf(s, DownLoop)
      /\ PostedOf(s, Handlers) = PostedOf(s, UpLoop) \cup PostedOf(s, DownLoop)
      /\ PendingOf(s, UpLoop) \cap PendingOf(s, DownLoop) = {}
      /\ PostedOf(s, UpLoop) \cap PostedOf(s, DownLoop) = {}
  BY DirectionsDiffer, OngoingTypes, HandlerNames
     DEF PendingOf, PostedOf, Ongoing, Session, Loops
<1>2. ASSUME NEW S, NEW T, IsFiniteSet(S), IsFiniteSet(T), S \cap T = {}
      PROVE  Cardinality(S \cup T) = Cardinality(S) + Cardinality(T)
  <2>1. /\ Cardinality(S \cup T) =
             Cardinality(S) + Cardinality(T) - Cardinality(S \cap T)
        /\ Cardinality(S) \in Nat /\ Cardinality(T) \in Nat
    BY <1>2, FS_Union, FS_CardinalityType
  <2>2. Cardinality(S \cap T) = 0
    BY <1>2, FS_EmptySet
  <2> QED  BY <2>1, <2>2
<1>3. P(Handlers) = P(UpLoop) + P(DownLoop) /\ R(Handlers) = R(UpLoop) + R(DownLoop)
  BY <1>1, <1>2, OfFinite
<1>4. \A hs : /\ P(hs) \in Nat /\ R(hs) \in Nat
              /\ InFlight(s, hs) = P(hs) + R(hs)
  BY OfFinite, FS_CardinalityType
<1> HIDE DEF P, R
<1>5. /\ P(UpLoop) \in Nat /\ R(UpLoop) \in Nat
      /\ P(DownLoop) \in Nat /\ R(DownLoop) \in Nat
      /\ InFlight(s, UpLoop) = P(UpLoop) + R(UpLoop)
      /\ InFlight(s, DownLoop) = P(DownLoop) + R(DownLoop)
      /\ InFlight(s, Handlers) = P(Handlers) + R(Handlers)
  BY <1>4
<1> QED
  BY <1>3, <1>5

\* A session is busy with one operation, or with one in each direction.
LEMMA BusyServed ==
  ASSUME TypeOK, Alone, NEW s \in Clients, Busy(s)
  PROVE  Served(s)
<1>1. \A o, p \in Ongoing :
        o.s = s /\ p.s = s =>
          o = p \/ Apart(o, p)
  BY ApartSymmetric DEF Alone, Ongoing
<1>2. CASE \E o \in Ongoing : o.s = s /\ o.h \notin Loops
  <2>1. PICK o \in Ongoing : o.s = s /\ o.h \notin Loops
    BY <1>2
  <2>2. \A p \in Ongoing : p.s = s => p = o
    BY <1>1, <2>1 DEF Apart, Loops
  <2>3. ~Apart(o, o)
    BY <2>1 DEF Apart, Loops
  <2>4. InFlight(s, Handlers) = 1
    BY <2>1, <2>2, <2>3, OngoingTypes, CountOne
  <2>5. InFlight(s, UpLoop \cup DownLoop) = 0
    BY <2>1, <2>2, CountNone DEF Loops
  <2> QED  BY <2>4, <2>5 DEF Served
<1>3. CASE /\ \A o \in Ongoing : o.s = s => o.h \in Loops
           /\ \E o \in Ongoing : o.s = s /\ o.h \in UpLoop
           /\ \E o \in Ongoing : o.s = s /\ o.h \in DownLoop
  <2>1. InFlight(s, UpLoop) = 1
    BY <1>3, DirectionsDiffer, CountOne DEF Apart
  <2>2. InFlight(s, DownLoop) = 1
    BY <1>3, DirectionsDiffer, CountOne DEF Apart
  <2>3. InFlight(s, Handlers) = InFlight(s, UpLoop) + InFlight(s, DownLoop)
    BY <1>3, CountLoops
  <2> QED  BY <2>1, <2>2, <2>3 DEF Served
<1> QED
  BY <1>2, <1>3 DEF Busy

-----------------------------------------------------------------------------
(***************************************************************************)
(* The theorems.                                                           *)
(***************************************************************************)
LEMMA InitHInv == Init => HInv
<1> SUFFICES ASSUME Init
             PROVE  HInv
  OBVIOUS
<1>1. PICK c \in Conns : pending = {Accept(c)} /\ ready = <<>>
  BY DEF Init
<1>2. /\ Accept(c).h = "accept" /\ Accept(c).s = NoClient
      /\ NoClient \notin Clients
  BY ConstantsAssumption DEF Accept, Op, OpArg
<1>3. Ongoing = {Accept(c)} /\ \A d \in Conns : peer[d] = NoClient
  BY <1>1, EmptySeq DEF Ongoing, Init
<1> HIDE DEF Accept
<1> QED
  BY <1>2, <1>3
     DEF HInv, PeersLive, OnePerClient, AcceptsUnmet, Unmet, OwnConnection,
         Heard, Open

LEMMA NextHInv == IInv /\ SInv /\ HInv /\ [Next]_vars => HInv'
<1> SUFFICES ASSUME IInv, SInv, HInv, [Next]_vars
             PROVE  HInv'
  OBVIOUS
<1>0. TypeOK
  BY IInvParts
<1>1. ASSUME NEW i \in DOMAIN ready, Handler(i)
      PROVE  HInv'
  BY <1>1, HandlerHInv
<1>2. ASSUME NEW o \in pending, Complete(o)
      PROVE  HInv'
  BY <1>0, <1>2, CompleteHInv
<1>3. CASE Network
  BY <1>0, <1>3, NetworkHInv
<1>4. CASE UNCHANGED vars
  <2>1. peer' = peer /\ client' = client /\ Ongoing' = Ongoing
    BY <1>4 DEF vars, Ongoing
  <2> QED  BY <1>0, <2>1, NothingClosed
<1> QED
  BY <1>1, <1>2, <1>3, <1>4 DEF Next

\* The invariant of this module holds in every reachable state.
THEOREM InductiveOwners == Spec => []HInv
<1> QED
  BY InitHInv, NextHInv, Inductive, InductiveReplies, PTL DEF Spec

\* A session whose connection is open has exactly the operations in flight its
\* stage calls for, so that nothing its client sends goes unheard, but for one
\* that has ended with a domain name while an earlier session's operation
\* keeps the connection: its handler will close it.
\* proxy_server.cpp:37-291.
THEOREM EverySessionHeard == Spec => []NoneUnheard
<1>1. ASSUME TypeOK, SInv, HInv
      PROVE  NoneUnheard
  <2> SUFFICES ASSUME NEW c \in Conns, Open(c)
               PROVE  \/ Served(peer[c])
                      \/ /\ InFlight(peer[c], Handlers) = 0
                         /\ \E o \in Ongoing : o.c = c /\ o.h # "accept"
    BY DEF NoneUnheard
  <2>1. peer[c] \in Clients /\ Alone
    BY <1>1 DEF TypeOK, Open, SInv
  <2>2. CASE Busy(peer[c])
    BY <1>1, <2>1, <2>2, BusyServed
  <2>3. CASE LeftOn(c)
    BY <1>1, <2>3, CountNone DEF LeftOn
  <2> QED  BY <1>1, <2>2, <2>3 DEF HInv, Heard
<1> QED
  BY <1>1, TypeCorrect, InductiveReplies, InductiveOwners, PTL

-----------------------------------------------------------------------------
(***************************************************************************)
(* Whose the operations are, first in, first out.                          *)
(*                                                                         *)
(* When handlers run in the queue's order and no remote resets its         *)
(* connection, an operation that outlives its session's connection has     *)
(* been posted before anybody else's can be: it meets its connection       *)
(* closed, or open to a client whose greeting is behind it in the queue.   *)
(***************************************************************************)

\* What the results below rely on.
Ordered == Fifo /\ "reset" \notin Faults

NoRemoteReset == \A s \in Clients : remote[s] # "rst"

\* What waits on a socket is of the client whose connection it uses.
PendingOwned == \A o \in pending : o.h # "accept" => peer[o.c] = o.s

\* An operation whose connection may have been taken from its session: one of
\* the greeting, or one of a relay whose remote socket is closed.
Greeting == {"readAuthMethods", "sendServerChoice"}
Done == {"none", "closed"}
Cut(o, rem) == /\ o.h \in Greeting \cup Loops
               /\ o.h \in Loops => rem[o.s] \in Done

\* o reads the greeting of the client s, from the connection c.
Greets(o, c, s) == o.h = "readAuthMethods" /\ o.c = c /\ o.s = s

\* The greeting of the client s is behind entry i, on the same connection.
GreetingBehind(i, s) ==
  \/ \E o \in pending : Greets(o, Conn(i), s)
  \/ \E j \in DOMAIN ready : j > i /\ Greets(ready[j].op, Conn(i), s)

\* Entry i is ahead of the accept that reopens its connection.
AheadOfAccept(i) ==
  \A j \in DOMAIN ready :
    ready[j].op.h = "accept" /\ Conn(j) = Conn(i) => i < j

\* Entry i is left of a session that has lost its connection: its handler will
\* fail, and close it again, before a next client's greeting is looked at, or
\* it will go on to fail while the connection is still closed.
Leftover(i) ==
  /\ Cut(ready[i].op, remote)
  /\ \/ /\ ready[i].ec = "err"
        /\ peer[Conn(i)] = NoClient \/ GreetingBehind(i, peer[Conn(i)])
     \/ /\ ready[i].op.h # "sendServerChoice"
        /\ peer[Conn(i)] = NoClient /\ AheadOfAccept(i)

EntriesOwned ==
  \A i \in DOMAIN ready :
    ready[i].op.h # "accept" => peer[Conn(i)] = Session(i) \/ Leftover(i)

QInv == NoRemoteReset /\ PendingOwned /\ EntriesOwned

\* Closing a socket detaches the operations that wait on it.
LEMMA Detached ==
  ASSUME NEW o
  PROVE  /\ (o.h \in ClientReads \cup ClientWrites /\ peer'[o.c] = NoClient)
               => ~Attached(o)'
         /\ (o.h \in RemoteReads \cup RemoteWrites /\ remote'[o.s] \in Done)
               => ~Attached(o)'
<1>1. (ClientReads \cup ClientWrites) \cap (RemoteReads \cup RemoteWrites) = {}
  BY DEF ClientReads, ClientWrites, RemoteReads, RemoteWrites
<1>2. CASE o.h \in ClientReads \cup ClientWrites
  <2>1. Attached(o)' = (peer'[o.c] # NoClient)
    BY <1>1, <1>2 DEF Attached, Open
  <2> QED  BY <1>1, <1>2, <2>1
<1>3. CASE o.h \in RemoteReads \cup RemoteWrites
  <2>1. Attached(o)' = (remote'[o.s] \in {"up", "fin", "rst"})
    BY <1>1, <1>3 DEF Attached
  <2>2. Done \cap {"up", "fin", "rst"} = {}
    BY DEF Done
  <2> QED  BY <1>1, <1>3, <2>1, <2>2
<1> QED
  BY <1>2, <1>3

\* The first entry is run, the others move up, and what is aborted follows.
LEMMA FirstOut ==
  ASSUME TypeOK, 1 \in DOMAIN ready,
         NEW started \in SUBSET Ops, IsFiniteSet(started),
         Begin(1, started)
  PROVE  \E m \in Nat :
           /\ \A j \in DOMAIN ready : j \in Nat
           /\ \A k \in DOMAIN ready' : k \in Nat
           /\ \A k \in DOMAIN ready' :
                \/ /\ k <= m /\ k + 1 \in DOMAIN ready \ {1}
                   /\ ready'[k] = ready[k + 1]
                \/ /\ k > m /\ ready'[k].ec = "err"
                   /\ ready'[k].op \in pending \cup started
                   /\ \E o : o = ready'[k].op /\ ~Attached(o)'
           /\ \A j \in DOMAIN ready \ {1} :
                /\ j > 1 /\ j - 1 <= m
                /\ j - 1 \in DOMAIN ready' /\ ready'[j - 1] = ready[j]
           /\ \A o \in pending' : o \in pending \cup started /\ Attached(o)'
           /\ \A o \in (pending \cup started) \ pending' :
                \E k \in DOMAIN ready' : k > m /\ ready'[k].op = o
<1>1. Len(ready) \in Nat /\ DOMAIN ready = 1 .. Len(ready)
  BY LenProperties DEF TypeOK
<1> DEFINE m == Len(ready) - 1
<1>2. m \in Nat
  BY <1>1
<1>3. PICK n \in Nat :
        \E lost \in [1 .. n -> (pending \cup started) \ pending'] :
          LET old(k) == IF k < 1 THEN k ELSE k + 1
          IN /\ DOMAIN ready' = 1 .. m + n
             /\ \A k \in 1 .. m : /\ old(k) \in DOMAIN ready \ {1}
                                  /\ ready'[k] = ready[old(k)]
             /\ \A k \in m + 1 .. m + n :
                  /\ k - m \in 1 .. n
                  /\ ready'[k] = [op |-> lost[k - m], ec |-> "err"]
             /\ \A k \in 1 .. n : ~Attached(lost[k])'
  BY BeginOrigin
<1>4. PICK lost \in [1 .. n -> (pending \cup started) \ pending'] :
        LET old(k) == IF k < 1 THEN k ELSE k + 1
        IN /\ DOMAIN ready' = 1 .. m + n
           /\ \A k \in 1 .. m : /\ old(k) \in DOMAIN ready \ {1}
                                /\ ready'[k] = ready[old(k)]
           /\ \A k \in m + 1 .. m + n :
                /\ k - m \in 1 .. n
                /\ ready'[k] = [op |-> lost[k - m], ec |-> "err"]
           /\ \A k \in 1 .. n : ~Attached(lost[k])'
  BY <1>3
<1>5. \A o \in (pending \cup started) \ pending' :
        \E k \in DOMAIN ready' : k > m /\ ready'[k].op = o
  BY BeginPosts
<1>6. \A o \in pending' : o \in pending \cup started /\ Attached(o)'
  BY BeginPosts, BeginEffect
<1>7. DOMAIN ready' = 1 .. m + n
  BY <1>4
<1>8. ASSUME NEW k \in 1 .. m
      PROVE  k + 1 \in DOMAIN ready \ {1} /\ ready'[k] = ready[k + 1]
  <2>1. ~(k < 1)
    BY <1>2
  <2> QED  BY <1>4, <2>1
<1>9. ASSUME NEW k \in m + 1 .. m + n
      PROVE  /\ ready'[k].ec = "err" /\ ready'[k].op \in pending \cup started
             /\ \E o : o = ready'[k].op /\ ~Attached(o)'
  <2>1. k - m \in 1 .. n /\ ready'[k] = [op |-> lost[k - m], ec |-> "err"]
    BY <1>4
  <2>2. lost[k - m] \in (pending \cup started) \ pending'
    BY <2>1
  <2>3. \A o \in (pending \cup started) \ pending' : ~Attached(o)'
    BY DEF Begin
  <2>4. ready'[k].op = lost[k - m] /\ ready'[k].ec = "err"
    BY <2>1
  <2>5. PICK o \in (pending \cup started) \ pending' :
          ready'[k].op = o /\ ready'[k].ec = "err"
    BY <2>2, <2>4
  <2> QED  BY <2>3, <2>5
<1>10. ASSUME NEW j \in DOMAIN ready \ {1}
       PROVE  /\ j > 1 /\ j - 1 <= m
              /\ j - 1 \in DOMAIN ready' /\ ready'[j - 1] = ready[j]
  <2>1. j - 1 \in 1 .. m /\ (j - 1) + 1 = j /\ j > 1 /\ j - 1 <= m
    BY <1>1
  <2>2. ready'[j - 1] = ready[(j - 1) + 1]
    BY <1>8, <2>1
  <2>3. j - 1 \in 1 .. m + n
    BY <1>2, <2>1
  <2> QED  BY <1>7, <2>1, <2>2, <2>3
<1>11. /\ \A j \in DOMAIN ready : j \in Nat
       /\ \A k \in DOMAIN ready' : k \in Nat
  BY <1>1, <1>2, <1>7
<1>12. \A k \in DOMAIN ready' : IF k <= m THEN k \in 1 .. m
                                           ELSE k > m /\ k \in m + 1 .. m + n
  BY <1>2, <1>7
<1> HIDE DEF m
<1>13. \A k \in DOMAIN ready' :
         \/ /\ k <= m /\ k + 1 \in DOMAIN ready \ {1}
            /\ ready'[k] = ready[k + 1]
         \/ /\ k > m /\ ready'[k].ec = "err"
            /\ ready'[k].op \in pending \cup started
            /\ \E o : o = ready'[k].op /\ ~Attached(o)'
  BY <1>8, <1>9, <1>12
<1> WITNESS m \in Nat
<1> QED
  BY <1>5, <1>6, <1>10, <1>11, <1>13

\* Entry j, whose operation is q, is its session's or left over after a step
\* that starts the operations in started.
StaysOwned(j, q, started) ==
  \/ peer'[q.c] = q.s
  \/ /\ Cut(q, remote')
     /\ \/ /\ ready[j].ec = "err"
           /\ \/ peer'[q.c] = NoClient
              \/ \E o \in pending \cup started : Greets(o, q.c, peer'[q.c])
              \/ \E k \in DOMAIN ready :
                   k > j /\ Greets(ready[k].op, q.c, peer'[q.c])
        \/ /\ q.h # "sendServerChoice"
           /\ peer'[q.c] = NoClient /\ AheadOfAccept(j)

\* The handler of the first entry preserves the invariant when what is pending
\* or begun keeps its owner or is aborted on a closed connection, and when the
\* other entries keep theirs or are left over.
LEMMA FirstOutOwned ==
  ASSUME TypeOK, 1 \in DOMAIN ready,
         NEW started \in SUBSET Ops, IsFiniteSet(started),
         Begin(1, started),
         \A o \in pending \cup started : o.h # "accept" =>
           \/ peer'[o.c] = o.s
           \/ ~Attached(o)' /\ Cut(o, remote') /\ peer'[o.c] = NoClient,
         \A j \in DOMAIN ready \ {1} :
           ready[j].op.h # "accept" => StaysOwned(j, ready[j].op, started)
  PROVE  PendingOwned' /\ EntriesOwned'
<1>1. PICK m \in Nat :
        /\ \A j \in DOMAIN ready : j \in Nat
        /\ \A k \in DOMAIN ready' : k \in Nat
        /\ \A k \in DOMAIN ready' :
             \/ /\ k <= m /\ k + 1 \in DOMAIN ready \ {1}
                /\ ready'[k] = ready[k + 1]
             \/ /\ k > m /\ ready'[k].ec = "err"
                /\ ready'[k].op \in pending \cup started
                /\ \E o : o = ready'[k].op /\ ~Attached(o)'
        /\ \A j \in DOMAIN ready \ {1} :
             /\ j > 1 /\ j - 1 <= m
             /\ j - 1 \in DOMAIN ready' /\ ready'[j - 1] = ready[j]
        /\ \A o \in pending' : o \in pending \cup started /\ Attached(o)'
        /\ \A o \in (pending \cup started) \ pending' :
             \E k \in DOMAIN ready' : k > m /\ ready'[k].op = o
  BY FirstOut
<1>2. PendingOwned'
  BY <1>1 DEF PendingOwned
<1>3. ASSUME NEW k \in DOMAIN ready', ready'[k].op.h # "accept",
             k <= m, k + 1 \in DOMAIN ready \ {1}, ready'[k] = ready[k + 1],
             NEW q, q = ready'[k].op, peer'[q.c] # q.s
      PROVE  /\ Cut(q, remote')
             /\ \/ /\ ready'[k].ec = "err"
                   /\ \/ peer'[q.c] = NoClient
                      \/ \E o \in pending' : Greets(o, q.c, peer'[q.c])
                      \/ \E l \in DOMAIN ready' :
                           l > k /\ Greets(ready'[l].op, q.c, peer'[q.c])
                \/ /\ q.h # "sendServerChoice"
                   /\ peer'[q.c] = NoClient
                   /\ \A l \in DOMAIN ready' :
                        ready'[l].op.h = "accept" /\ ready'[l].op.c = q.c
                          => k < l
  <2> DEFINE j == k + 1
  <2>1. j \in DOMAIN ready \ {1} /\ ready[j].op = q /\ ready[j].ec = ready'[k].ec
        /\ k \in Nat
    BY <1>1, <1>3
  <2>2. /\ Cut(q, remote')
        /\ \/ /\ ready[j].ec = "err"
              /\ \/ peer'[q.c] = NoClient
                 \/ \E o \in pending \cup started : Greets(o, q.c, peer'[q.c])
                 \/ \E l \in DOMAIN ready :
                      l > j /\ Greets(ready[l].op, q.c, peer'[q.c])
           \/ /\ q.h # "sendServerChoice"
              /\ peer'[q.c] = NoClient
              /\ AheadOfAccept(j)
    <3> HIDE DEF j
    <3> QED  BY <1>3, <2>1 DEF StaysOwned
  <2>3. ASSUME NEW o \in pending \cup started, Greets(o, q.c, peer'[q.c])
        PROVE  \/ \E p \in pending' : Greets(p, q.c, peer'[q.c])
               \/ \E l \in DOMAIN ready' :
                    l > k /\ Greets(ready'[l].op, q.c, peer'[q.c])
    <3>1. CASE o \in pending'
      BY <2>3, <3>1
    <3>2. CASE o \notin pending'
      <4>1. PICK l \in DOMAIN ready' : l > m /\ ready'[l].op = o
        BY <1>1, <2>3, <3>2
      <4>2. l > k
        BY <1>1, <1>3, <2>1, <4>1
      <4> QED  BY <2>3, <4>1, <4>2
    <3> QED  BY <3>1, <3>2
  <2>4. ASSUME NEW l \in DOMAIN ready, l > j
        PROVE  /\ l - 1 \in DOMAIN ready' /\ ready'[l - 1] = ready[l]
               /\ l - 1 > k
    <3>1. l \in Nat /\ l # 1
      BY <1>1, <2>1, <2>4
    <3>2. l - 1 > k
      BY <2>1, <2>4, <3>1
    <3> QED  BY <1>1, <3>1, <3>2
  <2>5. ASSUME AheadOfAccept(j), NEW l \in DOMAIN ready',
               ready'[l].op.h = "accept", ready'[l].op.c = q.c
        PROVE  k < l
    <3>1. CASE l > m
      BY <1>1, <1>3, <2>1, <3>1
    <3>2. CASE l + 1 \in DOMAIN ready /\ ready'[l] = ready[l + 1]
      <4>1. j < l + 1
        BY <2>1, <2>5, <3>2 DEF AheadOfAccept, Conn
      <4> QED  BY <1>1, <2>1, <4>1
    <3> QED  BY <1>1, <3>1, <3>2
  <2> HIDE DEF j
  <2> QED  BY <2>1, <2>2, <2>3, <2>4, <2>5
<1>4. ASSUME NEW k \in DOMAIN ready', ready'[k].op.h # "accept",
             ready'[k].ec = "err", ready'[k].op \in pending \cup started,
             NEW q, q = ready'[k].op, peer'[q.c] # q.s
      PROVE  Cut(q, remote') /\ peer'[q.c] = NoClient
  BY <1>4
<1>5. ASSUME NEW k \in DOMAIN ready', ready'[k].op.h # "accept",
             NEW q, q = ready'[k].op, peer'[q.c] # q.s
      PROVE  /\ Cut(q, remote')
             /\ \/ /\ ready'[k].ec = "err"
                   /\ \/ peer'[q.c] = NoClient
                      \/ \E o \in pending' : Greets(o, q.c, peer'[q.c])
                      \/ \E l \in DOMAIN ready' :
                           l > k /\ Greets(ready'[l].op, q.c, peer'[q.c])
                \/ /\ q.h # "sendServerChoice"
                   /\ peer'[q.c] = NoClient
                   /\ \A l \in DOMAIN ready' :
                        ready'[l].op.h = "accept" /\ ready'[l].op.c = q.c
                          => k < l
  BY <1>1, <1>3, <1>4, <1>5
<1>6. EntriesOwned'
  <2> SUFFICES ASSUME NEW k \in DOMAIN ready', ready'[k].op.h # "accept",
                      peer'[ready'[k].op.c] # ready'[k].op.s
               PROVE  /\ Cut(ready'[k].op, remote')
                      /\ \/ /\ ready'[k].ec = "err"
                            /\ \/ peer'[ready'[k].op.c] = NoClient
                               \/ \E o \in pending' :
                                    Greets(o, ready'[k].op.c,
                                           peer'[ready'[k].op.c])
                               \/ \E l \in DOMAIN ready' :
                                    l > k /\ Greets(ready'[l].op,
                                                    ready'[k].op.c,
                                                    peer'[ready'[k].op.c])
                         \/ /\ ready'[k].op.h # "sendServerChoice"
                            /\ peer'[ready'[k].op.c] = NoClient
                            /\ \A l \in DOMAIN ready' :
                                 ready'[l].op.h = "accept"
                                   /\ ready'[l].op.c = ready'[k].op.c => k < l
    BY DEF EntriesOwned, Leftover, Cut, Greets, GreetingBehind, AheadOfAccept,
           Conn, Session
  <2> QED  BY <1>5
<1> QED
  BY <1>2, <1>6

\* What the invariant says of an entry.
LEMMA EntryOwned ==
  ASSUME EntriesOwned, NEW j \in DOMAIN ready, ready[j].op.h # "accept",
         NEW q, q = ready[j].op, peer[q.c] # q.s
  PROVE  /\ Cut(q, remote)
         /\ \/ /\ ready[j].ec = "err"
               /\ \/ peer[q.c] = NoClient
                  \/ \E o \in pending : Greets(o, q.c, peer[q.c])
                  \/ \E k \in DOMAIN ready :
                       k > j /\ Greets(ready[k].op, q.c, peer[q.c])
            \/ /\ q.h # "sendServerChoice"
               /\ peer[q.c] = NoClient /\ AheadOfAccept(j)
BY DEF EntriesOwned, Leftover, GreetingBehind, Conn, Session

\* An entry whose connection and remote socket are left alone.
LEMMA LeftAlone ==
  ASSUME EntriesOwned, NEW j \in DOMAIN ready, ready[j].op.h # "accept",
         NEW q, q = ready[j].op, NEW started,
         peer'[q.c] = peer[q.c],
         q.h \in Loops /\ remote[q.s] \in Done => remote'[q.s] \in Done
  PROVE  StaysOwned(j, q, started)
<1>1. CASE peer[q.c] # q.s
  BY <1>1, EntryOwned DEF StaysOwned, Cut
<1> QED
  BY <1>1 DEF StaysOwned

\* Entry 1 is of a client whose session it serves: its other operations are a
\* relay's.
LEMMA FirstOfSession ==
  ASSUME TypeOK, SInv, 1 \in DOMAIN ready, ready[1].op.h # "accept"
  PROVE  /\ Session(1) \in Clients /\ Conn(1) \in Conns
         /\ ready[1].op.s = Session(1) /\ ready[1].op.c = Conn(1)
         /\ \A o \in pending \cup {ready[j].op : j \in DOMAIN ready \ {1}} :
              o.s = Session(1) => o.h \in Loops /\ ready[1].op.h \in Loops
BY ClientsHandler, EntryTypes, EntryAndOthers DEF Others, Loops

\* A session goes on from an entry that has not failed: what it starts is
\* aborted if its connection has been taken.
LEMMA GoesOnOwned ==
  ASSUME IInv, SInv, QInv, 1 \in DOMAIN ready,
         ready[1].op.h # "accept", ready[1].ec # "err",
         NEW started \in SUBSET Ops, IsFiniteSet(started),
         \A o \in started : /\ o.s = Session(1) /\ o.c = Conn(1)
                            /\ \/ o.h = ready[1].op.h
                               \/ o.h \in Loops /\ ready[1].op.h \in Loops
                               \/ o.h = "sendServerChoice"
                               \/ ready[1].op.h \notin Loops \cup Greeting
                               \/ ready[1].op.h = "sendServerChoice",
         Begin(1, started),
         peer' = peer,
         \A t \in Clients \ {Session(1)} : remote'[t] = remote[t],
         ready[1].op.h \in Loops => remote' = remote
  PROVE  PendingOwned' /\ EntriesOwned'
<1>0. TypeOK /\ NoRemoteReset /\ PendingOwned /\ EntriesOwned
  BY IInvParts DEF QInv
<1>1. /\ Session(1) \in Clients /\ Conn(1) \in Conns
      /\ ready[1].op.s = Session(1) /\ ready[1].op.c = Conn(1)
      /\ \A o \in pending \cup {ready[j].op : j \in DOMAIN ready \ {1}} :
           o.s = Session(1) => o.h \in Loops /\ ready[1].op.h \in Loops
  BY <1>0, FirstOfSession
<1>2. ASSUME peer[Conn(1)] # Session(1), NEW o \in started
      PROVE  /\ ~Attached(o)' /\ Cut(o, remote')
             /\ peer'[o.c] = NoClient
  <2>1. /\ Cut(ready[1].op, remote) /\ peer[Conn(1)] = NoClient
        /\ ready[1].op.h # "sendServerChoice"
    BY <1>0, <1>1, <1>2, EntryOwned
  <2>2. o.h \in Greeting \cup Loops /\ (o.h \in Loops => ready[1].op.h \in Loops)
    BY <2>1 DEF Cut, Greeting, Loops, UpLoop, DownLoop
  <2>3. o.h \in Loops => remote' = remote /\ remote[o.s] \in Done
    BY <1>1, <2>1, <2>2 DEF Cut
  <2>4. o.h \in ClientReads \cup ClientWrites \cup RemoteReads \cup RemoteWrites
        /\ (o.h \notin Loops => o.h \in ClientReads)
    BY <2>2 DEF Greeting, Loops, UpLoop, DownLoop, ClientReads, ClientWrites,
                RemoteReads, RemoteWrites
  <2>5. peer'[o.c] = NoClient
    BY <2>1
  <2>6. ~Attached(o)'
    BY <2>3, <2>4, <2>5, Detached
  <2> QED  BY <2>2, <2>3, <2>5, <2>6 DEF Cut
<1>3. ASSUME NEW o \in pending \cup started, o.h # "accept"
      PROVE  \/ peer'[o.c] = o.s
             \/ ~Attached(o)' /\ Cut(o, remote') /\ peer'[o.c] = NoClient
  BY <1>0, <1>2, <1>3 DEF PendingOwned
<1>4. ASSUME NEW j \in DOMAIN ready \ {1}, ready[j].op.h # "accept"
      PROVE  StaysOwned(j, ready[j].op, started)
  <2>1. ready[j].op.s \in Clients
    BY <1>0, <1>4 DEF SInv, Owned, Ongoing
  <2>2. ready[j].op.h \in Loops => remote'[ready[j].op.s] = remote[ready[j].op.s]
    BY <1>1, <2>1
  <2> QED  BY <1>0, <1>4, <2>2, LeftAlone
<1> QED
  BY <1>0, <1>3, <1>4, FirstOutOwned

\* When the first entry's connection is open to another client, that client's
\* greeting is all it has in flight.
LEMMA OnlyGreeting ==
  ASSUME TypeOK, SInv, QInv, 1 \in DOMAIN ready, ready[1].op.h # "accept",
         Open(Conn(1)), peer[Conn(1)] # Session(1)
  PROVE  /\ \E o \in Ongoing : Greets(o, Conn(1), peer[Conn(1)])
         /\ \A o \in Ongoing :
              o.s = peer[Conn(1)] => o.h = "readAuthMethods"
<1>1. PICK o \in Ongoing : Greets(o, Conn(1), peer[Conn(1)])
  BY EntryOwned DEF QInv, Open, Ongoing, Conn, Session
<1>2. o.s \in Clients /\ o.h = "readAuthMethods" /\ o.h \notin Loops
  BY <1>1, EntryTypes DEF Greets, Open, TypeOK, Loops, UpLoop, DownLoop
<1>3. \A p \in Ongoing : p.s = o.s => p = o \/ Apart(o, p)
  BY ApartSymmetric DEF SInv, Alone, Ongoing
<1>4. \A p \in Ongoing : p.s = o.s => p = o
  BY <1>2, <1>3 DEF Apart, Loops
<1> QED
  BY <1>1, <1>2, <1>4 DEF Greets

\* A session ends: what was left of it on the connection is aborted, posted
\* already, or a greeting that is cut off.
LEMMA EndsOwned ==
  ASSUME IInv, SInv, HInv, QInv, 1 \in DOMAIN ready, ready[1].op.h # "accept",
         Begin(1, {}),
         \/ Open(Conn(1)) /\ peer' = [peer EXCEPT ![Conn(1)] = NoClient]
         \/ peer' = peer
            /\ (ready[1].op.h \in Loops => peer[Conn(1)] # Session(1)),
         \A t \in Clients \ {Session(1)} : remote'[t] = remote[t],
         ready[1].op.h \in Loops => remote'[Session(1)] \in Done
  PROVE  PendingOwned' /\ EntriesOwned'
<1> DEFINE c == Conn(1)
           s == Session(1)
<1>0. TypeOK /\ PendingOwned /\ EntriesOwned /\ alive /\ NoClient \notin Clients
  BY IInvParts, RunsAlive, ConstantsAssumption DEF QInv
<1>1. /\ s \in Clients /\ c \in Conns
      /\ \A o \in pending \cup {ready[j].op : j \in DOMAIN ready \ {1}} :
           o.s = s => o.h \in Loops /\ ready[1].op.h \in Loops
      /\ ready[1].op \in Ongoing /\ ready[1].op.s = s /\ ready[1].op.c = c
  BY <1>0, FirstOfSession DEF Ongoing
<1>2. /\ peer \in [Conns -> Clients \cup {NoClient}]
      /\ \A o \in Ongoing : o \in Ops /\ o.c \in Conns
      /\ \A o \in Ongoing : o.h # "accept" => o.s \in Clients
      /\ pending \subseteq Ongoing
      /\ \A j \in DOMAIN ready : ready[j].op \in Ongoing
  BY <1>0, OngoingTypes DEF TypeOK, Ops, SInv, Owned, Ongoing
<1>3. \A d \in Conns : peer'[d] = peer[d] \/ (d = c /\ Open(c) /\ peer'[d] = NoClient)
  BY <1>1, <1>2
\* Whose operations are on the connection, when it closes.
<1>4. ASSUME Open(c), peer'[c] = NoClient, NEW o \in Ongoing, o.s = peer[c],
             o \in pending \cup {ready[j].op : j \in DOMAIN ready \ {1}}
      PROVE  \/ o.h = "readAuthMethods"
             \/ o.s = s /\ o.h \in Loops /\ remote'[o.s] \in Done
  <2>1. CASE peer[c] = s
    BY <1>1, <1>4, <2>1
  <2>2. CASE peer[c] # s
    <3>1. o.h = "readAuthMethods"
      BY <1>0, <1>4, <2>2, OnlyGreeting
    <3> QED  BY <3>1
  <2> QED  BY <2>1, <2>2
<1>5. ASSUME NEW o \in pending, o.h # "accept"
      PROVE  \/ peer'[o.c] = o.s
             \/ ~Attached(o)' /\ Cut(o, remote') /\ peer'[o.c] = NoClient
  <2>1. peer[o.c] = o.s /\ o \in Ongoing /\ o.c \in Conns
    BY <1>0, <1>2, <1>5 DEF PendingOwned
  <2>2. CASE o.c = c /\ Open(c) /\ peer'[c] = NoClient
    <3>1. \/ o.h = "readAuthMethods"
          \/ o.s = s /\ o.h \in Loops /\ remote'[o.s] \in Done
      BY <1>4, <2>1, <2>2
    <3>2. Cut(o, remote') /\ peer'[o.c] = NoClient
      BY <2>2, <3>1 DEF Cut, Greeting, Loops, UpLoop, DownLoop
    <3>3. o.h = "readAuthMethods" => o.h \in ClientReads
      BY DEF ClientReads
    <3>4. o.h \in Loops => o.h \in ClientReads \cup ClientWrites
                                     \cup RemoteReads \cup RemoteWrites
      BY DEF Loops, UpLoop, DownLoop, ClientReads, ClientWrites, RemoteReads,
             RemoteWrites
    <3> QED  BY <3>1, <3>2, <3>3, <3>4, Detached
  <2> QED  BY <1>3, <2>1, <2>2
<1>6. ASSUME NEW j \in DOMAIN ready \ {1}, NEW q, q = ready[j].op,
             q.h # "accept"
      PROVE  StaysOwned(j, q, {})
  <2>1. q \in Ongoing /\ q.c \in Conns /\ q.s \in Clients
        /\ q \in {ready[k].op : k \in DOMAIN ready \ {1}}
    BY <1>2, <1>6
  <2>2. q.h \in Loops /\ remote[q.s] \in Done => remote'[q.s] \in Done
    BY <1>1, <2>1
  <2>3. CASE peer'[q.c] = peer[q.c]
    BY <1>0, <1>6, <2>2, <2>3, LeftAlone
  <2>4. CASE q.c = c /\ Open(c) /\ peer'[c] = NoClient
    <3>1. AheadOfAccept(j)
      <4>1. \A k \in DOMAIN ready : ready[k].op.h = "accept" => Conn(k) # c
        BY <1>0, <1>2, <2>4, AcceptClosed DEF Conn
      <4> QED  BY <1>6, <2>4, <4>1 DEF AheadOfAccept, Conn
    <3>2. CASE peer[c] = q.s
      <4>1. \/ q.h = "readAuthMethods"
            \/ q.s = s /\ q.h \in Loops /\ remote'[q.s] \in Done
        BY <1>4, <2>1, <2>4, <3>2
      <4>2. Cut(q, remote') /\ q.h # "sendServerChoice"
        BY <4>1 DEF Cut, Greeting, Loops, UpLoop, DownLoop
      <4> QED  BY <2>4, <3>1, <4>2 DEF StaysOwned
    <3>3. CASE peer[c] # q.s
      <4>1. /\ Cut(q, remote)
            /\ ready[j].ec = "err" \/ q.h # "sendServerChoice"
        BY <1>0, <1>6, <2>4, <3>3, EntryOwned
      <4>2. Cut(q, remote')
        BY <2>2, <4>1 DEF Cut
      <4> QED  BY <2>4, <3>1, <4>1, <4>2 DEF StaysOwned
    <3> QED  BY <3>2, <3>3
  <2> QED  BY <1>3, <2>1, <2>3, <2>4
<1> HIDE DEF c, s
<1>7. IsFiniteSet({}) /\ {} \in SUBSET Ops
  BY FS_EmptySet
<1> QED
  BY <1>0, <1>5, <1>6, <1>7, FirstOutOwned

\* The accept's handler starts a session on a connection nothing is left to
\* use but entries that will fail before the client's greeting is looked at;
\* or it starts none.
LEMMA GreetsOwned ==
  ASSUME IInv, SInv, QInv, 1 \in DOMAIN ready, ready[1].op.h = "accept",
         NEW started \in SUBSET Ops, IsFiniteSet(started), Begin(1, started),
         \A o \in started : o.h = "accept" \/ Greets(o, Conn(1), Session(1)),
         \/ peer' = peer /\ \A o \in started : o.h = "accept"
         \/ /\ peer' = [peer EXCEPT ![Conn(1)] = Session(1)]
            /\ \E o \in started : Greets(o, Conn(1), Session(1)),
         remote' = remote
  PROVE  PendingOwned' /\ EntriesOwned'
<1> DEFINE c == Conn(1)
<1>0. /\ TypeOK /\ PendingOwned /\ EntriesOwned /\ NoClient \notin Clients
      /\ c \in Conns /\ ~Open(c)
  BY IInvParts, ConstantsAssumption, EntryTypes, OnlyAccept DEF QInv
<1>1. /\ peer \in [Conns -> Clients \cup {NoClient}]
      /\ \A o \in Ongoing : o \in Ops /\ o.c \in Conns
      /\ \A o \in Ongoing : o.h # "accept" => o.s \in Clients
      /\ pending \subseteq Ongoing
      /\ \A j \in DOMAIN ready : ready[j].op \in Ongoing
  BY <1>0, OngoingTypes DEF TypeOK, Ops, SInv, Owned, Ongoing
<1>2. /\ \A d \in Conns \ {c} : peer'[d] = peer[d]
      /\ \/ peer'[c] = NoClient /\ \A o \in started : o.h = "accept"
         \/ /\ peer'[c] = Session(1)
            /\ \E o \in started : Greets(o, c, peer'[c])
  BY <1>0, <1>1 DEF Open
<1>3. ASSUME NEW o \in pending \cup started, o.h # "accept"
      PROVE  peer'[o.c] = o.s
  <2>1. CASE o \in pending
    <3>1. o.c # c /\ peer[o.c] = o.s /\ o.c \in Conns
      BY <1>0, <1>1, <1>3, <2>1 DEF PendingOwned, Open
    <3> QED  BY <1>2, <3>1
  <2>2. CASE o \in started
    BY <1>2, <1>3, <2>2 DEF Greets
  <2> QED  BY <2>1, <2>2
<1>4. ASSUME NEW j \in DOMAIN ready \ {1}, NEW q, q = ready[j].op,
             q.h # "accept"
      PROVE  StaysOwned(j, q, started)
  <2>1. q.c \in Conns /\ q.s \in Clients
    BY <1>1, <1>4
  <2>2. CASE peer'[q.c] = peer[q.c]
    BY <1>0, <1>4, <2>2, LeftAlone
  <2>3. CASE q.c = c /\ peer'[c] # NoClient
    <3>1. /\ Cut(q, remote)
          /\ ready[j].ec = "err" \/ AheadOfAccept(j)
      BY <1>0, <1>4, <2>1, <2>3, EntryOwned DEF Open
    <3>2. ~AheadOfAccept(j)
      <4>1. ready[1].op.h = "accept" /\ Conn(1) = Conn(j)
        BY <1>4, <2>3 DEF Conn
      <4>2. j \in Nat /\ j >= 1
        BY <1>0, LenProperties DEF TypeOK
      <4> QED  BY <4>1, <4>2 DEF AheadOfAccept
    <3>3. \E o \in started : Greets(o, q.c, peer'[q.c])
      BY <1>2, <2>3
    <3> QED  BY <3>1, <3>2, <3>3 DEF StaysOwned
  <2>4. peer'[q.c] = peer[q.c] \/ (q.c = c /\ peer'[c] # NoClient)
    BY <1>0, <1>2, <2>1 DEF Open
  <2> QED  BY <2>2, <2>3, <2>4
<1> HIDE DEF c
<1> QED
  BY <1>0, <1>3, <1>4, FirstOutOwned

\* A session that gives its connection back.
LEMMA GivesBackQInv ==
  ASSUME IInv, SInv, HInv, QInv, 1 \in DOMAIN ready,
         ready[1].op.h # "accept",
         \/ GiveUp(1) /\ ready[1].op.h \notin Loops
         \/ HangUp(1)
  PROVE  QInv'
<1>0. TypeOK /\ NoRemoteReset /\ NoClient \notin Clients
  BY IInvParts, ConstantsAssumption DEF QInv
<1>1. addConnection(Conn(1)) /\ Begin(1, {})
  BY DEF GiveUp, HangUp
<1>2. Session(1) \in Clients
  BY <1>0, FirstOfSession
<1>3. \/ remote' = remote /\ ready[1].op.h \notin Loops
      \/ \E x \in Done : remote' = [remote EXCEPT ![Session(1)] = x]
  <2>1. CASE HangUp(1)
    <3>1. PICK held \in BOOLEAN :
            remote' = [remote EXCEPT ![Session(1)] =
                         IF ~held THEN "none"
                         ELSE IF remote[Session(1)] = "rst"
                              THEN remote[Session(1)] ELSE "closed"]
      BY <2>1 DEF HangUp, closeRemote
    <3>2. remote[Session(1)] # "rst"
      BY <1>0, <1>2 DEF NoRemoteReset
    <3> QED  BY <3>1, <3>2 DEF Done
  <2> QED  BY <2>1 DEF GiveUp
<1>4. /\ NoRemoteReset'
      /\ \A t \in Clients \ {Session(1)} : remote'[t] = remote[t]
      /\ ready[1].op.h \in Loops => remote'[Session(1)] \in Done
  BY <1>0, <1>2, <1>3 DEF NoRemoteReset, TypeOK, Done
<1>5. \/ Open(Conn(1)) /\ peer' = [peer EXCEPT ![Conn(1)] = NoClient]
      \/ peer' = peer /\ peer[Conn(1)] # Session(1)
  BY <1>0, <1>1, <1>2 DEF addConnection, Open
<1> QED
  BY <1>1, <1>4, <1>5, EndsOwned DEF QInv

\* A session that goes on with its handshake.
LEMMA HandshakeGoesOn ==
  ASSUME IInv, SInv, QInv, 1 \in DOMAIN ready, ready[1].ec # "err",
         ready[1].op.h \notin Loops \cup {"accept"},
         NEW h \in Handlers, NEW a \in Replies \cup {"none", "excess"},
         ready[1].op.h = "readAuthMethods" => h = "sendServerChoice",
         Begin(1, {OpArg(h, Conn(1), Session(1), a)}),
         peer' = peer,
         \/ remote' = remote
         \/ \E x \in {"none", "connecting"} :
              remote' = [remote EXCEPT ![Session(1)] = x]
  PROVE  QInv'
<1> DEFINE o == OpArg(h, Conn(1), Session(1), a)
           started == {o}
<1>1. o \in Ops /\ o.h = h /\ o.c = Conn(1) /\ o.s = Session(1)
  BY NextOfSession
<1>2. TypeOK /\ Begin(1, started) /\ NoRemoteReset
  BY IInvParts DEF QInv
<1> HIDE DEF o
<1>3. started \in SUBSET Ops /\ IsFiniteSet(started)
  BY <1>1, FS_Singleton
<1>4. \A p \in started : /\ p.s = Session(1) /\ p.c = Conn(1)
                         /\ \/ p.h = "sendServerChoice"
                            \/ ready[1].op.h \notin Loops \cup Greeting
                            \/ ready[1].op.h = "sendServerChoice"
  BY <1>1 DEF Greeting
<1>5. /\ NoRemoteReset'
      /\ \A t \in Clients \ {Session(1)} : remote'[t] = remote[t]
  BY <1>2 DEF TypeOK, NoRemoteReset
<1> HIDE DEF started
<1>6. PendingOwned' /\ EntriesOwned'
  BY <1>2, <1>3, <1>4, <1>5, GoesOnOwned
<1> QED
  BY <1>5, <1>6 DEF QInv

\* When the process ends nothing is in flight.
LEMMA CrashQInv ==
  ASSUME Crash
  PROVE  QInv'
<1>1. /\ pending' = {} /\ ready' = <<>>
      /\ \A s \in Clients : remote'[s] = "none"
  BY DEF Crash
<1>2. DOMAIN ready' = {}
  BY <1>1, EmptySeq
<1> QED
  BY <1>1, <1>2 DEF QInv, NoRemoteReset, PendingOwned, EntriesOwned

\* The accept's handler.
LEMMA acceptConnectionQInv ==
  ASSUME IInv, SInv, QInv, 1 \in DOMAIN ready, acceptConnection(1)
  PROVE  QInv'
<1>0. /\ ready[1].op.h = "accept" /\ TypeOK /\ NoRemoteReset
      /\ Conn(1) \in Conns /\ Session(1) \in Clients \cup {NoClient}
  BY IInvParts, EntryTypes DEF acceptConnection, Runs, QInv
<1>1. ASSUME NEW c \in Conns
      PROVE  Accept(c) \in Ops /\ Accept(c).h = "accept"
  BY DEF Accept, Op, OpArg, Ops, Handlers
<1>2. CASE Crash
  BY <1>2, CrashQInv
<1>3. CASE /\ UNCHANGED <<alive, resolved_hosts, peer, client, remote>>
           /\ \E c \in Conns : getConnection(c) /\ Begin(1, {Accept(c)})
  <2>1. PICK c \in Conns : Begin(1, {Accept(c)})
    BY <1>3
  <2> DEFINE started == {Accept(c)}
  <2>2. /\ started \in SUBSET Ops /\ IsFiniteSet(started)
        /\ \A o \in started : o.h = "accept"
    BY <1>1, FS_Singleton
  <2>3. Begin(1, started)
    BY <2>1
  <2> HIDE DEF started
  <2>4. PendingOwned' /\ EntriesOwned'
    BY <1>0, <1>3, <2>2, <2>3, GreetsOwned
  <2> QED  BY <1>0, <1>3, <2>4 DEF QInv, NoRemoteReset
<1>4. CASE /\ Succeeded(1)
           /\ peer' = [peer EXCEPT ![Conn(1)] = Session(1)]
           /\ UNCHANGED <<alive, resolved_hosts, client, remote>>
           /\ \E c \in Conns :
                /\ getConnection(c)
                /\ Begin(1, {Op("readAuthMethods", Conn(1), Session(1)),
                             Accept(c)})
  <2>1. PICK c \in Conns :
          Begin(1, {Op("readAuthMethods", Conn(1), Session(1)), Accept(c)})
    BY <1>4
  <2> DEFINE first == Op("readAuthMethods", Conn(1), Session(1))
             started == {first, Accept(c)}
  <2>2. first \in Ops /\ Greets(first, Conn(1), Session(1))
    BY <1>0 DEF Op, OpArg, Ops, Handlers, ClientReads, Greets
  <2>3. Begin(1, started)
    BY <2>1
  <2> HIDE DEF first
  <2>4. started \in SUBSET Ops /\ IsFiniteSet(started)
    BY <1>1, <2>2, PairFinite
  <2>5. /\ \A o \in started : o.h = "accept" \/ Greets(o, Conn(1), Session(1))
        /\ \E o \in started : Greets(o, Conn(1), Session(1))
    BY <1>1, <2>2
  <2> HIDE DEF started
  <2>6. PendingOwned' /\ EntriesOwned'
    BY <1>0, <1>4, <2>3, <2>4, <2>5, GreetsOwned
  <2> QED  BY <1>0, <1>4, <2>6 DEF QInv, NoRemoteReset
<1> QED
  BY <1>2, <1>3, <1>4 DEF acceptConnection

\* The handlers of the handshake.
LEMMA HandshakeQInv ==
  ASSUME IInv, SInv, HInv, QInv, 1 \in DOMAIN ready,
         \/ readAuthMethods(1) \/ sendServerChoice(1)
         \/ handleConnectionRequest(1) \/ readAddressType(1)
         \/ handleAddress(1) \/ getDomainLength(1) \/ readIPv4Address(1)
         \/ replyWritten(1)
  PROVE  QInv'
<1>1. ready[1].op.h \notin Loops \cup {"accept"}
  BY DEF readAuthMethods, sendServerChoice, handleConnectionRequest,
         readAddressType, handleAddress, getDomainLength, readIPv4Address,
         replyWritten, Runs, Loops, UpLoop, DownLoop
<1>2. {"sendServerChoice", "handleConnectionRequest", "readAddressType",
       "handleAddress", "readIPv4Address", "getDomainLength",
       "getDomainName", "sendServerResponse"} \subseteq Handlers
  BY DEF Handlers, ClientReads, ClientWrites
<1>3. ASSUME NEW h \in Handlers, NEW a \in {"none", "excess"}, Succeeded(1),
             ready[1].op.h = "readAuthMethods" => h = "sendServerChoice",
             Proceed(1, {OpArg(h, Conn(1), Session(1), a)})
      PROVE  QInv'
  <2>1. /\ Begin(1, {OpArg(h, Conn(1), Session(1), a)})
        /\ peer' = peer /\ remote' = remote /\ ready[1].ec # "err"
    BY <1>3 DEF Proceed, Succeeded
  <2> QED  BY <1>1, <1>3, <2>1, HandshakeGoesOn
<1>4. ASSUME NEW h \in Handlers, Succeeded(1),
             ready[1].op.h # "readAuthMethods",
             Proceed(1, {Op(h, Conn(1), Session(1))})
      PROVE  QInv'
  BY <1>3, <1>4 DEF Op
<1>5. CASE GiveUp(1)
  BY <1>1, <1>5, GivesBackQInv
<1>6. CASE readAuthMethods(1)
  BY <1>2, <1>3, <1>5, <1>6 DEF readAuthMethods
<1>7. CASE sendServerChoice(1)
  BY <1>2, <1>4, <1>5, <1>7 DEF sendServerChoice, Runs
<1>8. CASE handleConnectionRequest(1)
  BY <1>2, <1>4, <1>5, <1>8 DEF handleConnectionRequest, Runs
<1>9. CASE readAddressType(1)
  BY <1>2, <1>4, <1>5, <1>9 DEF readAddressType, Runs
<1>10. CASE handleAddress(1)
  BY <1>2, <1>4, <1>5, <1>10 DEF handleAddress, Runs
<1>11. CASE getDomainLength(1)
  <2>1. ready[1].op.h # "readAuthMethods"
    BY <1>11 DEF getDomainLength, Runs
  <2> QED  BY <1>2, <1>3, <1>5, <1>11, <2>1 DEF getDomainLength
<1>12. CASE readIPv4Address(1)
  <2>1. ready[1].op.h # "readAuthMethods"
    BY <1>12 DEF readIPv4Address, Runs
  <2>2. CASE /\ Succeeded(1) /\ peer' = peer
             /\ remote' = [remote EXCEPT ![Session(1)] = "connecting"]
             /\ Begin(1, {Op("sendServerResponse", Conn(1), Session(1))})
    <3>1. ready[1].ec # "err" /\ "sendServerResponse" \in Handlers
      BY <1>2, <2>2 DEF Succeeded
    <3> QED  BY <1>1, <2>1, <2>2, <3>1, HandshakeGoesOn DEF Op
  <2> QED  BY <1>5, <1>12, <2>2 DEF readIPv4Address
<1> QED
  BY <1>5, <1>6, <1>7, <1>8, <1>9, <1>10, <1>11, <1>12 DEF replyWritten

\* A session that ends with a domain name.
LEMMA getDomainNameQInv ==
  ASSUME IInv, SInv, HInv, QInv, 1 \in DOMAIN ready, getDomainName(1)
  PROVE  QInv'
<1>1. ready[1].op.h # "accept" /\ ready[1].op.h \notin Loops
  BY DEF getDomainName, Runs, Loops, UpLoop, DownLoop
<1>2. CASE GiveUp(1)
  BY <1>1, <1>2, GivesBackQInv
<1>3. CASE /\ Begin(1, {}) /\ remote' = remote
           /\ IF Open(Conn(1)) /\ \A o \in Others(1) : o.c # Conn(1)
              THEN /\ peer' = [peer EXCEPT ![Conn(1)] = NoClient]
                   /\ client' = [client EXCEPT ![peer[Conn(1)]] =
                                               Dropped(peer[Conn(1)])]
              ELSE UNCHANGED <<peer, client>>
  <2>1. \/ Open(Conn(1)) /\ peer' = [peer EXCEPT ![Conn(1)] = NoClient]
        \/ peer' = peer
    BY <1>3
  <2>2. PendingOwned' /\ EntriesOwned'
    BY <1>1, <1>3, <2>1, EndsOwned
  <2> QED  BY <1>3, <2>2 DEF QInv, NoRemoteReset
<1> QED
  BY <1>2, <1>3 DEF getDomainName

\* After the connect the session goes on with its reply.
LEMMA sendServerResponseQInv ==
  ASSUME IInv, SInv, QInv, 1 \in DOMAIN ready, sendServerResponse(1)
  PROVE  QInv'
<1> DEFINE reply == getConnectionError(ready[1].ec)
<1>1. /\ ready[1].op.h = "sendServerResponse"
      /\ ready[1].op.h \notin Loops \cup {"accept"}
  BY DEF sendServerResponse, Runs, Loops, UpLoop, DownLoop
<1>2. reply \in Replies
  BY DEF getConnectionError, Replies
<1>3. {"startDataTransfer", "addConnection"} \subseteq Handlers
  BY DEF Handlers, ClientWrites
<1>4. ready[1].ec # "err"
  <2>1. ready[1].ec \in {"ok"} \cup ConnectErrors
    BY <1>1 DEF SInv, Answered
  <2> QED  BY <2>1, ConstantsAssumption DEF AllConnectErrors
<1> HIDE DEF reply
<1>5. CASE Crash
  BY <1>5, CrashQInv
<1>6. CASE Proceed(1, {OpArg("startDataTransfer", Conn(1), Session(1), reply)})
  <2>1. /\ Begin(1, {OpArg("startDataTransfer", Conn(1), Session(1), reply)})
        /\ peer' = peer /\ remote' = remote
    BY <1>6 DEF Proceed
  <2> QED  BY <1>1, <1>2, <1>3, <1>4, <2>1, HandshakeGoesOn
<1>7. CASE /\ remote' = [remote EXCEPT ![Session(1)] = "none"]
           /\ peer' = peer
           /\ Begin(1, {OpArg("addConnection", Conn(1), Session(1), reply)})
  BY <1>1, <1>2, <1>3, <1>4, <1>7, HandshakeGoesOn
<1> QED
  BY <1>5, <1>6, <1>7 DEF sendServerResponse, reply

\* A handler of the relay goes on in its direction; the last one of the
\* handshake starts both.
LEMMA RelayQInv ==
  ASSUME IInv, SInv, HInv, QInv, 1 \in DOMAIN ready,
         NEW h \in Loops \cup {"startDataTransfer"},
         NEW a \in Loops, NEW b \in Loops,
         NEW next, next = {a, b}, ready[1].op.h = h, Relay(1, h, next)
  PROVE  QInv'
<1> DEFINE o == Op(a, Conn(1), Session(1))
           p == Op(b, Conn(1), Session(1))
           started == {o, p}
<1>1. /\ ready[1].op.h # "accept" /\ TypeOK
      /\ h \in Loops \/ ready[1].op.h \notin Loops \cup Greeting
  BY IInvParts, HandlerNames DEF Loops, Greeting
<1>2. a \in Handlers \ {"accept"} /\ b \in Handlers \ {"accept"}
  BY HandlerNames DEF Loops
<1>3. /\ o \in Ops /\ o.h = a /\ o.s = Session(1) /\ o.c = Conn(1)
      /\ p \in Ops /\ p.h = b /\ p.s = Session(1) /\ p.c = Conn(1)
  BY <1>1, <1>2, NextOfSession DEF Op
<1>4. {Op(n, Conn(1), Session(1)) : n \in next} = started
  OBVIOUS
<1> HIDE DEF o, p
<1>5. /\ started \in SUBSET Ops /\ IsFiniteSet(started)
      /\ \A q \in started : /\ q.s = Session(1) /\ q.c = Conn(1)
                            /\ q.h \in Loops
  BY <1>3, PairFinite
<1> HIDE DEF started
<1>6. CASE Succeeded(1) /\ Proceed(1, started)
  <2>1. /\ Begin(1, started) /\ peer' = peer /\ remote' = remote
        /\ ready[1].ec # "err"
    BY <1>6 DEF Proceed, Succeeded
  <2>2. PendingOwned' /\ EntriesOwned'
    BY <1>1, <1>5, <2>1, GoesOnOwned
  <2> QED  BY <2>1, <2>2 DEF QInv, NoRemoteReset
<1>7. CASE HangUp(1)
  BY <1>1, <1>7, GivesBackQInv
<1> QED
  BY <1>4, <1>6, <1>7 DEF Relay

\* The handlers of the relay.
LEMMA RelayingQInv ==
  ASSUME IInv, SInv, HInv, QInv, 1 \in DOMAIN ready,
         \/ startDataTransfer(1) \/ sendDataToServer(1)
         \/ recvDataFromClient(1) \/ sendDataToClient(1)
         \/ recvDataFromServer(1)
  PROVE  QInv'
<1>1. ASSUME NEW h \in Loops, NEW a \in Loops, Relay(1, h, {a})
      PROVE  QInv'
  <2>1. ready[1].op.h = h
    BY <1>1 DEF Relay, Runs
  <2> QED  BY <1>1, <2>1, RelayQInv, {a} = {a, a}
<1>2. CASE startDataTransfer(1)
  <2>1. ready[1].op.h = "startDataTransfer"
    BY <1>2 DEF startDataTransfer, Relay, Runs
  <2> QED  BY <1>2, <2>1, RelayQInv DEF startDataTransfer, Loops, UpLoop, DownLoop
<1>3. CASE sendDataToServer(1)
  BY <1>1, <1>3 DEF sendDataToServer, Loops, UpLoop
<1>4. CASE recvDataFromClient(1)
  BY <1>1, <1>4 DEF recvDataFromClient, Loops, UpLoop
<1>5. CASE sendDataToClient(1)
  BY <1>1, <1>5 DEF sendDataToClient, Loops, DownLoop
<1>6. CASE recvDataFromServer(1)
  BY <1>1, <1>6 DEF recvDataFromServer, Loops, DownLoop
<1> QED
  BY <1>2, <1>3, <1>4, <1>5, <1>6

\* The rest of a message is the same operation again.
LEMMA continueTransferQInv ==
  ASSUME IInv, SInv, QInv, 1 \in DOMAIN ready, continueTransfer(1)
  PROVE  QInv'
<1> DEFINE o == ready[1].op
           started == {o}
<1> SUFFICES ASSUME ~Crash PROVE QInv'
  BY CrashQInv
<1>1. /\ o.h # "accept" /\ Begin(1, started) /\ ready[1].ec # "err"
      /\ peer' = peer /\ remote' = remote
  BY DEF continueTransfer, Runs, Composed, ClientReads, ClientWrites,
         RemoteWrites, Proceed
<1>2. TypeOK /\ o \in Ops /\ o.s = Session(1) /\ o.c = Conn(1)
  BY IInvParts, EntryTypes DEF Session, Conn
<1>3. /\ started \in SUBSET Ops /\ IsFiniteSet(started)
      /\ \A q \in started : /\ q.s = Session(1) /\ q.c = Conn(1)
                            /\ q.h = o.h
  BY <1>2, FS_Singleton
<1> HIDE DEF started
<1>4. PendingOwned' /\ EntriesOwned'
  BY <1>1, <1>3, GoesOnOwned
<1> QED
  BY <1>1, <1>4 DEF QInv, NoRemoteReset

\* When the queue is first in, first out, a handler runs on the first entry.
LEMMA HandlerFirst ==
  ASSUME Fifo, NEW i \in DOMAIN ready, Handler(i)
  PROVE  i = 1
BY DEF Handler, acceptConnection, readAuthMethods, sendServerChoice,
       handleConnectionRequest, readAddressType, handleAddress,
       readIPv4Address, getDomainLength, getDomainName, sendServerResponse,
       replyWritten, startDataTransfer, sendDataToServer,
       recvDataFromClient, sendDataToClient, recvDataFromServer,
       continueTransfer, Relay, Runs, Runnable

\* Every handler preserves the invariant.
LEMMA HandlerQInv ==
  ASSUME Ordered, IInv, SInv, HInv, QInv, NEW i \in DOMAIN ready, Handler(i)
  PROVE  QInv'
<1>1. i = 1
  BY HandlerFirst DEF Ordered
<1> QED
  BY <1>1, acceptConnectionQInv, HandshakeQInv, getDomainNameQInv,
     sendServerResponseQInv, RelayingQInv, continueTransferQInv DEF Handler

\* What is posted goes to the end of the queue: an entry that is left over is
\* ahead of it still, be it an accept or a greeting.
LEMMA PostQInv ==
  ASSUME TypeOK, QInv, NEW o \in pending, NEW q, q.h = o.h, q.c = o.c,
         q = o \/ o.h = "accept", NEW e,
         pending' = pending \ {o},
         ready' = Append(ready, [op |-> q, ec |-> e]),
         peer' = peer, NoRemoteReset',
         \A j \in DOMAIN ready : ready[j].op.h \in Loops =>
           remote'[ready[j].op.s] = remote[ready[j].op.s]
  PROVE  QInv'
<1> DEFINE n == Len(ready) + 1
<1>1. /\ DOMAIN ready' = DOMAIN ready \cup {n} /\ n \notin DOMAIN ready
      /\ \A k \in DOMAIN ready : ready'[k] = ready[k] /\ k < n
      /\ ready'[n].op = q
  <2>1. Len(ready) \in Nat /\ DOMAIN ready = 1 .. Len(ready)
    BY LenProperties DEF TypeOK
  <2> QED  BY <2>1 DEF TypeOK
<1> HIDE DEF n
<1>2. PendingOwned /\ EntriesOwned
  BY DEF QInv
<1>3. PendingOwned'
  BY <1>2 DEF PendingOwned
<1>4. q.h # "accept" => peer[q.c] = q.s
  BY <1>2 DEF PendingOwned
<1>5. ASSUME NEW k \in DOMAIN ready, ready[k].op.h # "accept",
             NEW r, r = ready[k].op, peer[r.c] # r.s
      PROVE  /\ Cut(r, remote')
             /\ \/ /\ ready'[k].ec = "err"
                   /\ \/ peer'[r.c] = NoClient
                      \/ \E p \in pending' : Greets(p, r.c, peer'[r.c])
                      \/ \E l \in DOMAIN ready' :
                           l > k /\ Greets(ready'[l].op, r.c, peer'[r.c])
                \/ /\ r.h # "sendServerChoice"
                   /\ peer'[r.c] = NoClient
                   /\ \A l \in DOMAIN ready' :
                        ready'[l].op.h = "accept" /\ ready'[l].op.c = r.c
                          => k < l
  <2>1. /\ Cut(r, remote)
        /\ \/ /\ ready[k].ec = "err"
              /\ \/ peer[r.c] = NoClient
                 \/ \E p \in pending : Greets(p, r.c, peer[r.c])
                 \/ \E l \in DOMAIN ready :
                      l > k /\ Greets(ready[l].op, r.c, peer[r.c])
           \/ /\ r.h # "sendServerChoice"
              /\ peer[r.c] = NoClient /\ AheadOfAccept(k)
    BY <1>2, <1>5, EntryOwned
  <2>2. Cut(r, remote')
    BY <1>5, <2>1 DEF Cut
  <2>3. ASSUME NEW p \in pending, Greets(p, r.c, peer[r.c])
        PROVE  \/ \E x \in pending' : Greets(x, r.c, peer'[r.c])
               \/ \E l \in DOMAIN ready' :
                    l > k /\ Greets(ready'[l].op, r.c, peer'[r.c])
    <3>1. CASE p = o
      <4>1. o.h # "accept"
        BY <2>3, <3>1 DEF Greets
      <4>2. Greets(ready'[n].op, r.c, peer'[r.c]) /\ n \in DOMAIN ready' /\ n > k
        BY <1>1, <2>3, <3>1, <4>1
      <4> QED  BY <4>2
    <3>2. CASE p # o
      BY <2>3, <3>2
    <3> QED  BY <3>1, <3>2
  <2>4. ASSUME NEW l \in DOMAIN ready
        PROVE  l \in DOMAIN ready' /\ ready'[l] = ready[l]
    BY <1>1
  <2>5. ASSUME AheadOfAccept(k), NEW l \in DOMAIN ready',
               ready'[l].op.h = "accept", ready'[l].op.c = r.c
        PROVE  k < l
    BY <1>1, <1>5, <2>5 DEF AheadOfAccept, Conn
  <2> QED  BY <1>1, <2>1, <2>2, <2>3, <2>4, <2>5
<1>6. ASSUME NEW k \in DOMAIN ready', ready'[k].op.h # "accept",
             NEW r, r = ready'[k].op, peer'[r.c] # r.s
      PROVE  /\ Cut(r, remote')
             /\ \/ /\ ready'[k].ec = "err"
                   /\ \/ peer'[r.c] = NoClient
                      \/ \E p \in pending' : Greets(p, r.c, peer'[r.c])
                      \/ \E l \in DOMAIN ready' :
                           l > k /\ Greets(ready'[l].op, r.c, peer'[r.c])
                \/ /\ r.h # "sendServerChoice"
                   /\ peer'[r.c] = NoClient
                   /\ \A l \in DOMAIN ready' :
                        ready'[l].op.h = "accept" /\ ready'[l].op.c = r.c
                          => k < l
  <2>1. k \in DOMAIN ready /\ ready'[k] = ready[k]
    BY <1>1, <1>4, <1>6
  <2> QED  BY <1>5, <1>6, <2>1
<1>7. EntriesOwned'
  <2> SUFFICES ASSUME NEW k \in DOMAIN ready', ready'[k].op.h # "accept",
                      peer'[ready'[k].op.c] # ready'[k].op.s
               PROVE  Leftover(k)'
    BY DEF EntriesOwned, Conn, Session
  <2> QED
    BY <1>6 DEF Leftover, GreetingBehind, AheadOfAccept, Conn
<1> QED
  BY <1>3, <1>7 DEF QInv

\* The reactor completes an operation.
LEMMA CompleteQInv ==
  ASSUME TypeOK, SInv, QInv, NEW o \in pending, Complete(o)
  PROVE  QInv'
<1>1. PICK e :
        /\ Post(o, e)
        /\ remote' = IF o.h = "sendServerResponse"
                     THEN [remote EXCEPT ![o.s] = IF e = "ok" THEN "up"
                                                              ELSE "failed"]
                     ELSE remote
  BY DEF Complete
<1>2. peer' = peer
  BY DEF Complete
<1>3. NoRemoteReset'
  BY <1>1 DEF QInv, NoRemoteReset, TypeOK
<1>4. ASSUME NEW j \in DOMAIN ready, ready[j].op.h \in Loops
      PROVE  remote'[ready[j].op.s] = remote[ready[j].op.s]
  <2>1. ready[j].op.s \in Clients
    BY <1>4, HandlerNames DEF SInv, Owned, Ongoing, Loops
  <2>2. Apart(o, ready[j].op)
    BY DEF SInv, Alone
  <2>3. o.h = "sendServerResponse" => o.s # ready[j].op.s
    BY <2>1, <2>2, HandlerNames DEF Apart
  <2> QED  BY <1>1, <2>1, <2>3 DEF TypeOK
<1> QED
  BY <1>1, <1>2, <1>3, <1>4, PostQInv DEF Post

\* A step that leaves the operations and their connections alone.
LEMMA NothingMoved ==
  ASSUME SInv, QInv, UNCHANGED <<pending, ready, peer>>, NoRemoteReset',
         \A t \in Clients : remote[t] \in Done => remote'[t] \in Done
  PROVE  QInv'
<1>1. PendingOwned' /\ EntriesOwned
  BY DEF QInv, PendingOwned
<1>2. ASSUME NEW k \in DOMAIN ready, ready[k].op.h # "accept",
             Cut(ready[k].op, remote)
      PROVE  Cut(ready[k].op, remote')
  <2>1. ready[k].op.s \in Clients
    BY <1>2 DEF SInv, Owned, Ongoing
  <2> QED  BY <1>2, <2>1 DEF Cut
<1>3. EntriesOwned'
  BY <1>1, <1>2
     DEF EntriesOwned, Leftover, GreetingBehind, AheadOfAccept, Conn, Session
<1> QED
  BY <1>1, <1>3 DEF QInv

\* The network preserves the invariant.
LEMMA NetworkQInv ==
  ASSUME Ordered, TypeOK, SInv, QInv, Network
  PROVE  QInv'
<1>1. CASE AcceptFails
  <2>1. PICK o \in pending : Post(o, "err")
    BY <1>1 DEF AcceptFails
  <2>2. peer' = peer /\ remote' = remote
    BY <1>1 DEF AcceptFails
  <2> QED  BY <2>1, <2>2, PostQInv DEF Post, QInv, NoRemoteReset
<1>2. ASSUME NEW s \in Clients, AcceptClient(s)
      PROVE  QInv'
  <2>1. PICK o \in pending :
          /\ o.h = "accept"
          /\ pending' = pending \ {o}
          /\ ready' = Append(ready, [op |-> [o EXCEPT !.s = s], ec |-> "ok"])
    BY <1>2 DEF AcceptClient
  <2> DEFINE q == [o EXCEPT !.s = s]
  <2>2. q.h = o.h /\ q.c = o.c
    BY DEF TypeOK, Ops
  <2>3. ready' = Append(ready, [op |-> q, ec |-> "ok"])
    BY <2>1
  <2> HIDE DEF q
  <2>4. peer' = peer /\ remote' = remote
    BY <1>2 DEF AcceptClient
  <2> QED  BY <2>1, <2>2, <2>3, <2>4, PostQInv DEF QInv, NoRemoteReset
<1>3. ASSUME NEW s \in Clients,
             Connect(s) \/ ClientLeaves(s) \/ RemoteLeaves(s)
      PROVE  QInv'
  <2>1. UNCHANGED <<pending, ready, peer>>
    BY <1>3 DEF Connect, ClientLeaves, RemoteLeaves
  <2>2. /\ NoRemoteReset'
        /\ \A t \in Clients : remote[t] \in Done => remote'[t] \in Done
    BY <1>3 DEF Connect, ClientLeaves, RemoteLeaves, Leaves, Ordered, Done,
                NoRemoteReset, QInv, TypeOK
  <2> QED  BY <2>1, <2>2, NothingMoved
<1> QED
  BY <1>1, <1>2, <1>3 DEF Network

LEMMA InitQInv == Init => QInv
<1> SUFFICES ASSUME Init
             PROVE  QInv
  OBVIOUS
<1>1. PICK c \in Conns : pending = {Accept(c)} /\ ready = <<>>
  BY DEF Init
<1>2. Accept(c).h = "accept"
  BY DEF Accept, Op, OpArg
<1>3. DOMAIN ready = {} /\ \A s \in Clients : remote[s] = "none"
  BY <1>1, EmptySeq DEF Init
<1> QED
  BY <1>1, <1>2, <1>3 DEF QInv, NoRemoteReset, PendingOwned, EntriesOwned

LEMMA NextQInv ==
  ASSUME Ordered
  PROVE  IInv /\ SInv /\ HInv /\ QInv /\ [Next]_vars => QInv'
<1> SUFFICES ASSUME IInv, SInv, HInv, QInv, [Next]_vars
             PROVE  QInv'
  OBVIOUS
<1>0. TypeOK
  BY IInvParts
<1>1. ASSUME NEW i \in DOMAIN ready, Handler(i)
      PROVE  QInv'
  BY <1>1, HandlerQInv
<1>2. ASSUME NEW o \in pending, Complete(o)
      PROVE  QInv'
  BY <1>0, <1>2, CompleteQInv
<1>3. CASE Network
  BY <1>0, <1>3, NetworkQInv
<1>4. CASE UNCHANGED vars
  <2>1. UNCHANGED <<pending, ready, peer>> /\ remote' = remote
    BY <1>4 DEF vars
  <2> QED  BY <2>1, NothingMoved DEF QInv, NoRemoteReset
<1> QED
  BY <1>1, <1>2, <1>3, <1>4 DEF Next

\* The invariant of this section holds in every reachable state.
THEOREM InductiveOrder ==
  ASSUME Ordered
  PROVE  Spec => []QInv
<1>1. IInv /\ SInv /\ HInv /\ QInv /\ [Next]_vars => QInv'
  BY NextQInv
<1> QED
  BY InitQInv, <1>1, Inductive, InductiveReplies, InductiveOwners, PTL DEF Spec

\* An operation waits on the socket of its own client: the pool hands a
\* connection on only when nothing of the session that gave it up waits on
\* it.  connection_pool.h:15-33.
THEOREM OwnersHold ==
  ASSUME Ordered
  PROVE  Spec => []SessionOwnership
<1>1. QInv => SessionOwnership
  BY DEF QInv, PendingOwned, SessionOwnership
<1> QED
  BY <1>1, InductiveOrder, PTL

\* A session whose connection is open has one operation in flight while it
\* shakes hands and one in each direction once it relays: no buffer of its
\* connection is used twice at a time, and neither end is unheard.
\* proxy_server.cpp:210-291, connection.h:41-42.
THEOREM BuffersUsedOnce ==
  ASSUME Ordered
  PROVE  Spec => []OneOperationPerBuffer
<1>1. ASSUME TypeOK, SInv, HInv, QInv
      PROVE  OneOperationPerBuffer
  <2> SUFFICES ASSUME NEW c \in Conns, Open(c)
               PROVE  Served(peer[c])
    BY DEF OneOperationPerBuffer
  <2>1. peer[c] \in Clients /\ Alone
    BY <1>1 DEF TypeOK, Open, SInv
  <2>2. ASSUME LeftOn(c)
        PROVE  FALSE
    <3>1. PICK o \in Ongoing : o.c = c /\ o.h # "accept"
      BY <2>2 DEF LeftOn
    <3>2. o.s # peer[c] /\ \A p \in Ongoing : p.s # peer[c]
      BY <2>2 DEF LeftOn
    <3>3. PICK j \in DOMAIN ready : ready[j].op = o
      BY <1>1, <3>1, <3>2 DEF QInv, PendingOwned, Ongoing
    <3>4. \E p \in Ongoing : Greets(p, c, peer[c])
      BY <1>1, <3>1, <3>2, <3>3, EntryOwned DEF QInv, Open, Ongoing
    <3> QED  BY <3>2, <3>4 DEF Greets
  <2> QED  BY <1>1, <2>1, <2>2, BusyServed DEF HInv, Heard
<1> QED
  BY <1>1, TypeCorrect, InductiveReplies, InductiveOwners, InductiveOrder, PTL

\* The connection a handler closes is the one it is bound to.
LEMMA HandlerCloses ==
  ASSUME TypeOK, SInv, NEW i \in DOMAIN ready, Handler(i), alive',
         NEW c \in Conns, Open(c), peer'[c] = NoClient
  PROVE  c = Conn(i) /\ ready[i].op.h # "accept"
<1>0. peer \in [Conns -> Clients \cup {NoClient}] /\ NoClient \notin Clients
  BY ConstantsAssumption DEF TypeOK
<1>1. ~Crash /\ peer' # peer
  BY DEF Crash, Open
<1>2. ASSUME addConnection(Conn(i))
      PROVE  c = Conn(i)
  BY <1>0, <1>1, <1>2 DEF addConnection, Open
<1>3. ASSUME NEW started
      PROVE  ~Proceed(i, started)
  BY <1>1 DEF Proceed
<1>4. ~acceptConnection(i)
  <2> SUFFICES ASSUME acceptConnection(i)
               PROVE  FALSE
    OBVIOUS
  <2>1. /\ ready[i].op.h = "accept" /\ Succeeded(i)
        /\ peer' = [peer EXCEPT ![Conn(i)] = Session(i)]
    BY <1>1 DEF acceptConnection, Runs
  <2>2. Session(i) \in Clients
    BY <2>1 DEF SInv, Greeted
  <2> QED  BY <1>0, <2>1, <2>2 DEF Open
<1>5. ready[i].op.h # "accept"
  BY <1>4, HandlerNames
     DEF Handler, acceptConnection, readAuthMethods, sendServerChoice,
         handleConnectionRequest, readAddressType, handleAddress,
         readIPv4Address, getDomainLength, getDomainName, sendServerResponse,
         replyWritten, startDataTransfer, sendDataToServer,
         recvDataFromClient, sendDataToClient, recvDataFromServer,
         continueTransfer, Relay, Runs, Composed, ClientReads, ClientWrites,
         RemoteWrites
<1>6. CASE GiveUp(i) \/ HangUp(i)
  BY <1>2, <1>5, <1>6 DEF GiveUp, HangUp
<1>7. CASE peer' = [peer EXCEPT ![Conn(i)] = NoClient]
  BY <1>0, <1>5, <1>7 DEF Open
<1> QED
  BY <1>1, <1>3, <1>4, <1>6, <1>7
     DEF Handler, readAuthMethods, sendServerChoice, handleConnectionRequest,
         readAddressType, handleAddress, readIPv4Address, getDomainLength,
         getDomainName, sendServerResponse, replyWritten, startDataTransfer,
         sendDataToServer, recvDataFromClient, sendDataToClient,
         recvDataFromServer, continueTransfer, Relay

\* A handler of a session that is over closes the connection of another client
\* only while all that client has in flight is the reading of its greeting.
\* proxy_server.cpp:235,251,267,283, connection_pool.h:15-22.
THEOREM CutsOnlyGreetings ==
  ASSUME Ordered
  PROVE  Spec => OnlyGreetingCut
<1> DEFINE Step ==
      alive' => \A c \in Conns :
        /\ Open(c) /\ peer'[c] = NoClient
        /\ Head(ready).op.s # peer[c]
        => InFlight(peer[c], {"readAuthMethods"}) = 1
<1>1. ASSUME TypeOK, SInv, QInv, Next
      PROVE  Step
  <2> SUFFICES ASSUME alive', NEW c \in Conns, Open(c), peer'[c] = NoClient,
                      Head(ready).op.s # peer[c]
               PROVE  InFlight(peer[c], {"readAuthMethods"}) = 1
    OBVIOUS
  <2>1. PICK i \in DOMAIN ready : Handler(i)
    BY <1>1 DEF Next, Complete, Network, AcceptFails, AcceptClient, Connect,
                ClientLeaves, RemoteLeaves, Open
  <2>2. c = Conn(i) /\ ready[i].op.h # "accept"
    BY <1>1, <2>1, HandlerCloses
  <2>3. i = 1
    BY <2>1, HandlerFirst DEF Ordered
  <2>4. Head(ready) = ready[1]
    <3>1. ready # <<>>
      BY <2>1, EmptySeq
    <3> QED  BY <1>1, <3>1, HeadTailProperties DEF TypeOK
  <2>5. peer[c] # Session(1)
    BY <2>4 DEF Session
  <2>6. /\ \E o \in Ongoing : Greets(o, c, peer[c])
        /\ \A o \in Ongoing : o.s = peer[c] => o.h = "readAuthMethods"
    BY <1>1, <2>1, <2>2, <2>3, <2>5, OnlyGreeting
  <2>7. peer[c] \in Clients /\ Alone
    BY <1>1 DEF TypeOK, Open, SInv
  <2>8. \A o, p : o.h = "readAuthMethods" /\ o.s \in Clients /\ p.s = o.s
                    => ~Apart(o, p)
    BY DEF Apart, UpLoop, DownLoop
  <2> QED  BY <1>1, <2>6, <2>7, <2>8, CountOne DEF Greets
<1>2. TypeOK /\ SInv /\ QInv /\ [Next]_vars => [Step]_vars
  BY <1>1
<1> QED
  BY <1>2, TypeCorrect, InductiveReplies, InductiveOrder, PTL
     DEF Spec, OnlyGreetingCut
=============================================================================
