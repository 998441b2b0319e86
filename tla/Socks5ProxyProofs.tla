------------------------- MODULE Socks5ProxyProofs -------------------------
(***************************************************************************)
(* Safety of the proxy, for any clients, connections, inputs and faults:   *)
(* the state is well typed, the pool is sound, and the acceptor is always  *)
(* armed.  The three are proved together: the pool hands out connections   *)
(* that are closed and that the acceptor does not hold, and the acceptor's *)
(* connection is neither open nor in the pool.                             *)
(***************************************************************************)
EXTENDS Socks5Proxy, FiniteSetTheorems, SequenceTheorems, TLAPS

\* Nothing runs once the process has ended.
Stopped == ~alive => pending = {} /\ ready = <<>>

IInv == TypeOK /\ PoolSound /\ AcceptArmed /\ Stopped

Entries == [op : Ops, ec : Results]

-----------------------------------------------------------------------------
(***************************************************************************)
(* Sequences and operations.                                               *)
(***************************************************************************)
\* Taking entry i out of a queue shortens it by one and moves the entries
\* behind i one place forward.
LEMMA RemoveAtProperties ==
  ASSUME NEW S, NEW q \in Seq(S), NEW i \in DOMAIN q
  PROVE  /\ RemoveAt(q, i) \in Seq(S)
         /\ Len(RemoveAt(q, i)) = Len(q) - 1
         /\ DOMAIN RemoveAt(q, i) = 1 .. (Len(q) - 1)
         /\ \A k \in DOMAIN RemoveAt(q, i) :
              RemoveAt(q, i)[k] = IF k < i THEN q[k] ELSE q[k + 1]
<1>1. i \in 1 .. Len(q) /\ Len(q) \in Nat
  BY LenProperties
<1> DEFINE front == SubSeq(q, 1, i - 1)
           back == SubSeq(q, i + 1, Len(q))
<1>2. /\ front \in Seq(S)
      /\ Len(front) = i - 1
      /\ \A k \in 1 .. (i - 1) : front[k] = q[k]
  BY <1>1
<1>3. /\ back \in Seq(S)
      /\ Len(back) = Len(q) - i
      /\ \A k \in 1 .. (Len(q) - i) : back[k] = q[i + k]
  BY <1>1
<1>4. RemoveAt(q, i) = front \o back
  BY DEF RemoveAt
<1> HIDE DEF front, back
<1>5. /\ front \o back \in Seq(S)
      /\ Len(front \o back) = Len(q) - 1
  BY <1>1, <1>2, <1>3, ConcatProperties
<1>6. ASSUME NEW k \in 1 .. (Len(q) - 1)
      PROVE  (front \o back)[k] = IF k < i THEN q[k] ELSE q[k + 1]
  <2>1. (front \o back)[k] = IF k <= Len(front) THEN front[k]
                                               ELSE back[k - Len(front)]
    <3>1. k \in 1 .. Len(front) + Len(back)
      BY <1>1, <1>2, <1>3
    <3> QED  BY <3>1, <1>2, <1>3, ConcatProperties
  <2>2. CASE k < i
    BY <2>1, <2>2, <1>1, <1>2
  <2>3. CASE ~(k < i)
    <3>1. k - (i - 1) \in 1 .. (Len(q) - i) /\ ~(k <= i - 1)
      BY <2>3, <1>1
    <3>2. back[k - (i - 1)] = q[i + (k - (i - 1))]
      BY <3>1, <1>3
    <3>3. i + (k - (i - 1)) = k + 1
      BY <1>1
    <3> QED  BY <2>1, <3>1, <3>2, <3>3, <2>3, <1>2
  <2> QED  BY <2>2, <2>3
<1>7. DOMAIN (front \o back) = 1 .. (Len(q) - 1)
  BY <1>5, LenProperties
<1> QED
  BY <1>4, <1>5, <1>6, <1>7

\* A set of two operations is finite; so many does a relay start at once.
LEMMA PairFinite ==
  ASSUME NEW x, NEW y
  PROVE  IsFiniteSet({x, y})
<1>1. IsFiniteSet({x}) /\ IsFiniteSet({y})
  BY FS_Singleton
<1>2. IsFiniteSet({x} \cup {y})
  BY <1>1, FS_Union
<1>3. {x} \cup {y} = {x, y}
  OBVIOUS
<1> QED
  BY <1>2, <1>3

\* What a handler starts is an operation, bound to that handler.
LEMMA OpIsOp ==
  ASSUME NEW h \in Handlers, NEW c \in Conns,
         NEW s \in Clients \cup {NoClient},
         NEW a \in Replies \cup {"none", "excess"}
  PROVE  OpArg(h, c, s, a) \in Ops /\ OpArg(h, c, s, a).h = h
BY DEF OpArg, Ops

\* An entry of the completion queue has the parts its handler expects.
LEMMA EntryTypes ==
  ASSUME TypeOK, NEW i \in DOMAIN ready
  PROVE  /\ ready[i] \in Entries /\ ready[i].op \in Ops
         /\ Conn(i) \in Conns
         /\ Session(i) \in Clients \cup {NoClient}
<1>1. ready \in Seq(Entries)
  BY DEF TypeOK, Entries
<1>2. i \in 1 .. Len(ready)
  BY <1>1, LenProperties
<1>3. ready[i] \in Entries
  BY <1>1, <1>2, ElementOfSeq
<1> QED
  BY <1>3 DEF Entries, Ops, Conn, Session

\* The acceptor is never closed, so its operation is never aborted.
LEMMA AcceptAttached ==
  ASSUME NEW o, o.h = "accept"
  PROVE  Attached(o)'
BY DEF Attached, ClientReads, ClientWrites, RemoteReads, RemoteWrites

-----------------------------------------------------------------------------
(***************************************************************************)
(* What a handler does to the operations.                                  *)
(***************************************************************************)

\* The queue after Begin: the entries left by the one consumed, in order,
\* then aborted operations, none of which is an accept.
LEMMA BeginEffect ==
  ASSUME TypeOK, NEW i \in DOMAIN ready,
         NEW started \in SUBSET Ops, IsFiniteSet(started),
         Begin(i, started)
  PROVE  /\ pending' \in SUBSET Ops /\ IsFiniteSet(pending')
         /\ ready' \in Seq(Entries)
         /\ \A o \in pending \cup started :
              o.h = "accept" => o \in pending'
         /\ pending' \subseteq pending \cup started
         /\ 1 .. (Len(ready) - 1) \subseteq DOMAIN ready'
         /\ \A k \in 1 .. (Len(ready) - 1) :
              ready'[k] = IF k < i THEN ready[k] ELSE ready[k + 1]
         /\ \A k \in DOMAIN ready' :
              ready'[k].op.h = "accept" => k \in 1 .. (Len(ready) - 1)
<1> DEFINE begun == pending \cup started
           aborted == {o \in begun : ~Attached(o)'}
<1>1. PICK order \in SetToSeqs(aborted) :
        ready' = RemoveAt(ready, i)
                   \o [k \in DOMAIN order |-> [op |-> order[k], ec |-> "err"]]
  BY DEF Begin
<1>2. pending' = begun \ aborted
  BY DEF Begin
<1>3. begun \in SUBSET Ops /\ IsFiniteSet(begun)
  BY FS_Union DEF TypeOK
<1>4. aborted \in SUBSET Ops /\ \A o \in aborted : o.h # "accept"
  BY <1>3, AcceptAttached
<1>5. IsFiniteSet(aborted) /\ IsFiniteSet(begun \ aborted)
  <2> HIDE DEF begun
  <2> QED  BY <1>3, FS_Subset
<1> DEFINE n == Cardinality(aborted)
           rest == RemoveAt(ready, i)
           tail == [k \in DOMAIN order |-> [op |-> order[k], ec |-> "err"]]
<1>6. n \in Nat
  <2> HIDE DEF aborted
  <2> QED  BY <1>5, FS_CardinalityType
<1>7. order \in [1 .. n -> aborted]
  <2> HIDE DEF aborted
  <2> QED  BY <1>1 DEF SetToSeqs
<1>8. ready \in Seq(Entries) /\ Len(ready) \in Nat
      /\ DOMAIN ready = 1 .. Len(ready)
  BY LenProperties DEF TypeOK, Entries
<1>9. /\ rest \in Seq(Entries)
      /\ Len(rest) = Len(ready) - 1
      /\ DOMAIN rest = 1 .. (Len(ready) - 1)
      /\ \A k \in DOMAIN rest :
           rest[k] = IF k < i THEN ready[k] ELSE ready[k + 1]
  BY <1>8, RemoveAtProperties
<1>10. /\ tail \in [1 .. n -> Entries]
       /\ \A k \in 1 .. n : tail[k].op.h # "accept"
  <2> HIDE DEF aborted, n
  <2> QED  BY <1>4, <1>7 DEF Entries, Results
<1> HIDE DEF begun, aborted, n, rest, tail
<1>11. tail \in Seq(Entries) /\ Len(tail) = n
  BY <1>6, <1>10, SeqDef, LenProperties
<1>12. ready' = rest \o tail
  BY <1>1 DEF rest, tail
<1>14. /\ ready' \in Seq(Entries)
       /\ Len(ready') = Len(rest) + Len(tail)
       /\ \A k \in 1 .. Len(rest) + Len(tail) :
            ready'[k] = IF k <= Len(rest) THEN rest[k]
                                          ELSE tail[k - Len(rest)]
  BY <1>9, <1>11, <1>12, ConcatProperties
<1>15. DOMAIN ready' = 1 .. Len(rest) + n /\ Len(rest) \in Nat
  BY <1>9, <1>11, <1>14, LenProperties
<1>16. \A k \in 1 .. (Len(ready) - 1) :
         /\ k \in DOMAIN ready'
         /\ ready'[k] = IF k < i THEN ready[k] ELSE ready[k + 1]
  <2> SUFFICES ASSUME NEW k \in 1 .. (Len(ready) - 1)
               PROVE  /\ k \in DOMAIN ready'
                      /\ ready'[k] = IF k < i THEN ready[k] ELSE ready[k + 1]
    OBVIOUS
  <2>1. k \in 1 .. Len(rest) + Len(tail) /\ k <= Len(rest)
    BY <1>6, <1>8, <1>9, <1>11
  <2>2. ready'[k] = rest[k]
    BY <2>1, <1>14
  <2> QED  BY <2>1, <2>2, <1>9, <1>11, <1>15
<1>17. ASSUME NEW k \in DOMAIN ready', ~(k \in 1 .. (Len(ready) - 1))
       PROVE  ready'[k].op.h # "accept"
  <2>1. k - Len(rest) \in 1 .. n /\ ~(k <= Len(rest))
    BY <1>6, <1>8, <1>9, <1>15, <1>17
  <2> QED  BY <2>1, <1>10, <1>11, <1>14, <1>15
<1>18. \A o \in pending \cup started : o.h = "accept" => o \in pending'
  BY <1>2, <1>4 DEF begun
<1>19. pending' \subseteq pending \cup started /\ pending' \in SUBSET Ops
  BY <1>2, <1>3 DEF begun
<1> QED
  BY <1>2, <1>5, <1>14, <1>16, <1>17, <1>18, <1>19

\* A handler other than the accept's leaves the accept alone.
LEMMA AcceptKept ==
  ASSUME TypeOK, NEW i \in DOMAIN ready, ready[i].op.h # "accept",
         NEW started \in SUBSET Ops, IsFiniteSet(started),
         \A o \in started : o.h # "accept",
         Begin(i, started),
         NEW c, AcceptOn(c)
  PROVE  AcceptOn(c)'
<1>1. /\ \A o \in pending \cup started : o.h = "accept" => o \in pending'
      /\ pending' \subseteq pending \cup started
      /\ 1 .. (Len(ready) - 1) \subseteq DOMAIN ready'
      /\ \A k \in 1 .. (Len(ready) - 1) :
           ready'[k] = IF k < i THEN ready[k] ELSE ready[k + 1]
      /\ \A k \in DOMAIN ready' :
           ready'[k].op.h = "accept" => k \in 1 .. (Len(ready) - 1)
  BY BeginEffect
<1>2. Len(ready) \in Nat /\ DOMAIN ready = 1 .. Len(ready)
  BY LenProperties DEF TypeOK
<1>3. \A k \in 1 .. (Len(ready) - 1) :
        IF k < i THEN k \in DOMAIN ready ELSE k + 1 \in DOMAIN ready
  BY <1>2
<1>4. CASE /\ \E o \in pending : /\ o.h = "accept" /\ o.c = c
                                /\ \A p \in pending : p.h = "accept" => p = o
           /\ \A j \in DOMAIN ready : ready[j].op.h # "accept"
  <2>1. \A k \in DOMAIN ready' : ready'[k].op.h # "accept"
    BY <1>1, <1>3, <1>4
  <2>2. \E o \in pending' : /\ o.h = "accept" /\ o.c = c
                            /\ \A p \in pending' : p.h = "accept" => p = o
    BY <1>1, <1>4
  <2> QED  BY <2>1, <2>2 DEF AcceptOn
<1>5. CASE /\ \A p \in pending : p.h # "accept"
           /\ \E j \in DOMAIN ready :
                /\ ready[j].op.h = "accept" /\ Conn(j) = c
                /\ \A k \in DOMAIN ready : ready[k].op.h = "accept" => k = j
  <2>1. \A p \in pending' : p.h # "accept"
    BY <1>1, <1>5
  <2>2. PICK j \in DOMAIN ready :
          /\ ready[j].op.h = "accept" /\ ready[j].op.c = c
          /\ \A k \in DOMAIN ready : ready[k].op.h = "accept" => k = j
    BY <1>5 DEF Conn
  <2> DEFINE m == IF j < i THEN j ELSE j - 1
  <2>3. /\ j # i
        /\ m \in 1 .. (Len(ready) - 1)
        /\ m < i => m = j
        /\ ~(m < i) => m + 1 = j
    BY <1>2, <2>2
  <2> HIDE DEF m
  <2>4. m \in DOMAIN ready' /\ ready'[m] = ready[j]
    BY <1>1, <2>3
  <2>5. ASSUME NEW k \in DOMAIN ready', ready'[k].op.h = "accept"
        PROVE  k = m
    <3>1. k \in 1 .. (Len(ready) - 1)
      BY <1>1, <2>5
    <3>2. IF k < i THEN k = j ELSE k + 1 = j
      BY <1>1, <1>3, <2>2, <2>5, <3>1
    <3> QED  BY <1>2, <2>3, <3>1, <3>2
  <2> QED  BY <2>1, <2>2, <2>4, <2>5 DEF AcceptOn, Conn
<1> QED
  BY <1>4, <1>5 DEF AcceptOn

\* The accept's handler hands on to the accept it starts.
LEMMA AcceptHandedOn ==
  ASSUME TypeOK, NEW i \in DOMAIN ready, ready[i].op.h = "accept",
         NEW started \in SUBSET Ops, IsFiniteSet(started),
         NEW next \in started, next.h = "accept",
         \A o \in started : o.h = "accept" => o = next,
         Begin(i, started),
         NEW d, AcceptOn(d)
  PROVE  AcceptOn(next.c)' /\ d = Conn(i)
<1>1. /\ \A o \in pending \cup started : o.h = "accept" => o \in pending'
      /\ pending' \subseteq pending \cup started
      /\ \A k \in 1 .. (Len(ready) - 1) :
           ready'[k] = IF k < i THEN ready[k] ELSE ready[k + 1]
      /\ \A k \in DOMAIN ready' :
           ready'[k].op.h = "accept" => k \in 1 .. (Len(ready) - 1)
  BY BeginEffect
<1>2. Len(ready) \in Nat /\ DOMAIN ready = 1 .. Len(ready)
  BY LenProperties DEF TypeOK
<1>3. /\ \A p \in pending : p.h # "accept"
      /\ \A j \in DOMAIN ready : ready[j].op.h = "accept" => j = i
      /\ d = Conn(i)
  BY DEF AcceptOn, Conn
<1>4. ASSUME NEW k \in DOMAIN ready'
      PROVE  ready'[k].op.h # "accept"
  <2> SUFFICES ASSUME ready'[k].op.h = "accept"
               PROVE  FALSE
    OBVIOUS
  <2>1. k \in 1 .. (Len(ready) - 1)
    BY <1>1
  <2>2. CASE k < i
    <3>1. ready[k].op.h = "accept" /\ k \in DOMAIN ready
      BY <1>1, <1>2, <2>1, <2>2
    <3> QED  BY <1>2, <1>3, <2>1, <2>2, <3>1
  <2>3. CASE ~(k < i)
    <3>1. ready[k + 1].op.h = "accept" /\ k + 1 \in DOMAIN ready
      BY <1>1, <1>2, <2>1, <2>3
    <3> QED  BY <1>2, <1>3, <2>1, <2>3, <3>1
  <2> QED  BY <2>2, <2>3
<1>5. /\ next \in pending'
      /\ \A p \in pending' : p.h = "accept" => p = next
  BY <1>1, <1>3
<1> QED
  BY <1>3, <1>4, <1>5 DEF AcceptOn

-----------------------------------------------------------------------------
(***************************************************************************)
(* The pool.                                                               *)
(***************************************************************************)

\* What the pool, its connections and the acceptor's one have to do with each
\* other, c being the acceptor's.
Held(c) == ~Open(c) /\ c \notin ToSet(pool)

PoolTypeOK ==
  /\ pool \in Seq(Conns)
  /\ pool_size \in Nat
  /\ peer \in [Conns -> Clients \cup {NoClient}]
  /\ client \in [Clients -> {"idle", "backlog", "up", "fin", "rst", "gone"}]

\* addConnection keeps the pool sound and neither opens a connection nor pools
\* one that is closed: the acceptor's connection stays as it is.
LEMMA addConnectionSound ==
  ASSUME PoolTypeOK, PoolSound, NEW c \in Conns, addConnection(c)
  PROVE  /\ PoolTypeOK' /\ PoolSound'
         /\ \A d \in Conns : Held(d) => Held(d)'
<1>1. CASE ~Open(c)
  BY <1>1 DEF addConnection, PoolTypeOK, PoolSound, Held, Open, ToSet
<1>2. CASE Open(c)
  <2>1. /\ pool' = Append(pool, c)
        /\ pool_size' = pool_size + 1
        /\ peer' = [peer EXCEPT ![c] = NoClient]
        /\ client' = [client EXCEPT ![peer[c]] = Dropped(peer[c])]
    BY <1>2 DEF addConnection
  <2>2. /\ Len(pool) \in Nat /\ DOMAIN pool = 1 .. Len(pool)
        /\ \A i \in DOMAIN pool : pool[i] \in Conns
    BY LenProperties, ElementOfSeq DEF PoolTypeOK
  <2>3. /\ pool' \in Seq(Conns)
        /\ Len(pool') = Len(pool) + 1
        /\ DOMAIN pool' = 1 .. (Len(pool) + 1)
        /\ \A i \in 1 .. Len(pool) : pool'[i] = pool[i]
        /\ pool'[Len(pool) + 1] = c
    BY <2>1, AppendProperties, LenProperties DEF PoolTypeOK
  <2>4. PoolTypeOK'
    <3>1. Dropped(peer[c]) \in {"idle", "gone"}
      BY DEF Dropped
    <3>2. client' \in
            [Clients -> {"idle", "backlog", "up", "fin", "rst", "gone"}]
      <4> HIDE DEF Dropped
      <4> QED  BY <2>1, <3>1 DEF PoolTypeOK
    <3>3. peer' \in [Conns -> Clients \cup {NoClient}]
      BY <2>1 DEF PoolTypeOK
    <3>4. pool_size' \in Nat
      BY <2>1 DEF PoolTypeOK
    <3> QED  BY <2>3, <3>2, <3>3, <3>4 DEF PoolTypeOK
  <2>5. \A i \in DOMAIN pool : pool[i] # c
    BY <1>2 DEF PoolSound
  <2>6. \A i \in DOMAIN pool' :
          /\ i \in DOMAIN pool \/ i = Len(pool) + 1
          /\ pool'[i] \in Conns
    BY <2>2, <2>3
  <2>7. \A i, j \in DOMAIN pool' : pool'[i] = pool'[j] => i = j
    BY <2>2, <2>3, <2>5, <2>6 DEF PoolSound
  <2>8. \A i \in DOMAIN pool' : peer'[pool'[i]] = NoClient
    BY <2>1, <2>2, <2>3, <2>6 DEF PoolSound, PoolTypeOK, Open
  <2>9. ASSUME NEW d \in Conns, Held(d)
        PROVE  Held(d)'
    BY <1>2, <2>1, <2>2, <2>3, <2>6, <2>9 DEF Held, Open, PoolTypeOK, ToSet
  <2> QED
    BY <2>1, <2>3, <2>4, <2>7, <2>8, <2>9 DEF PoolSound, Open
<1> QED
  BY <1>1, <1>2

\* getConnection returns a closed connection that is in the pool no more, and
\* that was in the pool or is new.
LEMMA getConnectionSound ==
  ASSUME PoolTypeOK, PoolSound, NEW c \in Conns, getConnection(c)
  PROVE  /\ pool' \in Seq(Conns) /\ pool_size' \in Nat
         /\ pool_size' = Len(pool')
         /\ \A i, j \in DOMAIN pool' : pool'[i] = pool'[j] => i = j
         /\ ToSet(pool') \subseteq ToSet(pool)
         /\ Held(c) \/ c \in ToSet(pool)
         /\ ~Open(c) /\ c \notin ToSet(pool')
         /\ c \in ToSet(pool) \/ Fresh(c)
<1>1. CASE pool = <<>>
  BY <1>1 DEF getConnection, Fresh, PoolTypeOK, PoolSound, Held
<1>2. CASE pool # <<>>
  <2>1. /\ Len(pool) \in Nat \ {0} /\ DOMAIN pool = 1 .. Len(pool)
        /\ \A i \in DOMAIN pool : pool[i] \in Conns
    BY <1>2, EmptySeq, LenProperties, ElementOfSeq DEF PoolTypeOK
  <2>2. c = pool[Len(pool)] /\ pool_size' = pool_size - 1
        /\ pool' = SubSeq(pool, 1, Len(pool) - 1)
    BY <1>2 DEF getConnection, Last, Front
  <2>3. /\ pool' \in Seq(Conns)
        /\ Len(pool') = Len(pool) - 1
        /\ DOMAIN pool' = 1 .. (Len(pool) - 1)
        /\ \A i \in 1 .. (Len(pool) - 1) : pool'[i] = pool[i]
    BY <2>1, <2>2, SubSeqProperties, LenProperties DEF PoolTypeOK
  <2>4. \A i \in DOMAIN pool' : i \in DOMAIN pool /\ i # Len(pool)
    BY <2>1, <2>3
  <2>5. Len(pool) \in DOMAIN pool
    BY <2>1
  <2>6. ~Open(c) /\ c \in ToSet(pool)
    BY <2>2, <2>5 DEF PoolSound, ToSet
  <2>7. c \notin ToSet(pool') /\ ToSet(pool') \subseteq ToSet(pool)
    BY <2>2, <2>3, <2>4, <2>5 DEF PoolSound, ToSet
  <2> QED
    BY <2>1, <2>2, <2>3, <2>4, <2>6, <2>7 DEF PoolSound, PoolTypeOK
<1> QED
  BY <1>1, <1>2

-----------------------------------------------------------------------------
(***************************************************************************)
(* How handlers end.                                                       *)
(***************************************************************************)
RemoteTypeOK == remote \in [Clients -> {"none", "connecting", "failed", "up",
                                        "fin", "rst", "closed"}]

\* The invariant in the parts the lemmas on handlers are stated with.
LEMMA IInvParts ==
  ASSUME IInv
  PROVE  /\ TypeOK /\ PoolTypeOK /\ RemoteTypeOK /\ PoolSound
         /\ alive => \E d \in Conns : AcceptOn(d) /\ Held(d)
         /\ Stopped
BY DEF IInv, TypeOK, PoolTypeOK, RemoteTypeOK, AcceptArmed, Held

\* A handler runs only while the process lives.
LEMMA RunsAlive ==
  ASSUME IInv, NEW i \in DOMAIN ready
  PROVE  alive
BY EmptySeq DEF IInv, Stopped

\* A handler runs only while the proxy lives; one other than the accept's
\* preserves the invariant when it leaves
\* the pool sound and the acceptor's connection alone.
LEMMA HandlerEnds ==
  ASSUME IInv, NEW i \in DOMAIN ready, ready[i].op.h # "accept",
         NEW started \in SUBSET Ops, IsFiniteSet(started),
         \A o \in started : o.h # "accept",
         Begin(i, started),
         alive' = alive, resolved_hosts' \subseteq Hosts,
         PoolTypeOK', RemoteTypeOK', PoolSound',
         \A d \in Conns : Held(d) => Held(d)'
  PROVE  IInv'
<1>1. TypeOK /\ (alive => \E d \in Conns : AcceptOn(d) /\ Held(d))
  BY IInvParts
<1>2. /\ pending' \in SUBSET Ops /\ IsFiniteSet(pending')
      /\ ready' \in Seq(Entries)
  BY <1>1, BeginEffect
<1>3. TypeOK'
  BY <1>1, <1>2 DEF TypeOK, PoolTypeOK, RemoteTypeOK, Entries
<1>4. ASSUME alive'
      PROVE  \E d \in Conns : AcceptOn(d)' /\ Held(d)'
  <2>1. PICK d \in Conns : AcceptOn(d) /\ Held(d)
    BY <1>1, <1>4
  <2>2. AcceptOn(d)'
    BY <1>1, <2>1, AcceptKept
  <2> QED  BY <2>1, <2>2
<1>5. AcceptArmed'
  BY <1>4 DEF AcceptArmed, Held
<1>6. Stopped'
  BY RunsAlive DEF Stopped
<1> QED
  BY <1>3, <1>5, <1>6 DEF IInv

\* A handler of a session that only starts operations preserves the invariant.
LEMMA ProceedIInv ==
  ASSUME IInv, NEW i \in DOMAIN ready, ready[i].op.h # "accept",
         NEW started \in SUBSET Ops, IsFiniteSet(started),
         \A o \in started : o.h # "accept",
         Proceed(i, started)
  PROVE  IInv'
<1>1. /\ Begin(i, started)
      /\ alive' = alive /\ resolved_hosts' = resolved_hosts
      /\ pool' = pool /\ pool_size' = pool_size /\ peer' = peer
      /\ client' = client /\ remote' = remote
  BY DEF Proceed
<1>2. PoolTypeOK' /\ RemoteTypeOK' /\ PoolSound' /\ resolved_hosts' \subseteq Hosts
  BY <1>1, IInvParts
     DEF PoolTypeOK, RemoteTypeOK, PoolSound, Open, TypeOK
<1>3. \A d \in Conns : Held(d) => Held(d)'
  BY <1>1 DEF Held, Open, ToSet
<1> QED
  BY <1>1, <1>2, <1>3, HandlerEnds

\* addConnection, whatever becomes of the remote socket.
LEMMA ReturnIInv ==
  ASSUME IInv, NEW i \in DOMAIN ready, ready[i].op.h # "accept",
         addConnection(Conn(i)), RemoteTypeOK',
         UNCHANGED <<alive, resolved_hosts>>,
         Begin(i, {})
  PROVE  IInv'
<1>1. PoolTypeOK /\ PoolSound /\ Conn(i) \in Conns
  BY IInvParts, EntryTypes
<1>2. resolved_hosts' \subseteq Hosts
  BY DEF IInv, TypeOK
<1>3. PoolTypeOK' /\ PoolSound' /\ \A d \in Conns : Held(d) => Held(d)'
  BY <1>1, addConnectionSound
<1> QED
  BY <1>2, <1>3, FS_EmptySet, HandlerEnds

\* So does giving up a session that shakes hands,
LEMMA GiveUpIInv ==
  ASSUME IInv, NEW i \in DOMAIN ready, ready[i].op.h # "accept", GiveUp(i)
  PROVE  IInv'
<1>1. RemoteTypeOK'
  BY IInvParts DEF GiveUp, RemoteTypeOK
<1> QED
  BY <1>1, ReturnIInv DEF GiveUp

\* and one that relays, whichever connection it closes.
LEMMA HangUpIInv ==
  ASSUME IInv, NEW i \in DOMAIN ready, ready[i].op.h # "accept", HangUp(i)
  PROVE  IInv'
<1>1. RemoteTypeOK'
  <2>1. PICK held \in BOOLEAN :
          remote' = [remote EXCEPT ![Session(i)] =
                       IF ~held THEN "none"
                       ELSE IF remote[Session(i)] = "rst"
                            THEN remote[Session(i)] ELSE "closed"]
    BY DEF HangUp, closeRemote
  <2>2. RemoteTypeOK
    BY IInvParts
  <2> QED  BY <2>1, <2>2 DEF RemoteTypeOK
<1> QED
  BY <1>1, ReturnIInv DEF HangUp

\* An exception that leaves io_ctx.run() ends the process: nothing is held, and
\* nothing runs, afterwards.
LEMMA CrashIInv ==
  ASSUME IInv, Crash
  PROVE  IInv'
<1>1. /\ alive' = FALSE /\ pool' = <<>> /\ pool_size' = 0
      /\ resolved_hosts' = {} /\ pending' = {} /\ ready' = <<>>
      /\ peer' = [c \in Conns |-> NoClient]
      /\ client' = [s \in Clients |-> Dropped(s)]
      /\ remote' = [s \in Clients |-> "none"]
  BY DEF Crash
<1>2. \A s \in Clients : Dropped(s) \in {"idle", "gone"}
  BY DEF Dropped
<1>3. /\ pool' \in Seq(Conns) /\ Len(pool') = 0 /\ DOMAIN pool' = {}
      /\ ready' \in Seq([op : Ops, ec : Results])
  BY <1>1, EmptySeq
<1>4. IsFiniteSet(pending') /\ pending' \in SUBSET Ops
  BY <1>1, FS_EmptySet
<1>5. client' \in [Clients -> {"idle", "backlog", "up", "fin", "rst", "gone"}]
  BY <1>1, <1>2
<1>6. TypeOK'
  BY <1>1, <1>3, <1>4, <1>5 DEF TypeOK
<1>7. PoolSound' /\ AcceptArmed' /\ Stopped'
  BY <1>1, <1>3 DEF PoolSound, AcceptArmed, Stopped
<1> QED
  BY <1>6, <1>7 DEF IInv

\* The constructor and start() establish the invariant: the pool is empty and
\* the first accept is started.
LEMMA InitIInv == Init => IInv
<1> SUFFICES ASSUME Init
             PROVE  IInv
  OBVIOUS
<1>1. PICK c \in Conns : pending = {Accept(c)}
  BY DEF Init
<1>2. Accept(c) \in Ops /\ Accept(c).h = "accept" /\ Accept(c).c = c
  BY OpIsOp DEF Accept, Op, OpArg, Handlers, Ops
<1>3. /\ pool \in Seq(Conns) /\ Len(pool) = 0 /\ DOMAIN pool = {}
      /\ ready \in Seq([op : Ops, ec : Results]) /\ DOMAIN ready = {}
  BY EmptySeq DEF Init
<1>4. IsFiniteSet(pending) /\ pending \in SUBSET Ops
  BY <1>1, <1>2, FS_Singleton
<1>5. TypeOK
  BY <1>3, <1>4 DEF Init, TypeOK
<1>6. PoolSound /\ Stopped
  BY <1>3 DEF Init, PoolSound, Stopped
<1>7. AcceptOn(c) /\ ~Open(c) /\ c \notin ToSet(pool)
  BY <1>1, <1>2, <1>3 DEF Init, AcceptOn, Open, ToSet
<1> QED
  BY <1>5, <1>6, <1>7 DEF IInv, AcceptArmed

-----------------------------------------------------------------------------
(***************************************************************************)
(* The handlers.                                                           *)
(***************************************************************************)
\* A handler that starts one operation preserves the invariant.
LEMMA ProceedOneIInv ==
  ASSUME IInv, NEW i \in DOMAIN ready, ready[i].op.h # "accept",
         NEW o \in Ops, o.h # "accept", Proceed(i, {o})
  PROVE  IInv'
BY FS_Singleton, ProceedIInv

\* The next operation of entry i's session.
LEMMA NextOp ==
  ASSUME IInv, NEW i \in DOMAIN ready, NEW h \in Handlers,
         NEW a \in Replies \cup {"none", "excess"}
  PROVE  /\ OpArg(h, Conn(i), Session(i), a) \in Ops
         /\ OpArg(h, Conn(i), Session(i), a).h = h
         /\ Op(h, Conn(i), Session(i)) \in Ops
         /\ Op(h, Conn(i), Session(i)).h = h
BY EntryTypes, OpIsOp DEF IInv, Op

\* The accept's handler preserves the invariant: whether the accept failed or
\* not, it takes a connection from the pool and starts the next accept on it.
LEMMA acceptConnectionIInv ==
  ASSUME IInv, NEW i \in DOMAIN ready, acceptConnection(i)
  PROVE  IInv'
<1>0. /\ TypeOK /\ PoolTypeOK /\ RemoteTypeOK /\ PoolSound /\ alive
      /\ ready[i].op.h = "accept"
      /\ Conn(i) \in Conns /\ Session(i) \in Clients \cup {NoClient}
  BY IInvParts, RunsAlive, EntryTypes DEF acceptConnection, Runs
<1>1. PICK d \in Conns : AcceptOn(d) /\ Held(d)
  BY <1>0, IInvParts
<1>2. CASE Crash
  BY <1>2, CrashIInv
<1>3. ASSUME NEW c \in Conns, NEW started \in SUBSET Ops,
             IsFiniteSet(started), Accept(c) \in started,
             \A o \in started : o.h = "accept" => o = Accept(c),
             getConnection(c), Begin(i, started),
             UNCHANGED <<alive, resolved_hosts, client, remote>>,
             \/ peer' = peer
             \/ peer' = [peer EXCEPT ![Conn(i)] = Session(i)]
      PROVE  IInv'
  <2>1. Accept(c).h = "accept" /\ Accept(c).c = c
    BY DEF Accept, Op, OpArg
  <2>2. AcceptOn(c)' /\ d = Conn(i)
    BY <1>0, <1>1, <1>3, <2>1, AcceptHandedOn
  <2>3. /\ pool' \in Seq(Conns) /\ pool_size' \in Nat
        /\ pool_size' = Len(pool')
        /\ \A j, k \in DOMAIN pool' : pool'[j] = pool'[k] => j = k
        /\ ToSet(pool') \subseteq ToSet(pool)
        /\ ~Open(c) /\ c \notin ToSet(pool')
        /\ c \in ToSet(pool) \/ Fresh(c)
    BY <1>0, <1>3, getConnectionSound
  <2>4. c # Conn(i)
    BY <1>1, <2>2, <2>3 DEF Held, Fresh, Conn
  <2>5. peer' \in [Conns -> Clients \cup {NoClient}] /\ peer'[c] = NoClient
    BY <1>0, <1>3, <2>3, <2>4 DEF PoolTypeOK, Open
  <2>6. ASSUME NEW k \in DOMAIN pool'
        PROVE  peer'[pool'[k]] = NoClient
    <3>1. pool'[k] \in ToSet(pool) /\ pool'[k] # Conn(i)
      BY <1>1, <2>2, <2>3 DEF ToSet, Held
    <3>2. peer[pool'[k]] = NoClient
      BY <1>0, <3>1 DEF PoolSound, Open, ToSet
    <3>3. pool'[k] \in Conns
      BY <2>3, LenProperties, ElementOfSeq
    <3> QED  BY <1>0, <1>3, <3>1, <3>2, <3>3 DEF PoolTypeOK
  <2>7. /\ pending' \in SUBSET Ops /\ IsFiniteSet(pending')
        /\ ready' \in Seq(Entries)
    BY <1>0, <1>3, BeginEffect
  <2>8. TypeOK'
    BY <1>0, <1>3, <2>3, <2>5, <2>7 DEF TypeOK, Entries
  <2>9. PoolSound'
    BY <2>3, <2>6 DEF PoolSound, Open
  <2>10. AcceptArmed'
    BY <2>2, <2>3, <2>5 DEF AcceptArmed, Open
  <2>11. Stopped'
    BY <1>0, <1>3 DEF Stopped
  <2> QED  BY <2>8, <2>9, <2>10, <2>11 DEF IInv
<1>4. \A c \in Conns : Accept(c) \in Ops
  BY OpIsOp DEF Accept, Op, Handlers
<1>5. CASE /\ UNCHANGED <<alive, resolved_hosts, peer, client, remote>>
           /\ \E c \in Conns : getConnection(c) /\ Begin(i, {Accept(c)})
  <2>1. PICK c \in Conns : getConnection(c) /\ Begin(i, {Accept(c)})
    BY <1>5
  <2>2. {Accept(c)} \in SUBSET Ops /\ IsFiniteSet({Accept(c)})
    BY <1>4, FS_Singleton
  <2> QED  BY <1>3, <1>5, <2>1, <2>2
<1>6. CASE /\ peer' = [peer EXCEPT ![Conn(i)] = Session(i)]
           /\ UNCHANGED <<alive, resolved_hosts, client, remote>>
           /\ \E c \in Conns :
                /\ getConnection(c)
                /\ Begin(i, {Op("readAuthMethods", Conn(i), Session(i)),
                             Accept(c)})
  <2>1. PICK c \in Conns :
          /\ getConnection(c)
          /\ Begin(i, {Op("readAuthMethods", Conn(i), Session(i)), Accept(c)})
    BY <1>6
  <2> DEFINE started == {Op("readAuthMethods", Conn(i), Session(i)), Accept(c)}
  <2>2. started \in SUBSET Ops
    BY <1>4, NextOp DEF Handlers, ClientReads
  <2>3. IsFiniteSet(started)
    BY PairFinite
  <2>4. \A o \in started : o.h = "accept" => o = Accept(c)
    BY DEF Op, OpArg
  <2>5. Accept(c) \in started
    OBVIOUS
  <2> HIDE DEF started
  <2> QED  BY <1>3, <1>6, <2>1, <2>2, <2>3, <2>4, <2>5 DEF started
<1> QED
  BY <1>2, <1>5, <1>6 DEF acceptConnection

\* The handlers of the handshake.
LEMMA HandshakeIInv ==
  ASSUME IInv, NEW i \in DOMAIN ready,
         \/ readAuthMethods(i) \/ sendServerChoice(i)
         \/ handleConnectionRequest(i) \/ readAddressType(i)
         \/ handleAddress(i) \/ getDomainLength(i)
  PROVE  IInv'
<1>1. ready[i].op.h # "accept"
  BY DEF readAuthMethods, sendServerChoice, handleConnectionRequest,
         readAddressType, handleAddress, getDomainLength, Runs
<1>2. ASSUME NEW h \in Handlers \ {"accept"}, NEW a \in {"none", "excess"},
             Proceed(i, {OpArg(h, Conn(i), Session(i), a)})
      PROVE  IInv'
  BY <1>1, <1>2, NextOp, ProceedOneIInv
<1>3. ASSUME NEW h \in Handlers \ {"accept"},
             Proceed(i, {Op(h, Conn(i), Session(i))})
      PROVE  IInv'
  BY <1>1, <1>3, NextOp, ProceedOneIInv
<1>4. CASE GiveUp(i)
  BY <1>1, <1>4, GiveUpIInv
<1>5. CASE readAuthMethods(i)
  BY <1>2, <1>4, <1>5 DEF readAuthMethods, Handlers, ClientReads
<1>6. CASE sendServerChoice(i)
  BY <1>3, <1>4, <1>6 DEF sendServerChoice, Handlers, ClientWrites
<1>7. CASE handleConnectionRequest(i)
  BY <1>3, <1>4, <1>7 DEF handleConnectionRequest, Handlers, ClientReads
<1>8. CASE readAddressType(i)
  BY <1>3, <1>4, <1>8 DEF readAddressType, Handlers, ClientReads
<1>9. CASE handleAddress(i)
  BY <1>3, <1>4, <1>9 DEF handleAddress, Handlers, ClientReads
<1>10. CASE getDomainLength(i)
  BY <1>2, <1>4, <1>10 DEF getDomainLength, Handlers, ClientReads
<1> QED
  BY <1>5, <1>6, <1>7, <1>8, <1>9, <1>10

\* readIPv4Address preserves the invariant: it starts connecting.
LEMMA readIPv4AddressIInv ==
  ASSUME IInv, NEW i \in DOMAIN ready, readIPv4Address(i)
  PROVE  IInv'
<1> DEFINE op == Op("sendServerResponse", Conn(i), Session(i))
<1>1. ready[i].op.h # "accept"
  BY DEF readIPv4Address, Runs
<1>2. op \in Ops /\ op.h # "accept"
  BY NextOp DEF Handlers
<1>3. CASE GiveUp(i)
  BY <1>1, <1>3, GiveUpIInv
<1>4. CASE /\ remote' = [remote EXCEPT ![Session(i)] = "connecting"]
           /\ UNCHANGED <<alive, pool, pool_size, resolved_hosts, peer, client>>
           /\ Begin(i, {op})
  <2> HIDE DEF op
  <2>1. /\ PoolTypeOK' /\ PoolSound' /\ resolved_hosts' \subseteq Hosts
        /\ \A d \in Conns : Held(d) => Held(d)'
    BY <1>4, IInvParts DEF PoolTypeOK, PoolSound, Open, TypeOK, Held, ToSet
  <2>2. RemoteTypeOK'
    BY <1>4, IInvParts DEF RemoteTypeOK
  <2> QED  BY <1>1, <1>2, <1>4, <2>1, <2>2, FS_Singleton, HandlerEnds
<1> QED
  BY <1>3, <1>4 DEF readIPv4Address

\* sendServerResponse preserves the invariant on each of its three ways: the
\* process ends, the reply is success, the reply is an error.
LEMMA sendServerResponseIInv ==
  ASSUME IInv, NEW i \in DOMAIN ready, sendServerResponse(i)
  PROVE  IInv'
<1> DEFINE reply == getConnectionError(ready[i].ec)
           start == OpArg("startDataTransfer", Conn(i), Session(i), reply)
           refuse == OpArg("addConnection", Conn(i), Session(i), reply)
<1>1. ready[i].op.h # "accept"
  BY DEF sendServerResponse, Runs
<1>2. reply \in Replies
  BY DEF getConnectionError, Replies
<1>3. /\ start \in Ops /\ start.h # "accept"
      /\ refuse \in Ops /\ refuse.h # "accept"
  <2> HIDE DEF reply
  <2>1. "startDataTransfer" \in Handlers /\ "addConnection" \in Handlers
    BY DEF Handlers, ClientWrites
  <2>2. start \in Ops /\ start.h = "startDataTransfer"
    BY <1>2, <2>1, NextOp
  <2>3. refuse \in Ops /\ refuse.h = "addConnection"
    BY <1>2, <2>1, NextOp
  <2> HIDE DEF start, refuse
  <2> QED  BY <2>2, <2>3
<1>4. CASE Crash
  BY <1>4, CrashIInv
<1>5. CASE Proceed(i, {start})
  <2> HIDE DEF start
  <2> QED  BY <1>1, <1>3, <1>5, ProceedOneIInv
<1>6. CASE /\ remote' = [remote EXCEPT ![Session(i)] = "none"]
           /\ UNCHANGED <<alive, pool, pool_size, resolved_hosts, peer, client>>
           /\ Begin(i, {refuse})
  <2> HIDE DEF refuse
  <2>1. /\ PoolTypeOK' /\ PoolSound' /\ resolved_hosts' \subseteq Hosts
        /\ \A d \in Conns : Held(d) => Held(d)'
    BY <1>6, IInvParts DEF PoolTypeOK, PoolSound, Open, TypeOK, Held, ToSet
  <2>2. RemoteTypeOK'
    BY <1>6, IInvParts DEF RemoteTypeOK
  <2> QED  BY <1>1, <1>3, <1>6, <2>1, <2>2, FS_Singleton, HandlerEnds
<1> QED
  BY <1>4, <1>5, <1>6 DEF sendServerResponse

\* getDomainName preserves the invariant: the connection it drops is closed but
\* does not enter the pool.
LEMMA getDomainNameIInv ==
  ASSUME IInv, NEW i \in DOMAIN ready, getDomainName(i)
  PROVE  IInv'
<1>1. ready[i].op.h # "accept" /\ Conn(i) \in Conns
  BY IInvParts, EntryTypes DEF getDomainName, Runs
<1>2. CASE GiveUp(i)
  BY <1>1, <1>2, GiveUpIInv
<1>3. CASE /\ \E host \in Hosts :
                resolved_hosts' = resolved_hosts \cup {host}
           /\ \/ UNCHANGED <<peer, client>>
              \/ /\ Open(Conn(i))
                 /\ peer' = [peer EXCEPT ![Conn(i)] = NoClient]
                 /\ client' = [client EXCEPT ![peer[Conn(i)]] =
                                               Dropped(peer[Conn(i)])]
           /\ UNCHANGED <<alive, pool, pool_size, remote>>
           /\ Begin(i, {})
  <2>1. PoolTypeOK /\ RemoteTypeOK /\ PoolSound /\ resolved_hosts \subseteq Hosts
    BY IInvParts DEF TypeOK
  <2>2. Dropped(peer[Conn(i)]) \in {"idle", "gone"}
    BY DEF Dropped
  <2>3. PoolTypeOK'
    <3> HIDE DEF Dropped
    <3>1. client' \in
            [Clients -> {"idle", "backlog", "up", "fin", "rst", "gone"}]
      BY <1>3, <2>1, <2>2 DEF PoolTypeOK
    <3> QED  BY <1>3, <2>1, <3>1 DEF PoolTypeOK
  <2>4. \A c \in Conns : ~Open(c) => ~Open(c)'
    BY <1>1, <1>3, <2>1 DEF Open, PoolTypeOK
  <2>5. \A k \in DOMAIN pool : pool[k] \in Conns
    BY <2>1, LenProperties, ElementOfSeq DEF PoolTypeOK
  <2>6. PoolSound'
    BY <1>3, <2>1, <2>4, <2>5 DEF PoolSound, Open
  <2>7. \A d \in Conns : Held(d) => Held(d)'
    BY <1>3, <2>4 DEF Held, ToSet
  <2>8. RemoteTypeOK' /\ resolved_hosts' \subseteq Hosts
    BY <1>3, <2>1 DEF RemoteTypeOK
  <2> QED  BY <1>1, <1>3, <2>3, <2>6, <2>7, <2>8, FS_EmptySet, HandlerEnds
<1> QED
  BY <1>2, <1>3 DEF getDomainName

\* The handlers of the relay preserve the invariant: they start the operations
\* next, or hang up.
LEMMA RelayIInv ==
  ASSUME IInv, NEW i \in DOMAIN ready, NEW h, h # "accept",
         NEW a \in Handlers \ {"accept"}, NEW b \in Handlers \ {"accept"},
         NEW next, next = {a, b}, Relay(i, h, next)
  PROVE  IInv'
<1> DEFINE started == {Op(n, Conn(i), Session(i)) : n \in next}
<1>1. ready[i].op.h # "accept"
  BY DEF Relay, Runs
<1>2. started \in SUBSET Ops /\ \A o \in started : o.h # "accept"
  BY NextOp
<1>3. IsFiniteSet(started)
  <2>1. started = {Op(a, Conn(i), Session(i)), Op(b, Conn(i), Session(i))}
    OBVIOUS
  <2> HIDE DEF started
  <2> QED  BY <2>1, PairFinite
<1>4. CASE Proceed(i, started)
  <2> HIDE DEF started
  <2> QED  BY <1>1, <1>2, <1>3, <1>4, ProceedIInv
<1>5. CASE HangUp(i)
  BY <1>1, <1>5, HangUpIInv
<1> QED
  BY <1>4, <1>5 DEF Relay

\* The handlers of the relay.
LEMMA RelayingIInv ==
  ASSUME IInv, NEW i \in DOMAIN ready,
         \/ startDataTransfer(i) \/ sendDataToServer(i)
         \/ recvDataFromClient(i) \/ sendDataToClient(i)
         \/ recvDataFromServer(i)
  PROVE  IInv'
<1>1. UpLoop \cup DownLoop \subseteq Handlers \ {"accept"}
  BY DEF UpLoop, DownLoop, Handlers, ClientReads, ClientWrites, RemoteReads,
         RemoteWrites
<1>2. ASSUME NEW h, h # "accept", NEW a \in UpLoop \cup DownLoop,
             Relay(i, h, {a})
      PROVE  IInv'
  BY <1>1, <1>2, RelayIInv, {a} = {a, a}
<1>3. CASE startDataTransfer(i)
  BY <1>1, <1>3, RelayIInv DEF startDataTransfer, UpLoop, DownLoop
<1>4. CASE sendDataToServer(i)
  BY <1>2, <1>4 DEF sendDataToServer, UpLoop
<1>5. CASE recvDataFromClient(i)
  BY <1>2, <1>5 DEF recvDataFromClient, UpLoop
<1>6. CASE sendDataToClient(i)
  BY <1>2, <1>6 DEF sendDataToClient, DownLoop
<1>7. CASE recvDataFromServer(i)
  BY <1>2, <1>7 DEF recvDataFromServer, DownLoop
<1> QED
  BY <1>3, <1>4, <1>5, <1>6, <1>7

\* Every handler preserves the invariant.
LEMMA HandlerIInv ==
  ASSUME IInv, NEW i \in DOMAIN ready, Handler(i)
  PROVE  IInv'
<1>1. CASE replyWritten(i)
  <2>1. ready[i].op.h # "accept" /\ GiveUp(i)
    BY <1>1 DEF replyWritten, Runs
  <2> QED  BY <2>1, GiveUpIInv
<1>2. CASE continueTransfer(i) /\ Crash
  BY <1>2, CrashIInv
<1>3. CASE continueTransfer(i) /\ ~Crash
  <2>1. ready[i].op \in Ops
    BY IInvParts, EntryTypes
  <2>2. ready[i].op.h # "accept" /\ Proceed(i, {ready[i].op})
    BY <1>3 DEF continueTransfer, Runs, Composed, ClientReads, ClientWrites,
                RemoteWrites
  <2> QED  BY <2>1, <2>2, ProceedOneIInv
<1> QED
  BY <1>1, <1>2, <1>3, acceptConnectionIInv, HandshakeIInv, readIPv4AddressIInv,
     getDomainNameIInv, sendServerResponseIInv, RelayingIInv DEF Handler

-----------------------------------------------------------------------------
(***************************************************************************)
(* The network.                                                            *)
(***************************************************************************)

\* Posting the pending operation o, q being the operation as it is posted.
LEMMA PostEffect ==
  ASSUME TypeOK, NEW o \in pending, NEW q \in Ops, q.h = o.h, q.c = o.c,
         NEW e \in Results,
         pending' = pending \ {o},
         ready' = Append(ready, [op |-> q, ec |-> e])
  PROVE  /\ pending' \in SUBSET Ops /\ IsFiniteSet(pending')
         /\ ready' \in Seq(Entries)
         /\ \A c : AcceptOn(c) => AcceptOn(c)'
<1>1. /\ ready \in Seq(Entries) /\ Len(ready) \in Nat
      /\ DOMAIN ready = 1 .. Len(ready)
  BY LenProperties DEF TypeOK, Entries
<1>2. [op |-> q, ec |-> e] \in Entries
  BY DEF Entries
<1>3. /\ ready' \in Seq(Entries)
      /\ Len(ready') = Len(ready) + 1
      /\ \A k \in 1 .. Len(ready) : ready'[k] = ready[k]
      /\ ready'[Len(ready) + 1] = [op |-> q, ec |-> e]
  BY <1>1, <1>2, AppendProperties
<1>4. DOMAIN ready' = 1 .. (Len(ready) + 1)
  BY <1>3, LenProperties
<1>5. pending' \in SUBSET Ops /\ IsFiniteSet(pending')
  BY FS_RemoveElement DEF TypeOK
<1>6. ASSUME NEW c, AcceptOn(c)
      PROVE  AcceptOn(c)'
  <2>1. CASE o.h = "accept"
    <3>1. /\ o.c = c /\ \A p \in pending : p.h = "accept" => p = o
          /\ \A k \in DOMAIN ready : ready[k].op.h # "accept"
      BY <1>6, <2>1 DEF AcceptOn
    <3>2. \A p \in pending' : p.h # "accept"
      BY <3>1
    <3>3. \A k \in DOMAIN ready' :
            ready'[k].op.h = "accept" => k = Len(ready) + 1
      BY <1>1, <1>3, <1>4, <3>1
    <3>4. /\ Len(ready) + 1 \in DOMAIN ready'
          /\ ready'[Len(ready) + 1].op = q
      BY <1>1, <1>3, <1>4
    <3> QED  BY <2>1, <3>1, <3>2, <3>3, <3>4 DEF AcceptOn, Conn
  <2>2. CASE o.h # "accept"
    <3>1. \A k \in DOMAIN ready' :
            ready'[k].op.h = "accept" =>
              k \in DOMAIN ready /\ ready'[k] = ready[k]
      BY <1>1, <1>3, <1>4, <2>2
    <3>2. \A k \in DOMAIN ready : k \in DOMAIN ready' /\ ready'[k] = ready[k]
      BY <1>1, <1>3, <1>4
    <3>3. CASE \A k \in DOMAIN ready : ready[k].op.h # "accept"
      <4>1. \A k \in DOMAIN ready' : ready'[k].op.h # "accept"
        BY <3>1, <3>3
      <4>2. PICK p \in pending : /\ p.h = "accept" /\ p.c = c
                                /\ \A r \in pending : r.h = "accept" => r = p
        BY <1>6, <3>3 DEF AcceptOn
      <4>3. p \in pending' /\ \A r \in pending' : r.h = "accept" => r = p
        BY <2>2, <4>2
      <4> QED  BY <4>1, <4>2, <4>3 DEF AcceptOn
    <3>4. CASE \E k \in DOMAIN ready : ready[k].op.h = "accept"
      <4>1. \A p \in pending' : p.h # "accept"
        BY <1>6, <3>4 DEF AcceptOn
      <4>2. PICK k \in DOMAIN ready :
              /\ ready[k].op.h = "accept" /\ ready[k].op.c = c
              /\ \A j \in DOMAIN ready : ready[j].op.h = "accept" => j = k
        BY <1>6, <3>4 DEF AcceptOn, Conn
      <4>3. /\ k \in DOMAIN ready' /\ ready'[k] = ready[k]
            /\ \A j \in DOMAIN ready' : ready'[j].op.h = "accept" => j = k
        BY <3>1, <3>2, <4>2
      <4> QED  BY <4>1, <4>2, <4>3 DEF AcceptOn, Conn
    <3> QED  BY <3>3, <3>4
  <2> QED  BY <2>1, <2>2
<1> QED
  BY <1>3, <1>5, <1>6

ClientTypeOK ==
  client \in [Clients -> {"idle", "backlog", "up", "fin", "rst", "gone"}]

\* A step of the environment, which leaves the pool and its connections alone.
LEMMA EnvironmentIInv ==
  ASSUME IInv, ClientTypeOK', RemoteTypeOK',
         UNCHANGED <<alive, pool, pool_size, resolved_hosts, peer>>,
         pending' \in SUBSET Ops, IsFiniteSet(pending'),
         ready' \in Seq(Entries),
         \A c : AcceptOn(c) => AcceptOn(c)',
         Stopped'
  PROVE  IInv'
<1>1. TypeOK'
  BY DEF IInv, TypeOK, ClientTypeOK, RemoteTypeOK, Entries
<1>2. PoolSound'
  BY DEF IInv, PoolSound, Open
<1>3. AcceptArmed'
  BY DEF IInv, AcceptArmed, Open, ToSet
<1> QED
  BY <1>1, <1>2, <1>3 DEF IInv

\* Posting an operation, with whatever client it was accepted for, preserves
\* the invariant: an accept stays the only one in flight.
LEMMA PostIInv ==
  ASSUME IInv, NEW o \in pending, NEW q \in Ops, q.h = o.h, q.c = o.c,
         NEW e \in Results,
         pending' = pending \ {o},
         ready' = Append(ready, [op |-> q, ec |-> e]),
         ClientTypeOK', RemoteTypeOK',
         UNCHANGED <<alive, pool, pool_size, resolved_hosts, peer>>
  PROVE  IInv'
<1>1. /\ pending' \in SUBSET Ops /\ IsFiniteSet(pending')
      /\ ready' \in Seq(Entries)
      /\ \A c : AcceptOn(c) => AcceptOn(c)'
  BY IInvParts, PostEffect
<1>2. alive
  BY DEF IInv, Stopped
<1>3. Stopped'
  BY <1>2 DEF Stopped
<1> QED
  BY <1>1, <1>3, EnvironmentIInv

\* The reactor preserves the invariant when it completes an operation,
LEMMA CompleteIInv ==
  ASSUME IInv, NEW o \in pending, Complete(o)
  PROVE  IInv'
<1>1. PICK e \in Outcomes(o) :
        /\ Post(o, e)
        /\ remote' = IF o.h = "sendServerResponse"
                     THEN [remote EXCEPT ![o.s] = IF e = "ok" THEN "up"
                                                              ELSE "failed"]
                     ELSE remote
  BY DEF Complete
<1>2. e \in Results
  <2>1. Transfer(o) \subseteq {"ok", "err"} \cup ConnectErrors
    BY DEF Transfer, Readable, Writable
  <2>2. Outcomes(o) \subseteq {"ok", "err", "more"} \cup ConnectErrors
    BY <2>1 DEF Outcomes
  <2> QED  BY <2>2, ConstantsAssumption DEF Results
<1>3. o \in Ops
  BY DEF IInv, TypeOK
<1>4. ClientTypeOK' /\ RemoteTypeOK'
  BY <1>1 DEF IInv, TypeOK, ClientTypeOK, RemoteTypeOK, Complete
<1>5. UNCHANGED <<alive, pool, pool_size, resolved_hosts, peer>>
  BY DEF Complete
<1> QED
  BY <1>1, <1>2, <1>3, <1>4, <1>5, PostIInv DEF Post

\* when the acceptor gets a client,
LEMMA AcceptClientIInv ==
  ASSUME IInv, NEW s \in Clients, AcceptClient(s)
  PROVE  IInv'
<1>1. PICK o \in pending :
        /\ pending' = pending \ {o}
        /\ ready' = Append(ready, [op |-> [o EXCEPT !.s = s], ec |-> "ok"])
  BY DEF AcceptClient
<1>2. /\ [o EXCEPT !.s = s] \in Ops
      /\ [o EXCEPT !.s = s].h = o.h /\ [o EXCEPT !.s = s].c = o.c
  BY DEF IInv, TypeOK, Ops
<1>3. ClientTypeOK' /\ RemoteTypeOK'
  BY DEF IInv, TypeOK, ClientTypeOK, RemoteTypeOK, AcceptClient
<1>4. UNCHANGED <<alive, pool, pool_size, resolved_hosts, peer>>
  BY DEF AcceptClient
<1>5. "ok" \in Results
  BY DEF Results
<1> QED
  BY <1>1, <1>2, <1>3, <1>4, <1>5, PostIInv

\* and when it reports an error.
LEMMA AcceptFailsIInv ==
  ASSUME IInv, AcceptFails
  PROVE  IInv'
<1>1. PICK o \in pending : Post(o, "err")
  BY DEF AcceptFails
<1>2. o \in Ops /\ "err" \in Results
  BY DEF IInv, TypeOK, Results
<1>3. ClientTypeOK' /\ RemoteTypeOK'
  BY DEF IInv, TypeOK, ClientTypeOK, RemoteTypeOK, AcceptFails
<1>4. UNCHANGED <<alive, pool, pool_size, resolved_hosts, peer>>
  BY DEF AcceptFails
<1> QED
  BY <1>1, <1>2, <1>3, <1>4, PostIInv DEF Post

\* Clients come, and clients and remotes leave.
LEMMA FarEndIInv ==
  ASSUME IInv, NEW s \in Clients,
         Connect(s) \/ ClientLeaves(s) \/ RemoteLeaves(s)
  PROVE  IInv'
<1>1. /\ UNCHANGED <<alive, pool, pool_size, resolved_hosts, peer, pending,
                     ready>>
  BY DEF Connect, ClientLeaves, RemoteLeaves
<1>2. ClientTypeOK' /\ RemoteTypeOK'
  BY DEF IInv, TypeOK, ClientTypeOK, RemoteTypeOK, Connect, ClientLeaves,
         RemoteLeaves, Leaves
<1>3. /\ pending' \in SUBSET Ops /\ IsFiniteSet(pending')
      /\ ready' \in Seq(Entries) /\ Stopped'
  BY <1>1 DEF IInv, TypeOK, Entries, Stopped
<1>4. \A c : AcceptOn(c) => AcceptOn(c)'
  BY <1>1 DEF AcceptOn, Conn
<1> QED
  BY <1>1, <1>2, <1>3, <1>4, EnvironmentIInv

-----------------------------------------------------------------------------
(***************************************************************************)
(* The theorems.                                                           *)
(***************************************************************************)
\* The invariant is inductive.
LEMMA NextIInv == IInv /\ [Next]_vars => IInv'
<1> SUFFICES ASSUME IInv, [Next]_vars
             PROVE  IInv'
  OBVIOUS
<1>1. ASSUME NEW i \in DOMAIN ready, Handler(i)
      PROVE  IInv'
  BY <1>1, HandlerIInv
<1>2. ASSUME NEW o \in pending, Complete(o)
      PROVE  IInv'
  BY <1>2, CompleteIInv
<1>3. CASE Network
  BY <1>3, AcceptFailsIInv, AcceptClientIInv, FarEndIInv DEF Network
<1>4. CASE UNCHANGED vars
  BY <1>4 DEF vars, IInv, TypeOK, PoolSound, AcceptArmed, Stopped, AcceptOn,
              Open, Conn, ToSet
<1> QED
  BY <1>1, <1>2, <1>3, <1>4 DEF Next

\* The invariant the three theorems below rest on holds in every reachable
\* state of the proxy.
THEOREM Inductive == Spec => []IInv
<1> QED
  BY InitIInv, NextIInv, PTL DEF Spec

\* Every variable keeps its type; in particular no index, counter or code the
\* handlers compute leaves its range.
THEOREM TypeCorrect == Spec => []TypeOK
<1>1. IInv => TypeOK
  BY DEF IInv
<1> QED
  BY Inductive, <1>1, PTL

\* However sessions end, in whatever order their handlers run and whoever
\* they cut off, the pool never holds a connection twice or an open one, and
\* its counter is right.
THEOREM PoolIsSound == Spec => []PoolSound
<1>1. IInv => PoolSound
  BY DEF IInv
<1> QED
  BY Inductive, <1>1, PTL

\* Exactly one accept is in flight as long as the proxy lives, for a
\* connection that is closed and out of the pool.
THEOREM AlwaysAccepting == Spec => []AcceptArmed
<1>1. IInv => AcceptArmed
  BY DEF IInv
<1> QED
  BY Inductive, <1>1, PTL
=============================================================================
