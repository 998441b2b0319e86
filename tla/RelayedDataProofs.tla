------------------------- MODULE RelayedDataProofs -------------------------
(***************************************************************************)
(* That the relay loses no byte, mixes none up and doubles none.           *)
(*                                                                         *)
(* For any clients, connections, inputs and faults and in any order of the *)
(* handlers: what is read of an end is handed on or the rest of the last   *)
(* read, and no buffer is read into while it has such a rest; and when the *)
(* queue is first in, first out, the handler that finds an end gone comes  *)
(* after its last byte was handed on.                                      *)
(*                                                                         *)
(* When, besides, nobody resets a connection, each end is handed what the  *)
(* other sent, in order: RelayedData implements Stream.                    *)
(***************************************************************************)
EXTENDS RelayedData, Socks5OwnerProofs

\* What is pending is like an entry that has more to do.
Underway == {[op |-> o, ec |-> "more"] : o \in pending}
              \cup {ready[i] : i \in DOMAIN ready}

\* x finds, or leaves, the buffer of its direction written to the end,
Free(x) == \/ x.op.h \in RelayReads /\ x.ec # "ok"
           \/ x.op.h \in RelayWrites /\ x.ec = "ok"

\* or it has bytes in it that are still to be written.
Full(x) == \/ x.op.h \in RelayReads /\ x.ec = "ok"
           \/ x.op.h \in RelayWrites /\ x.ec = "more"

\* The handler run from x starts o: the session shakes hands, begins to relay,
\* or goes on with the buffer as x left it.
Continues(x, o) ==
  /\ o.h # "accept" => o.s = x.op.s /\ o.c = x.op.c
  /\ o.h \notin Loops \cup {"accept"} => x.op.h \notin Loops
  /\ o.h \in Loops =>
       \/ o.h \in RelayReads /\ x.op.h \notin Loops \cup {"accept"}
       \/ /\ o.h \in RelayReads /\ x.op.h \in RelayWrites
          /\ x.ec = "ok" /\ Way(o) = Way(x.op)
       \/ /\ o.h \in RelayWrites /\ x.op.h \in RelayReads
          /\ x.ec = "ok" /\ Way(o) = Way(x.op)
       \/ o = x.op /\ x.ec = "more"

\* The remote socket of the session of entry i is held by another operation.
HeldOn(i, started) ==
  \E o \in Others(i) \cup started : o.s = Session(i) /\ o.h \in RemoteHolders

\* What the handler of entry i does, as far as the bytes are concerned.
Steps(i, started) ==
  /\ started \in SUBSET Ops /\ IsFiniteSet(started)
  /\ Begin(i, started)
  /\ \A o \in started : Continues(ready[i], o)
  /\ \A t \in Clients \ {Session(i)} : remote'[t] = remote[t]
  /\ \/ remote'[Session(i)] = "none"
     \/ HeldOn(i, started)
     \/ ready[i].op.h \notin RemoteHolders /\ remote' = remote
  /\ \A t \in Clients : /\ client'[t] = "fin" => client[t] = "fin"
                        /\ remote'[t] = "fin" => remote[t] = "fin"
  /\ \A c \in Conns : \/ peer'[c] \in {peer[c], NoClient}
                      \/ ready[i].op.h = "accept" /\ peer'[c] = Session(i)

-----------------------------------------------------------------------------
(***************************************************************************)
(* Every handler does one of these steps, or ends the process.             *)
(***************************************************************************)

\* Dropping a client is not its leaving.
LEMMA addConnectionSteps ==
  ASSUME TypeOK, NEW c \in Conns, addConnection(c)
  PROVE  /\ \A t \in Clients : client'[t] = "fin" => client[t] = "fin"
         /\ \A d \in Conns : peer'[d] \in {peer[d], NoClient}
BY DEF addConnection, Dropped, TypeOK

\* A session is given up.
LEMMA GiveUpSteps ==
  ASSUME TypeOK, NEW i \in DOMAIN ready, GiveUp(i),
         ready[i].op.h \notin RemoteHolders
  PROVE  Steps(i, {})
<1>1. Conn(i) \in Conns
  BY EntryTypes
<1> QED
  BY <1>1, addConnectionSteps, FS_EmptySet DEF GiveUp, Steps

LEMMA HangUpSteps ==
  ASSUME TypeOK, NEW i \in DOMAIN ready, HangUp(i), Session(i) \in Clients
  PROVE  Steps(i, {})
<1>1. Conn(i) \in Conns
  BY EntryTypes
<1>2. /\ \A t \in Clients \ {Session(i)} : remote'[t] = remote[t]
      /\ remote'[Session(i)] = "none" \/ HeldOn(i, {})
      /\ \A t \in Clients : remote'[t] = "fin" => remote[t] = "fin"
  BY DEF HangUp, closeRemote, HeldOn, TypeOK
<1> QED
  BY <1>1, <1>2, addConnectionSteps, FS_EmptySet DEF HangUp, Steps

\* A session goes on, and nothing else changes.
LEMMA ProceedSteps ==
  ASSUME TypeOK, NEW i \in DOMAIN ready,
         NEW started \in SUBSET Ops, IsFiniteSet(started),
         Proceed(i, started),
         \A o \in started : Continues(ready[i], o),
         \/ ready[i].op.h \notin RemoteHolders
         \/ \E o \in started : o.s = Session(i) /\ o.h \in RemoteHolders
  PROVE  Steps(i, started)
BY DEF Proceed, Steps, HeldOn

\* The same with one operation, of the handshake.
LEMMA ProceedOneSteps ==
  ASSUME IInv, NEW i \in DOMAIN ready,
         ready[i].op.h \notin RemoteHolders,
         NEW h \in Handlers \ (Loops \cup {"accept"}),
         NEW a \in Replies \cup {"none", "excess"},
         Proceed(i, {OpArg(h, Conn(i), Session(i), a)})
  PROVE  \E started \in SUBSET Ops : Steps(i, started)
<1> DEFINE o == OpArg(h, Conn(i), Session(i), a)
           started == {o}
<1>1. o \in Ops /\ o.h = h /\ o.c = Conn(i) /\ o.s = Session(i)
  BY NextOfSession
<1>2. TypeOK /\ Proceed(i, started)
  BY IInvParts
<1> HIDE DEF o
<1>3. started \in SUBSET Ops /\ IsFiniteSet(started)
  BY <1>1, FS_Singleton
<1>4. Continues(ready[i], o)
  BY <1>1 DEF Continues, Conn, Session, Loops, RemoteHolders
<1>5. \A p \in started : Continues(ready[i], p)
  BY <1>4
<1> HIDE DEF started
<1> QED
  BY <1>2, <1>3, <1>5, ProceedSteps

\* The accept's handler starts the next accept and, when it has a client, the
\* reading of its greeting.
LEMMA acceptConnectionSteps ==
  ASSUME IInv, NEW i \in DOMAIN ready, acceptConnection(i), ~Crash
  PROVE  \E started \in SUBSET Ops : Steps(i, started)
<1>0. /\ ready[i].op.h = "accept" /\ TypeOK
      /\ Conn(i) \in Conns /\ Session(i) \in Clients \cup {NoClient}
      /\ peer \in [Conns -> Clients \cup {NoClient}]
  BY IInvParts, EntryTypes DEF acceptConnection, Runs, TypeOK
<1>1. PICK c, started :
        /\ Begin(i, started) /\ c \in Conns
        /\ \/ started = {Accept(c)} /\ peer' = peer
           \/ /\ started = {Op("readAuthMethods", Conn(i), Session(i)), Accept(c)}
              /\ peer' = [peer EXCEPT ![Conn(i)] = Session(i)]
        /\ client' = client /\ remote' = remote
  BY DEF acceptConnection
<1> DEFINE next == Accept(c)
           first == Op("readAuthMethods", Conn(i), Session(i))
<1>2. /\ next \in Ops /\ next.h = "accept"
      /\ first \in Ops /\ first.h = "readAuthMethods"
      /\ first.s = Session(i) /\ first.c = Conn(i)
  BY <1>0, <1>1 DEF Accept, Op, OpArg, Ops, Handlers, ClientReads
<1>3. started = {next, next} \/ started = {first, next}
  BY <1>1
<1> HIDE DEF next, first
<1>4. started \in SUBSET Ops /\ IsFiniteSet(started)
  BY <1>2, <1>3, PairFinite
<1>5. Continues(ready[i], next) /\ Continues(ready[i], first)
  BY <1>0, <1>2, HandlerNames
     DEF Continues, Conn, Session, Loops, UpLoop, DownLoop
<1>6. \A o \in started : Continues(ready[i], o)
  BY <1>3, <1>5
<1>7. \A d \in Conns : peer'[d] = peer[d] \/ peer'[d] = Session(i)
  BY <1>0, <1>1
<1>8. ready[i].op.h \notin RemoteHolders
  BY <1>0 DEF RemoteHolders, UpLoop, DownLoop
<1> QED
  BY <1>0, <1>1, <1>4, <1>6, <1>7, <1>8 DEF Steps

\* The handlers of the handshake.
LEMMA HandshakeSteps ==
  ASSUME IInv, SInv, NEW i \in DOMAIN ready,
         \/ readAuthMethods(i) \/ sendServerChoice(i)
         \/ handleConnectionRequest(i) \/ readAddressType(i)
         \/ handleAddress(i) \/ getDomainLength(i) \/ readIPv4Address(i)
         \/ replyWritten(i)
  PROVE  \E started \in SUBSET Ops : Steps(i, started)
<1>1. ready[i].op.h \notin RemoteHolders \cup {"accept"} /\ TypeOK
  BY IInvParts
     DEF readAuthMethods, sendServerChoice, handleConnectionRequest,
         readAddressType, handleAddress, getDomainLength, readIPv4Address,
         replyWritten, Runs, RemoteHolders, UpLoop, DownLoop
<1> DEFINE Next1 ==
      {"sendServerChoice", "handleConnectionRequest", "readAddressType",
       "handleAddress", "readIPv4Address", "getDomainLength",
       "getDomainName"}
<1>2. Next1 \cup {"sendServerResponse"} \subseteq Handlers \ (Loops \cup {"accept"})
  BY DEF Handlers, ClientReads, ClientWrites, Loops, UpLoop, DownLoop
<1>3. ASSUME NEW h \in Next1, NEW a \in {"none", "excess"},
             Proceed(i, {OpArg(h, Conn(i), Session(i), a)})
      PROVE  \E started \in SUBSET Ops : Steps(i, started)
  <2> HIDE DEF Next1
  <2>1. /\ h \in Handlers \ (Loops \cup {"accept"})
        /\ a \in Replies \cup {"none", "excess"}
    BY <1>2, <1>3
  <2> QED  BY <1>1, <1>3, <2>1, ProceedOneSteps
<1>4. ASSUME NEW h \in Next1, Proceed(i, {Op(h, Conn(i), Session(i))})
      PROVE  \E started \in SUBSET Ops : Steps(i, started)
  BY <1>3, <1>4 DEF Op
<1>5. ASSUME GiveUp(i)
      PROVE  \E started \in SUBSET Ops : Steps(i, started)
  BY <1>1, <1>5, GiveUpSteps
<1>6. CASE readAuthMethods(i)
  BY <1>3, <1>5, <1>6 DEF readAuthMethods
<1>7. CASE sendServerChoice(i)
  BY <1>4, <1>5, <1>7 DEF sendServerChoice
<1>8. CASE handleConnectionRequest(i)
  BY <1>4, <1>5, <1>8 DEF handleConnectionRequest
<1>9. CASE readAddressType(i)
  BY <1>4, <1>5, <1>9 DEF readAddressType
<1>10. CASE handleAddress(i)
  BY <1>4, <1>5, <1>10 DEF handleAddress
<1>11. CASE getDomainLength(i)
  BY <1>3, <1>5, <1>11 DEF getDomainLength
<1>12. CASE readIPv4Address(i)
  <2>1. CASE /\ remote' = [remote EXCEPT ![Session(i)] = "connecting"]
             /\ UNCHANGED <<alive, pool, pool_size, resolved_hosts, peer, client>>
             /\ Begin(i, {Op("sendServerResponse", Conn(i), Session(i))})
    <3> DEFINE o == Op("sendServerResponse", Conn(i), Session(i))
               started == {o}
    <3>1. /\ o \in Ops /\ o.h = "sendServerResponse"
          /\ o.c = Conn(i) /\ o.s = Session(i)
      BY <1>2, NextOfSession DEF Op
    <3>2. Begin(i, started)
      BY <2>1
    <3> HIDE DEF o
    <3>3. started \in SUBSET Ops /\ IsFiniteSet(started) /\ o \in started
      BY <3>1, FS_Singleton
    <3>4. Continues(ready[i], o)
      BY <1>1, <1>2, <3>1 DEF Continues, Conn, Session, Loops, RemoteHolders
    <3>5. \A p \in started : Continues(ready[i], p)
      BY <3>4
    <3> HIDE DEF started
    <3>6. HeldOn(i, started)
      BY <3>1, <3>3 DEF HeldOn, RemoteHolders
    <3>7. /\ \A t \in Clients \ {Session(i)} : remote'[t] = remote[t]
          /\ \A t \in Clients : remote'[t] = "fin" => remote[t] = "fin"
      BY <1>1, <2>1 DEF TypeOK
    <3> QED  BY <2>1, <3>2, <3>3, <3>5, <3>6, <3>7 DEF Steps
  <2> QED  BY <1>5, <1>12, <2>1 DEF readIPv4Address
<1> QED
  BY <1>5, <1>6, <1>7, <1>8, <1>9, <1>10, <1>11, <1>12 DEF replyWritten

\* A domain name ends the session.
LEMMA getDomainNameSteps ==
  ASSUME IInv, NEW i \in DOMAIN ready, getDomainName(i)
  PROVE  \E started \in SUBSET Ops : Steps(i, started)
<1>1. ready[i].op.h \notin RemoteHolders /\ TypeOK
  BY IInvParts DEF getDomainName, Runs, RemoteHolders, UpLoop, DownLoop
<1>2. CASE GiveUp(i)
  BY <1>1, <1>2, GiveUpSteps
<1>3. CASE /\ Begin(i, {}) /\ remote' = remote
           /\ IF Open(Conn(i)) /\ \A o \in Others(i) : o.c # Conn(i)
              THEN /\ peer' = [peer EXCEPT ![Conn(i)] = NoClient]
                   /\ client' = [client EXCEPT ![peer[Conn(i)]] =
                                               Dropped(peer[Conn(i)])]
              ELSE UNCHANGED <<peer, client>>
  <2>1. /\ \A t \in Clients : client'[t] = "fin" => client[t] = "fin"
        /\ \A d \in Conns : peer'[d] \in {peer[d], NoClient}
    BY <1>1, <1>3 DEF Dropped, TypeOK
  <2> QED  BY <1>1, <1>3, <2>1, FS_EmptySet DEF Steps
<1> QED
  BY <1>2, <1>3 DEF getDomainName

\* After the connect the session goes on with its reply.
LEMMA sendServerResponseSteps ==
  ASSUME IInv, SInv, NEW i \in DOMAIN ready, sendServerResponse(i), ~Crash
  PROVE  \E started \in SUBSET Ops : Steps(i, started)
<1> DEFINE reply == getConnectionError(ready[i].ec)
           Reply(h) == OpArg(h, Conn(i), Session(i), reply)
<1>1. /\ ready[i].op.h = "sendServerResponse" /\ TypeOK
      /\ Session(i) \in Clients
  BY IInvParts, ClientsHandler DEF sendServerResponse, Runs
<1>2. reply \in Replies
  BY DEF getConnectionError, Replies
<1>3. {"startDataTransfer", "addConnection"} \subseteq
        Handlers \ (Loops \cup {"accept"})
  BY DEF Handlers, ClientWrites, Loops, UpLoop, DownLoop
<1>4. \/ Proceed(i, {Reply("startDataTransfer")})
      \/ /\ remote' = [remote EXCEPT ![Session(i)] = "none"]
         /\ UNCHANGED <<alive, pool, pool_size, resolved_hosts, peer, client>>
         /\ Begin(i, {Reply("addConnection")})
  BY DEF sendServerResponse
<1> HIDE DEF reply
<1>5. ASSUME NEW h \in {"startDataTransfer", "addConnection"}
      PROVE  /\ Reply(h) \in Ops /\ Reply(h).h = h
             /\ Reply(h).s = Session(i) /\ Reply(h).c = Conn(i)
  BY <1>2, <1>3, NextOfSession
<1> HIDE DEF Reply
<1>6. ASSUME NEW h \in {"startDataTransfer", "addConnection"}
      PROVE  /\ {Reply(h)} \in SUBSET Ops /\ IsFiniteSet({Reply(h)})
             /\ \A o \in {Reply(h)} : Continues(ready[i], o)
  BY <1>1, <1>3, <1>5, FS_Singleton
     DEF Continues, Conn, Session, Loops, UpLoop, DownLoop
<1>7. CASE Proceed(i, {Reply("startDataTransfer")})
  <2>1. \E o \in {Reply("startDataTransfer")} :
          o.s = Session(i) /\ o.h \in RemoteHolders
    BY <1>5 DEF RemoteHolders
  <2> QED  BY <1>1, <1>6, <1>7, <2>1, ProceedSteps
<1>8. CASE /\ remote' = [remote EXCEPT ![Session(i)] = "none"]
           /\ UNCHANGED <<alive, pool, pool_size, resolved_hosts, peer, client>>
           /\ Begin(i, {Reply("addConnection")})
  <2>1. /\ \A t \in Clients \ {Session(i)} : remote'[t] = remote[t]
        /\ remote'[Session(i)] = "none"
        /\ \A t \in Clients : remote'[t] = "fin" => remote[t] = "fin"
    BY <1>1, <1>8 DEF TypeOK
  <2>2. Steps(i, {Reply("addConnection")})
    BY <1>6, <1>8, <2>1 DEF Steps
  <2> QED  BY <1>6, <2>2
<1> QED
  BY <1>4, <1>7, <1>8

\* A handler of the relay.
LEMMA RelaySteps ==
  ASSUME IInv, SInv, NEW i \in DOMAIN ready,
         NEW h \in Loops \cup {"startDataTransfer"},
         NEW a \in Loops, NEW b \in Loops,
         Succeeded(i) => \A o : o.h \in {a, b} /\ o.s = Session(i) /\ o.c = Conn(i)
                                  => Continues(ready[i], o),
         NEW next, next = {a, b}, ready[i].op.h = h, Relay(i, h, next)
  PROVE  \E started \in SUBSET Ops : Steps(i, started)
<1> DEFINE o == Op(a, Conn(i), Session(i))
           p == Op(b, Conn(i), Session(i))
           started == {o, p}
<1>1. TypeOK /\ Session(i) \in Clients
  BY IInvParts, HandlerNames, ClientsHandler DEF Loops
<1>2. a \in Handlers \ {"accept"} /\ b \in Handlers \ {"accept"}
  BY HandlerNames DEF Loops
<1>3. /\ o \in Ops /\ o.h = a /\ o.s = Session(i) /\ o.c = Conn(i)
      /\ p \in Ops /\ p.h = b /\ p.s = Session(i) /\ p.c = Conn(i)
  BY <1>2, NextOfSession DEF Op
<1>4. {Op(n, Conn(i), Session(i)) : n \in next} = started
  OBVIOUS
<1> HIDE DEF o, p
<1>5. /\ started \in SUBSET Ops /\ IsFiniteSet(started)
      /\ \A q \in started : /\ q.s = Session(i) /\ q.c = Conn(i)
                            /\ q.h \in {a, b}
      /\ \E q \in started : q.s = Session(i) /\ q.h \in RemoteHolders
  BY <1>3, PairFinite DEF RemoteHolders, Loops
<1> HIDE DEF started
<1>6. CASE Succeeded(i) /\ Proceed(i, started)
  BY <1>1, <1>5, <1>6, ProceedSteps
<1>7. CASE HangUp(i)
  BY <1>1, <1>7, HangUpSteps
<1> QED
  BY <1>4, <1>6, <1>7 DEF Relay

LEMMA RelayingSteps ==
  ASSUME IInv, SInv, NEW i \in DOMAIN ready,
         \/ startDataTransfer(i) \/ sendDataToServer(i)
         \/ recvDataFromClient(i) \/ sendDataToClient(i)
         \/ recvDataFromServer(i)
  PROVE  \E started \in SUBSET Ops : Steps(i, started)
<1>1. ASSUME NEW h \in Loops, NEW a \in Loops, Relay(i, h, {a}),
             \/ h \in RelayReads /\ a \in RelayWrites
             \/ h \in RelayWrites /\ a \in RelayReads,
             h \in UpLoop <=> a \in UpLoop
      PROVE  \E started \in SUBSET Ops : Steps(i, started)
  <2>1. ready[i].op.h = h
    BY <1>1 DEF Relay, Runs
  <2>2. \A o : o.h = a /\ o.s = Session(i) /\ o.c = Conn(i) /\ Succeeded(i)
                 => Continues(ready[i], o)
    BY <1>1, <2>1, HandlerNames
       DEF Continues, Loops, Way, Succeeded, Session, Conn
  <2>3. {a} = {a, a} /\ h \in Loops \cup {"startDataTransfer"}
    BY <1>1
  <2>4. Succeeded(i) =>
          \A o : o.h \in {a, a} /\ o.s = Session(i) /\ o.c = Conn(i)
                  => Continues(ready[i], o)
    BY <2>2
  <2> QED  BY <1>1, <2>1, <2>3, <2>4, RelaySteps
<1>2. CASE startDataTransfer(i)
  <2>1. ready[i].op.h = "startDataTransfer"
    BY <1>2 DEF startDataTransfer, Relay, Runs
  <2>2. /\ "startDataTransfer" \notin Loops \cup {"accept"}
        /\ "sendDataToServer" \in Loops /\ "sendDataToServer" \in RelayReads
        /\ "sendDataToClient" \in Loops /\ "sendDataToClient" \in RelayReads
    BY DEF Loops, UpLoop, DownLoop, RelayReads
  <2>3. \A o : /\ o.h \in {"sendDataToServer", "sendDataToClient"}
               /\ o.s = Session(i) /\ o.c = Conn(i)
               => Continues(ready[i], o)
    BY <2>1, <2>2 DEF Continues, Session, Conn
  <2> DEFINE next == {"sendDataToServer", "sendDataToClient"}
  <2>4. Relay(i, "startDataTransfer", next)
    BY <1>2 DEF startDataTransfer
  <2>5. /\ "sendDataToServer" \in Loops /\ "sendDataToClient" \in Loops
        /\ "startDataTransfer" \in Loops \cup {"startDataTransfer"}
        /\ next = {"sendDataToServer", "sendDataToClient"}
    BY <2>2
  <2> HIDE DEF next
  <2> QED  BY <2>1, <2>3, <2>4, <2>5, RelaySteps
<1>3. CASE sendDataToServer(i)
  BY <1>1, <1>3 DEF sendDataToServer, Loops, UpLoop, RelayReads, RelayWrites
<1>4. CASE recvDataFromClient(i)
  BY <1>1, <1>4 DEF recvDataFromClient, Loops, UpLoop, RelayReads, RelayWrites
<1>5. CASE sendDataToClient(i)
  BY <1>1, <1>5
     DEF sendDataToClient, Loops, UpLoop, DownLoop, RelayReads, RelayWrites
<1>6. CASE recvDataFromServer(i)
  BY <1>1, <1>6
     DEF recvDataFromServer, Loops, UpLoop, DownLoop, RelayReads, RelayWrites
<1> QED
  BY <1>2, <1>3, <1>4, <1>5, <1>6

\* The rest of a message is the same operation again.
LEMMA continueTransferSteps ==
  ASSUME IInv, NEW i \in DOMAIN ready, continueTransfer(i), ~Crash
  PROVE  \E started \in SUBSET Ops : Steps(i, started)
<1> DEFINE o == ready[i].op
           started == {o}
<1>1. o.h # "accept" /\ Proceed(i, started) /\ ready[i].ec = "more"
  BY DEF continueTransfer, Runs, Composed, ClientReads, ClientWrites,
         RemoteWrites
<1>2. TypeOK /\ o \in Ops /\ o.s = Session(i)
  BY IInvParts, EntryTypes DEF Session
<1>3. started \in SUBSET Ops /\ IsFiniteSet(started)
  BY <1>2, FS_Singleton
<1>4. Continues(ready[i], o)
  BY <1>1 DEF Continues
<1> QED
  BY <1>1, <1>2, <1>3, <1>4, ProceedSteps

\* Every handler does one of these steps.
LEMMA HandlerSteps ==
  ASSUME IInv, SInv, NEW i \in DOMAIN ready, Handler(i)
  PROVE  Crash \/ \E started \in SUBSET Ops : Steps(i, started)
BY acceptConnectionSteps, HandshakeSteps, getDomainNameSteps,
   sendServerResponseSteps, RelayingSteps, continueTransferSteps DEF Handler

-----------------------------------------------------------------------------
(***************************************************************************)
(* What the bytes of a session and its operations have to do with each     *)
(* other, in any order of the handlers.                                    *)
(***************************************************************************)

\* The types, with those that TypeOKData leaves to its bounds.
TypesData == /\ TypeOKData
             /\ taken \in [Lines -> Nat] /\ done \in [Lines -> Nat]

\* What was handed on is what was taken, but for the rest of the last read.
Counted == \A l \in Lines : /\ length[l] <= taken[l]
                            /\ Len(got[l]) + length[l] = taken[l] + done[l]

\* Who is about to read has nothing left to write.
Settled ==
  \A x \in Underway : Free(x) => done[Line(x.op)] = length[Line(x.op)]

\* No byte is read before the session relays,
Untouched(s) == \A w \in Ways : taken[<<s, w>>] = 0
BeforeRelay ==
  \A o \in Ongoing :
    o.s \in Clients /\ o.h \notin Loops \cup {"accept"} => Untouched(o.s)

\* none is sent in a session without a remote socket,
NoneUntouched ==
  \A s \in Clients : remote[s] = "none" => \A w \in Ways : sent[<<s, w>>] = 0

\* whose remote socket goes with the last operation that holds it,
RemotesHeld ==
  \A s \in Clients :
    remote[s] # "none" => \E o \in Ongoing : o.s = s /\ o.h \in RemoteHolders

\* and an end counts as gone once all it has sent was read.
FinTaken ==
  \A s \in Clients :
    /\ client[s] = "fin" => taken[<<s, "up">>] = sent[<<s, "up">>]
    /\ remote[s] = "fin" => taken[<<s, "down">>] = sent[<<s, "down">>]

DInv == TypesData /\ Counted /\ Settled /\ BeforeRelay /\ NoneUntouched
          /\ RemotesHeld /\ FinTaken

\* An operation of the relay is of one direction.
LEMMA RelayNames ==
  /\ RelayReads \cup RelayWrites = Loops
  /\ RelayReads \cap RelayWrites = {}
BY DEF RelayReads, RelayWrites, Loops, UpLoop, DownLoop

\* The direction of an operation, and its buffer, are there.
LEMMA LineType ==
  ASSUME NEW o \in Ops
  PROVE  /\ o.s \in Clients => Line(o) \in Lines
         /\ Buffer(o) \in Conns \X Ways
BY DEF Line, Buffer, Lines, Ways, Way, Ops

\* Operations that are apart are not of the same direction.
LEMMA ApartLines ==
  ASSUME NEW o, NEW p, Apart(o, p), o.s \in Clients
  PROVE  Line(o) # Line(p)
<1>1. CASE o.s = p.s
  <2>1. Way(o) # Way(p)
    BY <1>1, DirectionsDiffer DEF Apart, Way
  <2> QED  BY <2>1 DEF Line
<1>2. CASE o.s # p.s
  BY <1>2 DEF Line
<1> QED
  BY <1>1, <1>2

\* What is under way after a handler was so before, is started, or aborted;
\* an aborted operation finds its buffer as the operation would have.
LEMMA BeginUnderway ==
  ASSUME TypeOK, NEW i \in DOMAIN ready,
         NEW started \in SUBSET Ops, IsFiniteSet(started),
         Begin(i, started), NEW x \in Underway'
  PROVE  \E y \in Underway \cup {[op |-> o, ec |-> "more"] : o \in started} :
           x.op = y.op /\ (Free(x) => Free(y)) /\ (Full(x) => Full(y))
<1> DEFINE Older == Underway \cup {[op |-> o, ec |-> "more"] : o \in started}
<1>1. /\ \A k \in DOMAIN ready' :
           \/ \E j \in DOMAIN ready \ {i} : ready'[k] = ready[j]
           \/ \E o \in pending \cup started :
                ready'[k] = [op |-> o, ec |-> "err"]
      /\ pending' \subseteq pending \cup started
  BY BeginEntries, BeginEffect
<1>2. \A o \in pending \cup started : [op |-> o, ec |-> "more"] \in Older
  BY DEF Underway
<1>3. \A j \in DOMAIN ready : ready[j] \in Older
  BY DEF Underway
<1> HIDE DEF Older
<1>4. CASE x \in Older
  BY <1>4 DEF Older
<1>5. ASSUME NEW o \in pending \cup started, x = [op |-> o, ec |-> "err"]
      PROVE  \E y \in Older :
               x.op = y.op /\ (Free(x) => Free(y)) /\ (Full(x) => Full(y))
  <2> DEFINE y == [op |-> o, ec |-> "more"]
  <2>1. y.op = o /\ y.ec = "more" /\ x.op = o /\ x.ec = "err"
    BY <1>5
  <2>2. (Free(x) => Free(y)) /\ (Full(x) => Full(y))
    BY <2>1 DEF Free, Full
  <2> QED  BY <1>2, <2>1, <2>2
<1>6. \/ \E o \in pending' : x = [op |-> o, ec |-> "more"]
      \/ \E k \in DOMAIN ready' : x = ready'[k]
  BY DEF Underway
<1>7. CASE \E o \in pending' : x = [op |-> o, ec |-> "more"]
  BY <1>1, <1>2, <1>4, <1>7
<1>8. CASE \E k \in DOMAIN ready' : x = ready'[k]
  BY <1>1, <1>3, <1>4, <1>5, <1>8 DEF Older
<1> QED
  BY <1>6, <1>7, <1>8

\* What is under way after o was posted, as q, is that or was so before, and
\* apart from o.
LEMMA PostUnderway ==
  ASSUME TypeOK, Alone, NEW o \in pending, NEW q, NEW e,
         pending' = pending \ {o},
         ready' = Append(ready, [op |-> q, ec |-> e]),
         NEW x \in Underway'
  PROVE  \/ x = [op |-> q, ec |-> e]
         \/ x \in Underway /\ Apart(x.op, o)
<1> DEFINE n == Len(ready) + 1
<1>1. Len(ready) \in Nat /\ DOMAIN ready = 1 .. Len(ready)
  BY LenProperties DEF TypeOK
<1>2. /\ DOMAIN ready' = DOMAIN ready \cup {n}
      /\ \A k \in DOMAIN ready : ready'[k] = ready[k]
      /\ ready'[n] = [op |-> q, ec |-> e]
  BY <1>1 DEF TypeOK
<1> HIDE DEF n
<1>3. \A p \in pending : p # o => Apart(p, o)
  BY DEF Alone
<1>4. \A k \in DOMAIN ready : Apart(ready[k].op, o)
  BY ApartSymmetric DEF Alone
<1>5. \/ \E p \in pending' : x = [op |-> p, ec |-> "more"]
      \/ \E k \in DOMAIN ready' : x = ready'[k]
  BY DEF Underway
<1>6. CASE \E p \in pending' : x = [op |-> p, ec |-> "more"]
  BY <1>3, <1>6 DEF Underway
<1>7. CASE \E k \in DOMAIN ready' : x = ready'[k]
  BY <1>2, <1>4, <1>7 DEF Underway
<1> QED
  BY <1>5, <1>6, <1>7

-----------------------------------------------------------------------------
(***************************************************************************)
(* What reads and writes do to the bytes.                                  *)
(***************************************************************************)

\* What the relay asks for fits its buffer.
LEMMA ReadFits ==
  ASSUME NEW o, NEW n \in 1 .. MaxSent, ReadSome(o, n)
  PROVE  n \in 1 .. BUF_SIZE
BY DataAssumption DEF ReadSome

\* A read that finds its buffer written to the end keeps count.
LEMMA ReadSomeKeeps ==
  ASSUME TypesData, Counted, NEW o \in Ops, o.s \in Clients,
         NEW n \in 1 .. BUF_SIZE, ReadSome(o, n),
         done[Line(o)] = length[Line(o)]
  PROVE  TypesData' /\ Counted'
<1> DEFINE l == Line(o)
           b == Buffer(o)
           have == taken[l]
           filled == [k \in 1 .. BUF_SIZE |->
                        IF k <= n THEN have + k ELSE buf[b][k]]
<1>1. l \in Lines /\ b \in Conns \X Ways
  BY LineType
<1>0. DOMAIN buf[b] \cup 1 .. n = 1 .. BUF_SIZE
  BY <1>1, DataAssumption DEF TypesData, TypeOKData
<1>2. /\ have + n <= sent[l]
      /\ taken' = [taken EXCEPT ![l] = have + n]
      /\ buf' = [buf EXCEPT ![b] = filled]
      /\ length' = [length EXCEPT ![l] = n]
      /\ done' = [done EXCEPT ![l] = 0]
      /\ sent' = sent /\ got' = got
      /\ done[l] = length[l]
  BY <1>0 DEF ReadSome, Take
<1> HIDE DEF l, b
<1>3. /\ sent \in [Lines -> Byte] /\ got \in [Lines -> Seq(Byte)]
      /\ buf \in [Conns \X Ways -> [1 .. BUF_SIZE -> Byte]]
      /\ length \in [Lines -> 0 .. BUF_SIZE]
      /\ taken \in [Lines -> Nat] /\ done \in [Lines -> Nat]
      /\ \A m \in Lines : taken[m] \in 0 .. sent[m] /\ done[m] \in 0 .. length[m]
      /\ BUF_SIZE \in Nat /\ MaxSent \in Nat
  BY DataAssumption DEF TypesData, TypeOKData
<1>4. have \in Nat /\ n \in Nat /\ sent[l] \in Byte /\ have + n \in Nat
  BY <1>1, <1>3
<1>5. ASSUME NEW k \in 1 .. BUF_SIZE, k <= n PROVE have + k \in Byte
  <2> DEFINE s == sent[l]
  <2>1. have + n <= s
    BY <1>2
  <2>2. k \in Nat /\ s \in 0 .. MaxSent /\ MaxSent \in Nat
    BY <1>3, <1>4 DEF Byte
  <2> HIDE DEF have, s
  <2> QED  BY <1>4, <1>5, <2>1, <2>2 DEF Byte
<1>6. filled \in [1 .. BUF_SIZE -> Byte]
  BY <1>1, <1>3, <1>5
<1> HIDE DEF filled, have
<1>7. /\ buf' \in [Conns \X Ways -> [1 .. BUF_SIZE -> Byte]]
      /\ length' \in [Lines -> 0 .. BUF_SIZE]
      /\ taken' \in [Lines -> Nat] /\ done' \in [Lines -> Nat]
  BY <1>1, <1>2, <1>3, <1>4, <1>6
<1>8. \A m \in Lines :
        \/ /\ m = l
           /\ taken'[m] = have + n /\ length'[m] = n /\ done'[m] = 0
        \/ /\ m # l
           /\ taken'[m] = taken[m] /\ length'[m] = length[m]
           /\ done'[m] = done[m]
  BY <1>1, <1>2, <1>3
<1>9. \A m \in Lines : taken'[m] \in 0 .. sent'[m] /\ done'[m] \in 0 .. length'[m]
  <2> SUFFICES ASSUME NEW m \in Lines
               PROVE  taken'[m] \in 0 .. sent'[m] /\ done'[m] \in 0 .. length'[m]
    OBVIOUS
  <2>1. CASE m = l
    <3>1. taken'[m] = have + n /\ length'[m] = n /\ done'[m] = 0
      BY <1>8, <2>1
    <3>2. have + n \in 0 .. sent[m] /\ 0 \in 0 .. n
      BY <1>2, <1>4, <2>1 DEF Byte
    <3> QED  BY <1>2, <3>1, <3>2
  <2>2. CASE m # l
    BY <1>2, <1>3, <1>8, <2>2
  <2> QED  BY <2>1, <2>2
<1>10. TypesData'
  BY <1>2, <1>3, <1>7, <1>9 DEF TypesData, TypeOKData
<1>11. Counted'
  <2> SUFFICES ASSUME NEW m \in Lines
               PROVE  /\ length'[m] <= taken'[m]
                      /\ Len(got'[m]) + length'[m] = taken'[m] + done'[m]
    BY DEF Counted
  <2>1. /\ length[m] <= taken[m]
        /\ Len(got[m]) + length[m] = taken[m] + done[m]
        /\ Len(got[m]) \in Nat /\ length[m] \in Nat
        /\ taken[m] \in Nat /\ done[m] \in Nat
    BY <1>3, LenProperties DEF Counted
  <2>2. CASE m = l
    <3>1. taken[l] = have /\ Len(got[l]) = have
      BY <1>2, <2>1, <2>2 DEF have
    <3>2. taken'[m] = have + n /\ length'[m] = n /\ done'[m] = 0 /\ got'[m] = got[l]
      BY <1>2, <1>8, <2>2
    <3> QED  BY <1>4, <3>1, <3>2
  <2>3. CASE m # l
    BY <1>2, <1>8, <2>1, <2>3
  <2> QED  BY <2>2, <2>3
<1> QED
  BY <1>10, <1>11

LEMMA BothSides ==
  \A n, h, a, t, d \in Nat : h + a = t + d => (h + n) + a = t + (d + n)
OBVIOUS

\* What is handed on is added to both sides of the account.
LEMMA BothGrow ==
  ASSUME NEW m, NEW n \in Nat,
         Len(got[m]) + length[m] = taken[m] + done[m],
         Len(got[m]) \in Nat, length[m] \in Nat,
         taken[m] \in Nat, done[m] \in Nat,
         Len(got'[m]) = Len(got[m]) + n, done'[m] = done[m] + n,
         length'[m] = length[m], taken'[m] = taken[m]
  PROVE  Len(got'[m]) + length'[m] = taken'[m] + done'[m]
<1> DEFINE Grows(h, a, t, d) == (h + n) + a = t + (d + n)
<1>1. \A h, a, t, d \in Nat : h + a = t + d => Grows(h, a, t, d)
  BY BothSides
<1> HIDE DEF Grows
<1>2. Grows(Len(got[m]), length[m], taken[m], done[m])
  BY <1>1
<1> QED
  BY <1>2, Zenon DEF Grows

\* A write of what is left, or of some of it, hands on just that.
LEMMA WriteKeeps ==
  ASSUME TypesData, Counted, NEW o \in Ops, o.s \in Clients,
         NEW n \in Nat, Write(o, n),
         done[Line(o)] + n <= length[Line(o)]
  PROVE  /\ TypesData' /\ Counted'
         /\ Len(got'[Line(o)]) = Len(got[Line(o)]) + n
         /\ \A k \in 1 .. Len(got[Line(o)]) :
              got'[Line(o)][k] = got[Line(o)][k]
         /\ \A j \in 1 .. n :
              got'[Line(o)][Len(got[Line(o)]) + j] =
                buf[Buffer(o)][done[Line(o)] + j]
<1> DEFINE l == Line(o)
           b == Buffer(o)
           from == done[l]
           piece == SubSeq(buf[b], from + 1, from + n)
<1>1. l \in Lines /\ b \in Conns \X Ways
  BY LineType
<1>2. /\ got' = [got EXCEPT ![l] = @ \o piece]
      /\ done' = [done EXCEPT ![l] = from + n]
      /\ sent' = sent /\ taken' = taken /\ buf' = buf /\ length' = length
      /\ from + n <= length[l]
  BY DEF Write
<1> HIDE DEF l, b
<1>3. /\ sent \in [Lines -> Byte] /\ got \in [Lines -> Seq(Byte)]
      /\ buf \in [Conns \X Ways -> [1 .. BUF_SIZE -> Byte]]
      /\ length \in [Lines -> 0 .. BUF_SIZE]
      /\ taken \in [Lines -> Nat] /\ done \in [Lines -> Nat]
      /\ \A m \in Lines : taken[m] \in 0 .. sent[m] /\ done[m] \in 0 .. length[m]
      /\ BUF_SIZE \in Nat
  BY DataAssumption DEF TypesData, TypeOKData
<1>4. from \in Nat /\ length[l] \in 0 .. BUF_SIZE /\ got[l] \in Seq(Byte)
  BY <1>1, <1>3
<1> HIDE DEF from
<1>5. \A k \in from + 1 .. from + n : k \in 1 .. BUF_SIZE
  <2>1. length[l] \in Nat /\ length[l] <= BUF_SIZE /\ from + n <= length[l]
    BY <1>2, <1>3, <1>4
  <2> QED  BY <1>3, <1>4, <2>1
<1>6. \A k \in from + 1 .. from + n : buf[b][k] \in Byte
  BY <1>1, <1>3, <1>5
<1>7. /\ piece \in Seq(Byte) /\ Len(piece) = n
      /\ \A j \in 1 .. n : piece[j] = buf[b][from + j]
  <2> DEFINE text == buf[b]
             m == from + 1
             last == from + n
  <2>1. m \in Int /\ last \in Int /\ \A k \in m .. last : text[k] \in Byte
    BY <1>4, <1>6
  <2> HIDE DEF text, m, last
  <2>2. /\ SubSeq(text, m, last) \in Seq(Byte)
        /\ Len(SubSeq(text, m, last)) = IF m <= last THEN last - m + 1 ELSE 0
        /\ \A j \in 1 .. last - m + 1 :
             SubSeq(text, m, last)[j] = text[m + j - 1]
    BY <2>1, SubSeqProperties
  <2>3. /\ last - m + 1 = n /\ (IF m <= last THEN last - m + 1 ELSE 0) = n
        /\ \A j \in 1 .. n : m + j - 1 = from + j
    BY <1>4 DEF m, last
  <2>4. /\ SubSeq(text, m, last) \in Seq(Byte) /\ Len(SubSeq(text, m, last)) = n
        /\ \A j \in 1 .. n : SubSeq(text, m, last)[j] = text[from + j]
    BY <2>2, <2>3
  <2> QED  BY <2>4 DEF text, m, last
<1> HIDE DEF piece
<1>8. got'[l] = got[l] \o piece /\ \A m \in Lines : m # l => got'[m] = got[m]
  BY <1>1, <1>2, <1>3
<1>9. /\ got[l] \o piece \in Seq(Byte)
      /\ Len(got[l] \o piece) = Len(got[l]) + n
      /\ \A i \in 1 .. Len(got[l]) + n :
           (got[l] \o piece)[i] =
             IF i <= Len(got[l]) THEN got[l][i] ELSE piece[i - Len(got[l])]
      /\ Len(got[l]) \in Nat
  BY <1>4, <1>7, ConcatProperties, LenProperties
<1>10. /\ \A k \in 1 .. Len(got[l]) : got'[l][k] = got[l][k]
       /\ \A j \in 1 .. n : got'[l][Len(got[l]) + j] = buf[b][from + j]
       /\ Len(got'[l]) = Len(got[l]) + n
  <2> DEFINE h == Len(got[l])
  <2>1. h \in Nat
    BY <1>9
  <2>2. \A i \in 1 .. h + n :
          got'[l][i] = IF i <= h THEN got[l][i] ELSE piece[i - h]
    BY <1>8, <1>9
  <2> HIDE DEF h
  <2>3. \A k \in 1 .. h : k \in 1 .. h + n /\ k <= h
    BY <2>1
  <2>4. \A j \in 1 .. n : h + j \in 1 .. h + n /\ ~(h + j <= h) /\ (h + j) - h = j
    BY <2>1
  <2>5. \A j \in 1 .. n : got'[l][h + j] = piece[(h + j) - h]
    BY <2>2, <2>4
  <2>6. \A j \in 1 .. n : got'[l][h + j] = buf[b][from + j]
    BY <1>7, <2>4, <2>5
  <2>7. \A k \in 1 .. h : got'[l][k] = got[l][k]
    BY <2>2, <2>3
  <2> QED  BY <1>8, <1>9, <2>6, <2>7 DEF h
<1>11. got' \in [Lines -> Seq(Byte)] /\ done' \in [Lines -> Nat]
  BY <1>1, <1>2, <1>3, <1>4, <1>9
<1>12. done'[l] = from + n /\ \A m \in Lines : m # l => done'[m] = done[m]
  BY <1>1, <1>2, <1>3
<1>13. \A m \in Lines : done'[m] \in 0 .. length'[m]
  <2> SUFFICES ASSUME NEW m \in Lines
               PROVE  done'[m] \in 0 .. length'[m]
    OBVIOUS
  <2>1. CASE m = l
    <3>1. from + n \in 0 .. length[l]
      BY <1>2, <1>4
    <3> QED  BY <1>2, <1>12, <2>1, <3>1
  <2>2. CASE m # l
    BY <1>2, <1>3, <1>12, <2>2
  <2> QED  BY <2>1, <2>2
<1>14. TypesData'
  BY <1>2, <1>3, <1>11, <1>13 DEF TypesData, TypeOKData
<1>15. Counted'
  <2> SUFFICES ASSUME NEW m \in Lines
               PROVE  /\ length'[m] <= taken'[m]
                      /\ Len(got'[m]) + length'[m] = taken'[m] + done'[m]
    BY DEF Counted
  <2>1. /\ length[m] <= taken[m]
        /\ Len(got[m]) + length[m] = taken[m] + done[m]
        /\ Len(got[m]) \in Nat /\ length[m] \in Nat
        /\ taken[m] \in Nat /\ done[m] \in Nat
    BY <1>3, LenProperties DEF Counted
  <2>2. CASE m = l
    <3>1. done[l] = from
      BY DEF from
    <3>2. /\ Len(got'[m]) = Len(got[m]) + n /\ done'[m] = done[m] + n
          /\ length'[m] = length[m] /\ taken'[m] = taken[m]
      BY <1>2, <1>10, <1>12, <2>2, <3>1
    <3>3. length'[m] <= taken'[m]
      BY <2>1, <3>2
    <3> QED  BY <2>1, <3>2, <3>3, BothGrow
  <2>3. CASE m # l
    BY <1>2, <1>8, <1>12, <2>1, <2>3
  <2> QED  BY <2>2, <2>3
<1> QED
  BY <1>10, <1>14, <1>15 DEF l, b, from

\* An operation that completes leaves the other directions alone, and its own
\* counted; it reads nothing when everything was read.
LEMMA MovesKeeps ==
  ASSUME TypesData, Counted, NEW o \in Ops, NEW e, Moves(o, e),
         o.h \in Loops => o.s \in Clients,
         o.h \in RelayReads => done[Line(o)] = length[Line(o)]
  PROVE  /\ TypesData' /\ Counted'
         /\ sent' = sent
         /\ o.h \notin Loops => UNCHANGED data
         /\ \A l \in Lines \ {Line(o)} :
              /\ taken'[l] = taken[l] /\ length'[l] = length[l]
              /\ done'[l] = done[l]
         /\ \A l \in Lines : taken[l] = sent[l] => taken'[l] = sent'[l]
         /\ \/ o.h \in RelayReads /\ e # "ok"
            \/ o.h \in RelayWrites /\ e = "ok"
            => done'[Line(o)] = length'[Line(o)]
<1> DEFINE l == Line(o)
<1>0. /\ taken \in [Lines -> Nat] /\ done \in [Lines -> Nat]
      /\ length \in [Lines -> 0 .. BUF_SIZE] /\ sent \in [Lines -> Byte]
      /\ \A m \in Lines : taken[m] \in 0 .. sent[m] /\ done[m] \in 0 .. length[m]
      /\ BUF_SIZE \in Nat /\ MaxSent \in Nat
  BY DataAssumption DEF TypesData, TypeOKData
<1>1. /\ o.h \in RelayReads => o.h \in Loops /\ o.h \notin RelayWrites
      /\ o.h \in RelayWrites => o.h \in Loops
      /\ o.h \in Loops => l \in Lines
  BY RelayNames, LineType
<1>2. CASE /\ e = "ok" /\ o.h \in RelayReads
           /\ \E n \in 1 .. BUF_SIZE : ReadSome(o, n)
  <2>1. PICK n \in 1 .. BUF_SIZE : ReadSome(o, n)
    BY <1>2
  <2>2. TypesData' /\ Counted'
    BY <1>1, <1>2, <2>1, ReadSomeKeeps
  <2>3. /\ sent' = sent /\ taken[l] + n <= sent[l]
        /\ taken' = [taken EXCEPT ![l] = taken[l] + n]
        /\ length' = [length EXCEPT ![l] = n]
        /\ done' = [done EXCEPT ![l] = 0]
    BY <2>1 DEF ReadSome, Take
  <2> HIDE DEF l
  <2>4. taken[l] # sent[l]
    <3>1. taken[l] \in Nat /\ n \in Nat /\ n >= 1
      BY <1>0, <1>1, <1>2
    <3> QED  BY <2>3, <3>1
  <2>5. \A m \in Lines \ {l} :
          /\ taken'[m] = taken[m] /\ length'[m] = length[m] /\ done'[m] = done[m]
    BY <1>0, <2>3
  <2> QED  BY <1>1, <1>2, <2>2, <2>3, <2>4, <2>5 DEF l
<1>3. ASSUME o.h \in RelayWrites, NEW n \in Nat, Write(o, n),
             done[l] + n <= length[l], e = "ok" => done[l] + n = length[l]
      PROVE  /\ TypesData' /\ Counted'
             /\ sent' = sent
             /\ \A m \in Lines \ {l} :
                  /\ taken'[m] = taken[m] /\ length'[m] = length[m]
                  /\ done'[m] = done[m]
             /\ \A m \in Lines : taken[m] = sent[m] => taken'[m] = sent'[m]
             /\ e = "ok" => done'[l] = length'[l]
  <2>1. TypesData' /\ Counted'
    BY <1>1, <1>3, WriteKeeps
  <2>2. /\ sent' = sent /\ taken' = taken /\ length' = length
        /\ done' = [done EXCEPT ![l] = done[l] + n]
    BY <1>3 DEF Write
  <2> HIDE DEF l
  <2> QED  BY <1>0, <1>1, <1>3, <2>1, <2>2
<1>4. CASE /\ e = "ok" /\ o.h \in RelayWrites
           /\ Write(o, length[l] - done[l])
  <2>1. /\ length[l] - done[l] \in Nat
        /\ done[l] + (length[l] - done[l]) = length[l]
    <3>1. length[l] \in Nat /\ done[l] \in Nat /\ done[l] <= length[l]
      BY <1>0, <1>1, <1>4
    <3> HIDE DEF l
    <3> QED  BY <3>1
  <2>2. done[l] + (length[l] - done[l]) <= length[l]
    BY <1>0, <1>1, <1>4, <2>1
  <2> QED  BY <1>1, <1>3, <1>4, <2>1, <2>2
<1>5. CASE /\ e = "more" /\ o.h \in RelayWrites
           /\ \E n \in 1 .. length[l] - done[l] - 1 : Write(o, n)
  <2>1. PICK n \in 1 .. length[l] - done[l] - 1 : Write(o, n)
    BY <1>5
  <2>2. n \in Nat /\ done[l] + n <= length[l]
    <3>1. length[l] \in Nat /\ done[l] \in Nat
      BY <1>0, <1>1, <1>5
    <3> HIDE DEF l
    <3> QED  BY <2>1, <3>1
  <2> QED  BY <1>1, <1>3, <1>5, <2>1, <2>2
<1>6. CASE /\ e # "more" /\ UNCHANGED data
           /\ e = "ok" => o.h \notin RelayReads \cup RelayWrites
  <2>1. /\ sent' = sent /\ taken' = taken /\ got' = got /\ buf' = buf
        /\ length' = length /\ done' = done
    BY <1>6 DEF data
  <2>2. TypesData' /\ Counted'
    BY <2>1 DEF TypesData, TypeOKData, Counted
  <2> QED  BY <1>6, <2>1, <2>2
<1> QED
  BY <1>2, <1>4, <1>5, <1>6, ReadFits DEF Moves

-----------------------------------------------------------------------------
(***************************************************************************)
(* Every step preserves the invariant.                                     *)
(***************************************************************************)

\* The result of the operation that was posted last.
LEMMA LastPosted ==
  ASSUME TypeOK, NEW x, ready' = Append(ready, x)
  PROVE  Last(ready') = x
<1>1. Len(ready) \in Nat
  BY LenProperties DEF TypeOK
<1>2. Len(ready') = Len(ready) + 1 /\ ready'[Len(ready) + 1] = x
  BY <1>1 DEF TypeOK
<1> QED
  BY <1>2 DEF Last

\* An operation of the relay is a client's.
LEMMA LoopsOwned ==
  ASSUME SInv, NEW o \in Ongoing, o.h \in Loops
  PROVE  o.s \in Clients
BY HandlerNames DEF SInv, Owned, Loops

\* What a step of the network moves leaves no operation out.
LEMMA CompleteDInv ==
  ASSUME TypeOK, SInv, DInv, NEW o \in pending, CompleteData(o)
  PROVE  DInv'
<1>0. /\ TypesData /\ Counted /\ Settled /\ BeforeRelay /\ NoneUntouched
      /\ RemotesHeld /\ FinTaken /\ Alone
      /\ o \in Ops /\ o \in Ongoing
      /\ remote \in [Clients -> {"none", "connecting", "failed", "up", "fin",
                                 "rst", "closed"}]
  BY DEF DInv, SInv, TypeOK, Ongoing
<1>1. PICK e \in Outcomes(o) :
        /\ Post(o, e)
        /\ remote' = IF o.h = "sendServerResponse"
                     THEN [remote EXCEPT ![o.s] = IF e = "ok" THEN "up"
                                                              ELSE "failed"]
                     ELSE remote
  BY DEF CompleteData, Complete
<1>2. client' = client
  BY DEF CompleteData, Complete
<1>3. /\ pending' = pending \ {o}
      /\ ready' = Append(ready, [op |-> o, ec |-> e])
  BY <1>1 DEF Post
<1>4. Moves(o, e)
  <2>1. Last(ready') = [op |-> o, ec |-> e]
    BY <1>3, LastPosted
  <2> QED  BY <2>1 DEF CompleteData
<1>5. Ongoing' = Ongoing
  BY <1>3, PostKeeps DEF Ongoing
<1>6. o.h \in Loops => o.s \in Clients /\ Line(o) \in Lines
  BY <1>0, LoopsOwned, LineType
<1>7. o.h \in RelayReads => done[Line(o)] = length[Line(o)]
  <2> DEFINE x == [op |-> o, ec |-> "more"]
  <2>1. x \in Underway /\ x.op = o /\ x.ec = "more"
    BY DEF Underway
  <2> HIDE DEF x
  <2> QED  BY <1>0, <2>1 DEF Settled, Free
<1>8. /\ TypesData' /\ Counted' /\ sent' = sent
      /\ o.h \notin Loops => UNCHANGED data
      /\ \A l \in Lines \ {Line(o)} :
           /\ taken'[l] = taken[l] /\ length'[l] = length[l]
           /\ done'[l] = done[l]
      /\ \A l \in Lines : taken[l] = sent[l] => taken'[l] = sent'[l]
      /\ \/ o.h \in RelayReads /\ e # "ok"
         \/ o.h \in RelayWrites /\ e = "ok"
         => done'[Line(o)] = length'[Line(o)]
  BY <1>0, <1>4, <1>6, <1>7, MovesKeeps
<1>9. ASSUME NEW x \in Underway', Free(x)
      PROVE  done'[Line(x.op)] = length'[Line(x.op)]
  <2>1. x = [op |-> o, ec |-> e] \/ (x \in Underway /\ Apart(x.op, o))
    BY <1>0, <1>3, PostUnderway
  <2>2. CASE x = [op |-> o, ec |-> e]
    <3>1. x.op = o /\ x.ec = e
      BY <2>2
    <3> QED  BY <1>8, <1>9, <3>1 DEF Free
  <2>3. CASE x \in Underway /\ Apart(x.op, o)
    <3>1. done[Line(x.op)] = length[Line(x.op)]
      BY <1>0, <1>9, <2>3 DEF Settled
    <3>2. x.op \in Ongoing
      BY <2>3 DEF Underway, Ongoing
    <3>3. x.op \in Ops /\ x.op.h \in Loops
      BY <1>9, <3>2, OngoingTypes, RelayNames DEF Free
    <3>4. x.op.s \in Clients /\ Line(x.op) \in Lines
      BY <3>2, <3>3, LoopsOwned, LineType
    <3>5. Line(x.op) # Line(o)
      BY <2>3, <3>4, ApartLines
    <3> QED  BY <1>8, <3>1, <3>4, <3>5
  <2> QED  BY <2>1, <2>2, <2>3
<1>10. Settled'
  <2> SUFFICES ASSUME NEW x \in Underway', Free(x)
               PROVE  done'[Line(x.op)] = length'[Line(x.op)]
    BY DEF Settled, Free, Line, Way
  <2> QED  BY <1>9
<1>11. BeforeRelay'
  <2> SUFFICES ASSUME NEW p \in Ongoing, p.s \in Clients,
                      p.h \notin Loops \cup {"accept"}, NEW w \in Ways
               PROVE  taken'[<<p.s, w>>] = 0
    BY <1>5 DEF BeforeRelay, Untouched
  <2>1. taken[<<p.s, w>>] = 0 /\ <<p.s, w>> \in Lines
    BY <1>0 DEF BeforeRelay, Untouched, Lines
  <2>2. CASE o.h \in Loops
    <3>1. Apart(p, o)
      <4>1. p # o
        BY <2>2
      <4>2. CASE p \in pending
        BY <1>0, <4>1, <4>2 DEF Alone
      <4>3. CASE \E j \in DOMAIN ready : p = ready[j].op
        BY <1>0, <4>3, ApartSymmetric DEF Alone
      <4> QED  BY <4>2, <4>3 DEF Ongoing
    <3>2. p.s # o.s
      BY <3>1 DEF Apart, Loops
    <3>3. <<p.s, w>> # Line(o)
      BY <3>2 DEF Line
    <3> QED  BY <1>8, <2>1, <3>3
  <2>3. CASE o.h \notin Loops
    BY <1>8, <2>1, <2>3 DEF data
  <2> QED  BY <2>2, <2>3
<1>12. \A s \in Clients :
         \/ remote'[s] = remote[s]
         \/ o.s = s /\ o.h = "sendServerResponse" /\ remote'[s] \in {"up", "failed"}
  BY <1>0, <1>1
<1>13. NoneUntouched'
  BY <1>0, <1>8, <1>12 DEF NoneUntouched
<1>14. RemotesHeld'
  <2>1. "sendServerResponse" \in RemoteHolders
    BY DEF RemoteHolders
  <2> QED  BY <1>0, <1>5, <1>12, <2>1 DEF RemotesHeld
<1>15. FinTaken'
  <2> SUFFICES ASSUME NEW s \in Clients
               PROVE  /\ client'[s] = "fin" =>
                           taken'[<<s, "up">>] = sent'[<<s, "up">>]
                      /\ remote'[s] = "fin" =>
                           taken'[<<s, "down">>] = sent'[<<s, "down">>]
    BY DEF FinTaken
  <2>1. <<s, "up">> \in Lines /\ <<s, "down">> \in Lines
    BY DEF Lines, Ways
  <2> QED  BY <1>0, <1>2, <1>8, <1>12, <2>1 DEF FinTaken
<1> QED
  BY <1>8, <1>10, <1>11, <1>13, <1>14, <1>15 DEF DInv

\* A handler forgets the bytes of sessions that have no remote socket, and
\* keeps the others.
Forgotten(l) == /\ sent'[l] = 0 /\ taken'[l] = 0 /\ got'[l] = <<>>
                /\ length'[l] = 0 /\ done'[l] = 0
Remembered(l) == /\ sent'[l] = sent[l] /\ taken'[l] = taken[l]
                 /\ got'[l] = got[l]
                 /\ length'[l] = length[l] /\ done'[l] = done[l]

LEMMA HandlerDataKeeps ==
  ASSUME TypesData, Counted, NEW i, HandlerData(i)
  PROVE  /\ TypesData' /\ Counted'
         /\ \A s \in Clients, w \in Ways :
              IF remote'[s] = "none" THEN Forgotten(<<s, w>>)
                                     ELSE Remembered(<<s, w>>)
         /\ \A l \in Lines : Forgotten(l) \/ Remembered(l)
<1>0. /\ sent \in [Lines -> Byte] /\ got \in [Lines -> Seq(Byte)]
      /\ buf \in [Conns \X Ways -> [1 .. BUF_SIZE -> Byte]]
      /\ length \in [Lines -> 0 .. BUF_SIZE]
      /\ taken \in [Lines -> Nat] /\ done \in [Lines -> Nat]
      /\ \A m \in Lines : taken[m] \in 0 .. sent[m] /\ done[m] \in 0 .. length[m]
      /\ BUF_SIZE \in Nat /\ MaxSent \in Nat
  BY DataAssumption DEF TypesData, TypeOKData
<1>1. /\ sent' = [l \in Lines |-> IF remote'[l[1]] = "none" THEN 0 ELSE sent[l]]
      /\ taken' = [l \in Lines |-> IF remote'[l[1]] = "none" THEN 0 ELSE taken[l]]
      /\ got' = [l \in Lines |-> IF remote'[l[1]] = "none" THEN <<>> ELSE got[l]]
      /\ length' = [l \in Lines |-> IF remote'[l[1]] = "none" THEN 0 ELSE length[l]]
      /\ done' = [l \in Lines |-> IF remote'[l[1]] = "none" THEN 0 ELSE done[l]]
  BY DEF HandlerData
<1>2. buf' = [b \in Conns \X Ways |-> IF Open(b[1])' THEN buf[b] ELSE Empty]
  BY DEF HandlerData
<1>3. 0 \in Byte /\ 0 \in 0 .. BUF_SIZE /\ <<>> \in Seq(Byte)
      /\ Empty \in [1 .. BUF_SIZE -> Byte]
  <2>1. 0 \in Byte /\ 0 \in 0 .. BUF_SIZE
    BY <1>0 DEF Byte
  <2> QED  BY <2>1, EmptySeq DEF Empty
<1>4. /\ sent' \in [Lines -> Byte] /\ got' \in [Lines -> Seq(Byte)]
      /\ length' \in [Lines -> 0 .. BUF_SIZE]
      /\ taken' \in [Lines -> Nat] /\ done' \in [Lines -> Nat]
  BY <1>0, <1>1, <1>3
<1>5. buf' \in [Conns \X Ways -> [1 .. BUF_SIZE -> Byte]]
  BY <1>0, <1>2, <1>3
<1>6. \A l \in Lines : IF remote'[l[1]] = "none" THEN Forgotten(l)
                                                  ELSE Remembered(l)
  BY <1>1 DEF Forgotten, Remembered
<1>7. \A l \in Lines : Forgotten(l) \/ Remembered(l)
  BY <1>6
<1>8. \A l \in Lines : taken'[l] \in 0 .. sent'[l] /\ done'[l] \in 0 .. length'[l]
  <2> SUFFICES ASSUME NEW l \in Lines
               PROVE  taken'[l] \in 0 .. sent'[l] /\ done'[l] \in 0 .. length'[l]
    OBVIOUS
  <2>1. CASE Forgotten(l)
    <3>1. 0 \in 0 .. 0
      OBVIOUS
    <3> QED  BY <2>1, <3>1 DEF Forgotten
  <2>2. CASE Remembered(l)
    BY <1>0, <2>2 DEF Remembered
  <2> QED  BY <1>7, <2>1, <2>2
<1>9. TypesData'
  BY <1>4, <1>5, <1>8 DEF TypesData, TypeOKData
<1>10. Counted'
  <2> SUFFICES ASSUME NEW l \in Lines
               PROVE  /\ length'[l] <= taken'[l]
                      /\ Len(got'[l]) + length'[l] = taken'[l] + done'[l]
    BY DEF Counted
  <2>1. CASE Forgotten(l)
    <3>1. Len(got'[l]) = 0
      BY <2>1, EmptySeq DEF Forgotten
    <3> QED  BY <2>1, <3>1 DEF Forgotten
  <2>2. CASE Remembered(l)
    BY <2>2 DEF Remembered, Counted
  <2> QED  BY <1>7, <2>1, <2>2
<1>11. ASSUME NEW s \in Clients, NEW w \in Ways
       PROVE  IF remote'[s] = "none" THEN Forgotten(<<s, w>>)
                                     ELSE Remembered(<<s, w>>)
  <2>1. <<s, w>> \in Lines /\ <<s, w>>[1] = s
    BY DEF Lines
  <2> QED  BY <1>6, <2>1
<1> QED
  BY <1>7, <1>9, <1>10, <1>11

\* Before its session has a remote socket nothing was read for it.
LEMMA UntouchedBefore ==
  ASSUME TypeOK, SInv, DInv, NEW i \in DOMAIN ready, Session(i) \in Clients,
         ready[i].op.h \notin Loops
  PROVE  Untouched(Session(i))
<1>0. /\ BeforeRelay /\ NoneUntouched /\ RemotesHeld /\ TypesData
      /\ ready[i].op \in Ongoing /\ ready[i].op.s = Session(i)
  BY DEF DInv, Ongoing, Session
<1>1. CASE ready[i].op.h # "accept"
  BY <1>0, <1>1 DEF BeforeRelay
<1>2. CASE ready[i].op.h = "accept"
  <2>1. remote[Session(i)] = "none"
    <3> SUFFICES ASSUME NEW o \in Ongoing, o.s = Session(i),
                        o.h \in RemoteHolders
                 PROVE  FALSE
      BY <1>0 DEF RemotesHeld
    <3>1. "accept" \notin RemoteHolders
      BY DEF RemoteHolders, UpLoop, DownLoop
    <3>2. o \in Others(i)
      BY <1>2, <3>1, EntryAndOthers
    <3> QED  BY <3>2, EntryAndOthers DEF Loops
  <2> SUFFICES ASSUME NEW w \in Ways
               PROVE  taken[<<Session(i), w>>] = 0
    BY DEF Untouched
  <2>2. <<Session(i), w>> \in Lines /\ sent[<<Session(i), w>>] = 0
    BY <1>0, <2>1 DEF NoneUntouched, Lines
  <2>3. taken[<<Session(i), w>>] \in 0 .. 0
    BY <1>0, <2>2 DEF TypesData, TypeOKData
  <2> QED  BY <2>3
<1> QED
  BY <1>1, <1>2

\* What a handler starts finds its direction as the handler left it.
LEMMA StartedFree ==
  ASSUME TypeOK, SInv, DInv, NEW i \in DOMAIN ready, NEW o \in Ops,
         Continues(ready[i], o), o.h \in RelayReads
  PROVE  done[Line(o)] = length[Line(o)]
<1> DEFINE x == ready[i]
<1>0. /\ TypesData /\ Counted /\ Settled /\ x \in Underway
      /\ x.op \in Ongoing /\ x.op.s = Session(i) /\ x.op.c = Conn(i)
  BY DEF DInv, Underway, Ongoing, Session, Conn
<1>1. /\ o.h \in Loops /\ o.h # "accept" /\ o.h \notin RelayWrites
      /\ o.s = x.op.s /\ o.c = x.op.c
  BY RelayNames, HandlerNames DEF Continues, Loops
<1>2. \/ x.op.h \notin Loops \cup {"accept"}
      \/ x.op.h \in RelayWrites /\ x.ec = "ok" /\ Way(o) = Way(x.op)
      \/ o = x.op /\ x.ec = "more"
  BY <1>1 DEF Continues
<1> HIDE DEF x
<1>3. CASE x.op.h \in RelayWrites /\ x.ec = "ok" /\ Way(o) = Way(x.op)
  <2>1. Line(o) = Line(x.op)
    BY <1>1, <1>3 DEF Line
  <2> QED  BY <1>0, <1>3, <2>1 DEF Settled, Free
<1>4. CASE o = x.op /\ x.ec = "more"
  BY <1>0, <1>4 DEF Settled, Free
<1>5. CASE x.op.h \notin Loops \cup {"accept"}
  <2>1. o.s = Session(i) /\ Session(i) \in Clients
    BY <1>0, <1>1, <1>5, ClientsHandler DEF x
  <2>2. Untouched(o.s)
    BY <1>5, <2>1, UntouchedBefore DEF x
  <2>3. taken[Line(o)] = 0 /\ Line(o) \in Lines
    <3>1. Way(o) \in Ways
      BY DEF Way, Ways
    <3> QED  BY <2>1, <2>2, <3>1 DEF Untouched, Line, Lines
  <2>4. /\ length[Line(o)] \in 0 .. BUF_SIZE /\ length[Line(o)] <= 0
        /\ done[Line(o)] \in 0 .. length[Line(o)]
    BY <1>0, <2>3 DEF TypesData, TypeOKData, Counted
  <2> HIDE DEF Line
  <2>5. length[Line(o)] = 0
    BY <2>4
  <2> QED  BY <2>4, <2>5
<1> QED
  BY <1>2, <1>3, <1>4, <1>5

\* A handler that goes on, or gives its session up.
LEMMA StepsDInv ==
  ASSUME TypeOK, SInv, DInv, NEW i \in DOMAIN ready, HandlerData(i),
         NEW started \in SUBSET Ops, Steps(i, started)
  PROVE  DInv'
<1>0. /\ TypesData /\ Counted /\ Settled /\ BeforeRelay /\ NoneUntouched
      /\ RemotesHeld /\ FinTaken
      /\ ready[i].op \in Ongoing /\ ready[i].op.s = Session(i)
  BY DEF DInv, Ongoing, Session
<1>1. /\ IsFiniteSet(started) /\ Begin(i, started)
      /\ \A o \in started : Continues(ready[i], o)
      /\ \A t \in Clients \ {Session(i)} : remote'[t] = remote[t]
      /\ \/ remote'[Session(i)] = "none"
         \/ HeldOn(i, started)
         \/ ready[i].op.h \notin RemoteHolders /\ remote' = remote
      /\ \A t \in Clients : /\ client'[t] = "fin" => client[t] = "fin"
                            /\ remote'[t] = "fin" => remote[t] = "fin"
  BY DEF Steps
<1>2. /\ Ongoing' = Others(i) \cup started
      /\ Ongoing = Others(i) \cup {ready[i].op}
  BY <1>1, BeginKeeps, EntryAndOthers
<1>3. /\ TypesData' /\ Counted'
      /\ \A s \in Clients, w \in Ways :
           IF remote'[s] = "none" THEN Forgotten(<<s, w>>)
                                  ELSE Remembered(<<s, w>>)
      /\ \A l \in Lines : Forgotten(l) \/ Remembered(l)
  BY <1>0, HandlerDataKeeps
<1>4. ASSUME NEW x \in Underway', Free(x)
      PROVE  done'[Line(x.op)] = length'[Line(x.op)]
  <2>1. PICK y \in Underway \cup {[op |-> o, ec |-> "more"] : o \in started} :
          x.op = y.op /\ Free(y)
    BY <1>1, <1>4, BeginUnderway
  <2>2. /\ done[Line(y.op)] = length[Line(y.op)]
        /\ y.op \in Ops /\ y.op.h \in Loops
        /\ y.op.s \in Clients
    <3>1. CASE y \in Underway
      <4>1. y.op \in Ongoing
        BY <3>1 DEF Underway, Ongoing
      <4>2. y.op \in Ops /\ y.op.h \in Loops
        BY <2>1, <4>1, OngoingTypes, RelayNames DEF Free
      <4> QED  BY <1>0, <2>1, <3>1, <4>1, <4>2, LoopsOwned DEF Settled
    <3>2. CASE y \notin Underway
      <4>1. PICK o \in started : y = [op |-> o, ec |-> "more"]
        BY <3>2
      <4>2. y.op = o /\ y.ec = "more" /\ o \in Ops /\ Continues(ready[i], o)
        BY <1>1, <4>1
      <4>3. o.h \in RelayReads /\ o.h \in Loops
        BY <2>1, <4>2, RelayNames DEF Free
      <4>4. done[Line(o)] = length[Line(o)]
        BY <4>2, <4>3, StartedFree
      <4>5. o.s \in Clients
        <5>1. ready[i].op.h # "accept" /\ o.s = Session(i)
          BY <1>0, <4>2, <4>3, HandlerNames, RelayNames DEF Continues, Loops
        <5> QED  BY <5>1, ClientsHandler
      <4> QED  BY <4>2, <4>3, <4>4, <4>5
    <3> QED  BY <3>1, <3>2
  <2>3. Line(y.op) \in Lines
    BY <2>2, LineType
  <2>4. Forgotten(Line(y.op)) \/ Remembered(Line(y.op))
    BY <1>3, <2>3
  <2>5. Line(x.op) = Line(y.op)
    BY <2>1
  <2> QED  BY <2>2, <2>4, <2>5 DEF Forgotten, Remembered
<1>5. Settled'
  <2> SUFFICES ASSUME NEW x \in Underway', Free(x)
               PROVE  done'[Line(x.op)] = length'[Line(x.op)]
    BY DEF Settled, Free, Line, Way
  <2> QED  BY <1>4
<1>6. BeforeRelay'
  <2> SUFFICES ASSUME NEW p \in Others(i) \cup started, p.s \in Clients,
                      p.h \notin Loops \cup {"accept"}, NEW w \in Ways
               PROVE  taken'[<<p.s, w>>] = 0
    BY <1>2 DEF BeforeRelay, Untouched
  <2>1. taken[<<p.s, w>>] = 0
    <3>1. CASE p \in Others(i)
      BY <1>0, <1>2, <3>1 DEF BeforeRelay, Untouched
    <3>2. CASE p \in started
      <4>1. p.s = Session(i) /\ ready[i].op.h \notin Loops
        BY <1>0, <1>1, <3>2 DEF Continues
      <4> QED  BY <4>1, UntouchedBefore DEF Untouched
    <3> QED  BY <3>1, <3>2
  <2> QED  BY <1>3, <2>1 DEF Forgotten, Remembered
<1>7. NoneUntouched'
  <2> SUFFICES ASSUME NEW s \in Clients, remote'[s] = "none", NEW w \in Ways
               PROVE  sent'[<<s, w>>] = 0
    BY DEF NoneUntouched
  <2> QED  BY <1>3 DEF Forgotten
<1>8. RemotesHeld'
  <2> SUFFICES ASSUME NEW s \in Clients, remote'[s] # "none"
               PROVE  \E o \in Others(i) \cup started :
                        o.s = s /\ o.h \in RemoteHolders
    BY <1>2 DEF RemotesHeld
  <2>1. CASE s # Session(i)
    <3>1. PICK o \in Ongoing : o.s = s /\ o.h \in RemoteHolders
      BY <1>0, <1>1, <2>1 DEF RemotesHeld
    <3> QED  BY <1>0, <1>2, <2>1, <3>1
  <2>2. CASE s = Session(i)
    <3>1. CASE HeldOn(i, started)
      BY <2>2, <3>1 DEF HeldOn
    <3>2. CASE ready[i].op.h \notin RemoteHolders /\ remote' = remote
      BY <1>0, <1>2, <3>2 DEF RemotesHeld
    <3> QED  BY <1>1, <2>2, <3>1, <3>2
  <2> QED  BY <2>1, <2>2
<1>9. FinTaken'
  <2> SUFFICES ASSUME NEW s \in Clients
               PROVE  /\ client'[s] = "fin" =>
                           taken'[<<s, "up">>] = sent'[<<s, "up">>]
                      /\ remote'[s] = "fin" =>
                           taken'[<<s, "down">>] = sent'[<<s, "down">>]
    BY DEF FinTaken
  <2>1. <<s, "up">> \in Lines /\ <<s, "down">> \in Lines
    BY DEF Lines, Ways
  <2>2. \A l \in Lines : taken[l] = sent[l] => taken'[l] = sent'[l]
    BY <1>3 DEF Forgotten, Remembered
  <2> QED  BY <1>0, <1>1, <2>1, <2>2 DEF FinTaken
<1> QED
  BY <1>3, <1>5, <1>6, <1>7, <1>8, <1>9 DEF DInv

\* The process ends, and with it everything.
LEMMA CrashDInv ==
  ASSUME DInv, NEW i, HandlerData(i), Crash
  PROVE  DInv'
<1>1. /\ pending' = {} /\ ready' = <<>>
      /\ \A s \in Clients : remote'[s] = "none"
  BY DEF Crash
<1>2. Underway' = {} /\ Ongoing' = {}
  <2>1. DOMAIN ready' = {}
    BY <1>1, EmptySeq
  <2> QED  BY <1>1, <2>1 DEF Underway, Ongoing
<1>3. /\ TypesData' /\ Counted'
      /\ \A s \in Clients, w \in Ways : Forgotten(<<s, w>>)
  BY <1>1, HandlerDataKeeps DEF DInv
<1>4. Settled' /\ BeforeRelay'
  BY <1>2 DEF Settled, BeforeRelay
<1>5. NoneUntouched' /\ RemotesHeld'
  BY <1>1, <1>3 DEF NoneUntouched, RemotesHeld, Forgotten
<1>6. FinTaken'
  <2>1. "up" \in Ways /\ "down" \in Ways
    BY DEF Ways
  <2> QED  BY <1>3, <2>1 DEF FinTaken, Forgotten
<1> QED
  BY <1>3, <1>4, <1>5, <1>6 DEF DInv

\* Every handler preserves the invariant.
LEMMA HandlerDInv ==
  ASSUME IInv, SInv, DInv, NEW i \in DOMAIN ready, HandlerData(i)
  PROVE  DInv'
<1>1. Crash \/ \E started \in SUBSET Ops : Steps(i, started)
  BY HandlerSteps DEF HandlerData
<1> QED
  BY <1>1, IInvParts, StepsDInv, CrashDInv

\* A step that leaves the bytes alone, takes no operation away and does not
\* make a gone end of one that has something to be read.
LEMMA NetworkDInv ==
  ASSUME TypeOK, SInv, DInv, UNCHANGED data,
         \A s \in Clients :
           /\ client'[s] = "fin" => client[s] = "fin" \/ AllTaken(s, "up")
           /\ remote'[s] = "fin" => remote[s] = "fin" \/ AllTaken(s, "down")
           /\ remote'[s] = "none" <=> remote[s] = "none",
         \A x \in Underway' : x \in Underway \/ x.op.h = "accept",
         \A o \in Ongoing : o \in Ongoing' \/ o.h = "accept"
  PROVE  DInv'
<1>0. /\ TypesData /\ Counted /\ Settled /\ BeforeRelay /\ NoneUntouched
      /\ RemotesHeld /\ FinTaken
      /\ sent' = sent /\ taken' = taken /\ got' = got /\ buf' = buf
      /\ length' = length /\ done' = done
  BY DEF DInv, data
<1>1. TypesData' /\ Counted'
  BY <1>0 DEF TypesData, TypeOKData, Counted
<1>2. \A o \in Ongoing' : o \in Ongoing \/ o.h = "accept"
  <2> SUFFICES ASSUME NEW o \in Ongoing', o.h # "accept"
               PROVE  o \in Ongoing
    OBVIOUS
  <2>1. CASE o \in pending'
    <3> DEFINE x == [op |-> o, ec |-> "more"]
    <3>1. x \in Underway' /\ x.op = o
      BY <2>1 DEF Underway
    <3> HIDE DEF x
    <3> QED  BY <3>1 DEF Ongoing, Underway
  <2>2. ASSUME NEW k \in DOMAIN ready', o = ready'[k].op
        PROVE  o \in Ongoing
    <3>1. ready'[k] \in Underway'
      BY DEF Underway
    <3> QED  BY <2>2, <3>1 DEF Ongoing, Underway
  <2> QED  BY <2>1, <2>2 DEF Ongoing
<1>3. Settled'
  <2> SUFFICES ASSUME NEW x \in Underway', Free(x)
               PROVE  done[Line(x.op)] = length[Line(x.op)]
    BY <1>0 DEF Settled, Free, Line, Way
  <2>1. x.op.h # "accept"
    BY RelayNames, HandlerNames DEF Free, Loops
  <2> QED  BY <1>0, <2>1 DEF Settled
<1>4. BeforeRelay'
  BY <1>0, <1>2 DEF BeforeRelay, Untouched
<1>5. NoneUntouched' /\ FinTaken'
  BY <1>0 DEF NoneUntouched, FinTaken, AllTaken
<1>6. RemotesHeld'
  <2>1. "accept" \notin RemoteHolders
    BY DEF RemoteHolders, UpLoop, DownLoop
  <2> QED  BY <1>0, <2>1 DEF RemotesHeld
<1> QED
  BY <1>1, <1>3, <1>4, <1>5, <1>6 DEF DInv

\* A step that leaves the operations alone, too.
LEMMA SameOperations ==
  ASSUME TypeOK, SInv, DInv, UNCHANGED <<pending, ready>>, UNCHANGED data,
         \A s \in Clients :
           /\ client'[s] = "fin" => client[s] = "fin" \/ AllTaken(s, "up")
           /\ remote'[s] = "fin" => remote[s] = "fin" \/ AllTaken(s, "down")
           /\ remote'[s] = "none" <=> remote[s] = "none"
  PROVE  DInv'
<1>1. pending' = pending /\ ready' = ready
  OBVIOUS
<1>2. Underway' = Underway /\ Ongoing' = Ongoing
  BY <1>1 DEF Underway, Ongoing
<1> QED
  BY <1>2, NetworkDInv

\* The accepts and the two ends.
LEMMA AcceptsDInv ==
  ASSUME TypeOK, SInv, DInv, UNCHANGED data,
         AcceptFails \/ \E s \in Clients : AcceptClient(s)
  PROVE  DInv'
<1>1. ASSUME NEW o \in pending, o.h = "accept", NEW q, q.h = "accept", NEW e,
             pending' = pending \ {o},
             ready' = Append(ready, [op |-> q, ec |-> e])
      PROVE  /\ \A x \in Underway' : x \in Underway \/ x.op.h = "accept"
             /\ \A p \in Ongoing : p \in Ongoing' \/ p.h = "accept"
  <2>1. \A x \in Underway' : \/ x = [op |-> q, ec |-> e]
                             \/ x \in Underway /\ Apart(x.op, o)
    BY <1>1, PostUnderway DEF SInv
  <2>2. Ongoing' = (pending \ {o}) \cup {ready[j].op : j \in DOMAIN ready}
                     \cup {q}
    BY <1>1, PostKeeps
  <2>3. \A p \in Ongoing : p \in Ongoing' \/ p = o
    BY <2>2 DEF Ongoing
  <2>4. \A x : x = [op |-> q, ec |-> e] => x.op.h = "accept"
    BY <1>1
  <2> QED  BY <1>1, <2>1, <2>3, <2>4
<1>2. CASE AcceptFails
  <2>1. PICK o \in pending : o.h = "accept" /\ Post(o, "err")
    BY <1>2 DEF AcceptFails
  <2>2. /\ \A x \in Underway' : x \in Underway \/ x.op.h = "accept"
        /\ \A p \in Ongoing : p \in Ongoing' \/ p.h = "accept"
    BY <1>1, <2>1 DEF Post
  <2>3. client' = client /\ remote' = remote
    BY <1>2 DEF AcceptFails
  <2> QED  BY <2>2, <2>3, NetworkDInv
<1>3. ASSUME NEW s \in Clients, AcceptClient(s)
      PROVE  DInv'
  <2>1. PICK o \in pending :
          /\ o.h = "accept"
          /\ pending' = pending \ {o}
          /\ ready' = Append(ready, [op |-> [o EXCEPT !.s = s], ec |-> "ok"])
    BY <1>3 DEF AcceptClient
  <2> DEFINE q == [o EXCEPT !.s = s]
  <2>2. q.h = "accept"
    BY <2>1 DEF TypeOK, Ops
  <2>3. ready' = Append(ready, [op |-> q, ec |-> "ok"])
    BY <2>1
  <2> HIDE DEF q
  <2>4. /\ \A x \in Underway' : x \in Underway \/ x.op.h = "accept"
        /\ \A p \in Ongoing : p \in Ongoing' \/ p.h = "accept"
    BY <1>1, <2>1, <2>2, <2>3
  <2>5. /\ \A t \in Clients : client'[t] = "fin" => client[t] = "fin"
        /\ remote' = remote
    BY <1>3 DEF AcceptClient, TypeOK
  <2> QED  BY <2>4, <2>5, NetworkDInv
<1> QED
  BY <1>2, <1>3

LEMMA EndsDInv ==
  ASSUME TypeOK, SInv, DInv, NEW s \in Clients,
         (Connect(s) /\ UNCHANGED data) \/ EndLeaves(s)
  PROVE  DInv'
<1>1. pending' = pending /\ ready' = ready /\ UNCHANGED data
  BY DEF Connect, EndLeaves, ClientLeaves, RemoteLeaves
<1>2. /\ client \in [Clients -> {"idle", "backlog", "up", "fin", "rst", "gone"}]
      /\ remote \in [Clients -> {"none", "connecting", "failed", "up", "fin",
                                 "rst", "closed"}]
  BY DEF TypeOK
<1>3. \A t \in Clients :
        /\ client'[t] = "fin" => client[t] = "fin" \/ AllTaken(t, "up")
        /\ remote'[t] = "fin" => remote[t] = "fin" \/ AllTaken(t, "down")
        /\ remote'[t] = "none" <=> remote[t] = "none"
  <2>1. CASE Connect(s)
    BY <1>2, <2>1 DEF Connect
  <2>2. CASE ClientLeaves(s) /\ (client'[s] = "fin" => AllTaken(s, "up"))
    BY <1>2, <2>2 DEF ClientLeaves
  <2>3. CASE RemoteLeaves(s) /\ (remote'[s] = "fin" => AllTaken(s, "down"))
    <3>1. PICK t \in Leaves(remote[s]) : remote' = [remote EXCEPT ![s] = t]
      BY <2>3 DEF RemoteLeaves
    <3>2. t \in {"fin", "rst"} /\ remote[s] \in {"up", "fin"}
      BY <3>1 DEF Leaves
    <3>3. client' = client
      BY <2>3 DEF RemoteLeaves
    <3> QED  BY <1>2, <2>3, <3>1, <3>2, <3>3
  <2> QED  BY <2>1, <2>2, <2>3 DEF EndLeaves
<1> QED
  BY <1>1, <1>3, SameOperations

\* An end sends another byte: it has not left.
LEMMA SendDInv ==
  ASSUME TypeOK, SInv, DInv, NEW s \in Clients, NEW w \in Ways, Send(s, w)
  PROVE  DInv'
<1> DEFINE l == <<s, w>>
<1>0. /\ TypesData /\ Counted /\ Settled /\ BeforeRelay /\ NoneUntouched
      /\ RemotesHeld /\ FinTaken
      /\ l \in Lines /\ <<s, "up">> \in Lines /\ <<s, "down">> \in Lines
      /\ MaxSent \in Nat
  BY DataAssumption DEF DInv, Lines, Ways
<1>1. /\ sent \in [Lines -> Byte]
      /\ \A m \in Lines : taken[m] \in Nat /\ taken[m] \in 0 .. sent[m]
  BY <1>0 DEF TypesData, TypeOKData
<1>2. /\ remote[s] = "up" /\ (w = "up" => client[s] = "up")
      /\ sent' = [sent EXCEPT ![l] = sent[l] + 1]
      /\ taken' = taken /\ got' = got /\ buf' = buf
      /\ length' = length /\ done' = done
      /\ UNCHANGED vars
  BY DEF Send
<1>3. sent[<<s, "up">>] + sent[<<s, "down">>] < MaxSent
  BY DEF Send
<1>4. client' = client /\ remote' = remote /\ pending' = pending /\ ready' = ready
  BY <1>2 DEF vars
<1>5. sent[l] + 1 \in Byte
  <2>1. /\ sent[<<s, "up">>] \in Nat /\ sent[<<s, "down">>] \in Nat
        /\ l = <<s, "up">> \/ l = <<s, "down">>
    BY <1>0, <1>1 DEF Byte, Ways
  <2> DEFINE a == sent[<<s, "up">>]
             b == sent[<<s, "down">>]
  <2>2. sent[l] = a \/ sent[l] = b
    BY <2>1
  <2>3. a \in Nat /\ b \in Nat /\ a + b < MaxSent
    BY <1>3, <2>1
  <2> HIDE DEF a, b, l
  <2> QED  BY <1>0, <2>2, <2>3 DEF Byte
<1> HIDE DEF l
<1>6. /\ sent' \in [Lines -> Byte]
      /\ \A m \in Lines : sent'[m] = IF m = l THEN sent[m] + 1 ELSE sent[m]
  BY <1>0, <1>1, <1>2, <1>5
<1>7. \A m \in Lines : taken'[m] \in 0 .. sent'[m]
  <2> SUFFICES ASSUME NEW m \in Lines
               PROVE  taken[m] \in 0 .. sent'[m]
    BY <1>2
  <2>1. sent[m] \in Nat /\ taken[m] \in Nat /\ taken[m] <= sent[m]
    BY <1>0, <1>1 DEF Byte
  <2>2. sent'[m] = sent[m] + 1 \/ sent'[m] = sent[m]
    BY <1>6
  <2> QED  BY <2>1, <2>2
<1>8. TypesData' /\ Counted'
  BY <1>0, <1>2, <1>6, <1>7 DEF TypesData, TypeOKData, Counted
<1>9. Underway' = Underway /\ Ongoing' = Ongoing
  BY <1>4 DEF Underway, Ongoing
<1>10. Settled' /\ BeforeRelay' /\ RemotesHeld'
  BY <1>0, <1>2, <1>4, <1>9 DEF Settled, BeforeRelay, Untouched, RemotesHeld
<1>11. NoneUntouched'
  <2> SUFFICES ASSUME NEW t \in Clients, remote[t] = "none", NEW v \in Ways
               PROVE  sent'[<<t, v>>] = 0
    BY <1>4 DEF NoneUntouched
  <2>1. <<t, v>> \in Lines /\ <<t, v>> # l /\ sent[<<t, v>>] = 0
    BY <1>0, <1>2 DEF Lines, NoneUntouched, l
  <2> QED  BY <1>6, <2>1
<1>12. FinTaken'
  <2> SUFFICES ASSUME NEW t \in Clients
               PROVE  /\ client[t] = "fin" =>
                           taken[<<t, "up">>] = sent'[<<t, "up">>]
                      /\ remote[t] = "fin" =>
                           taken[<<t, "down">>] = sent'[<<t, "down">>]
    BY <1>2, <1>4 DEF FinTaken
  <2>1. <<t, "up">> \in Lines /\ <<t, "down">> \in Lines
    BY DEF Lines, Ways
  <2>2. /\ client[t] = "fin" => <<t, "up">> # l
        /\ remote[t] = "fin" => <<t, "down">> # l
    BY <1>2 DEF l
  <2> QED  BY <1>0, <1>6, <2>1, <2>2 DEF FinTaken
<1> QED
  BY <1>8, <1>10, <1>11, <1>12 DEF DInv

LEMMA InitDInv == InitData => DInv
<1> SUFFICES ASSUME InitData
             PROVE  DInv
  OBVIOUS
<1>1. PICK c \in Conns : pending = {Accept(c)} /\ ready = <<>>
  BY DEF InitData, Init
<1>2. Accept(c).h = "accept"
  BY DEF Accept, Op, OpArg
<1>3. /\ sent = [l \in Lines |-> 0] /\ taken = [l \in Lines |-> 0]
      /\ got = [l \in Lines |-> <<>>]
      /\ buf = [b \in Conns \X Ways |-> Empty]
      /\ length = [l \in Lines |-> 0] /\ done = [l \in Lines |-> 0]
      /\ \A s \in Clients : remote[s] = "none" /\ client[s] = "idle"
  BY DEF InitData, Init
<1>4. DOMAIN ready = {}
  BY <1>1, EmptySeq
<1>5. \A x \in Underway : x.op.h = "accept"
  BY <1>1, <1>2, <1>4 DEF Underway
<1>6. \A o \in Ongoing : o.h = "accept"
  BY <1>1, <1>2, <1>4 DEF Ongoing
<1>7. TypesData
  <2>1. /\ 0 \in Byte /\ 0 \in 0 .. BUF_SIZE /\ <<>> \in Seq(Byte)
        /\ Empty \in [1 .. BUF_SIZE -> Byte] /\ 0 \in 0 .. 0
    <3>1. 0 \in Byte /\ 0 \in 0 .. BUF_SIZE /\ 0 \in 0 .. 0
      BY DataAssumption DEF Byte
    <3> QED  BY <3>1, EmptySeq DEF Empty
  <2> QED  BY <1>3, <2>1 DEF TypesData, TypeOKData
<1>8. Counted
  <2>1. Len(<<>>) = 0
    BY EmptySeq
  <2> QED  BY <1>3, <2>1 DEF Counted
<1>9. Settled
  BY <1>5, RelayNames, HandlerNames DEF Settled, Free, Loops
<1>10. BeforeRelay
  BY <1>6 DEF BeforeRelay
<1>11. NoneUntouched /\ RemotesHeld /\ FinTaken
  BY <1>3 DEF NoneUntouched, RemotesHeld, FinTaken, Lines
<1> QED
  BY <1>7, <1>8, <1>9, <1>10, <1>11 DEF DInv

LEMMA NextDInv == IInv /\ SInv /\ DInv /\ [NextData]_allVars => DInv'
<1> SUFFICES ASSUME IInv, SInv, DInv, [NextData]_allVars
             PROVE  DInv'
  OBVIOUS
<1>0. TypeOK
  BY IInvParts
<1>1. ASSUME NEW i \in DOMAIN ready, HandlerData(i)
      PROVE  DInv'
  BY <1>1, HandlerDInv
<1>2. ASSUME NEW o \in pending, CompleteData(o)
      PROVE  DInv'
  BY <1>0, <1>2, CompleteDInv
<1>3. ASSUME AcceptFails, UNCHANGED data
      PROVE  DInv'
  BY <1>0, <1>3, AcceptsDInv
<1>4. ASSUME NEW s \in Clients, AcceptClientData(s)
      PROVE  DInv'
  BY <1>0, <1>4, AcceptsDInv DEF AcceptClientData
<1>5. ASSUME NEW s \in Clients, (Connect(s) /\ UNCHANGED data) \/ EndLeaves(s)
      PROVE  DInv'
  BY <1>0, <1>5, EndsDInv
<1>6. ASSUME NEW s \in Clients, NEW w \in Ways, Send(s, w)
      PROVE  DInv'
  BY <1>0, <1>6, SendDInv
<1>7. CASE UNCHANGED allVars
  <2>1. UNCHANGED vars /\ UNCHANGED data
    BY <1>7 DEF allVars
  <2>2. UNCHANGED <<pending, ready, client, remote>>
    BY <2>1 DEF vars
  <2> QED  BY <1>0, <2>1, <2>2, SameOperations
<1> QED
  BY <1>1, <1>2, <1>3, <1>4, <1>5, <1>6, <1>7 DEF NextData

\* What the proxy does with bytes is what it does.
LEMMA DataOfProxy == FairSpec => Spec
<1>1. InitData => Init
  BY DEF InitData
<1>2. [NextData]_allVars => [Next]_vars
  <2> SUFFICES ASSUME [NextData]_allVars
               PROVE  [Next]_vars
    OBVIOUS
  <2>1. ASSUME NEW i \in DOMAIN ready, HandlerData(i)
        PROVE  Next
    BY <2>1 DEF HandlerData, Next
  <2>2. ASSUME NEW o \in pending, CompleteData(o)
        PROVE  Next
    BY <2>2 DEF CompleteData, Next
  <2>3. CASE AcceptFails
    BY <2>3 DEF Next, Network
  <2>4. ASSUME NEW s \in Clients,
               AcceptClientData(s) \/ Connect(s) \/ EndLeaves(s)
        PROVE  Next
    BY <2>4 DEF AcceptClientData, EndLeaves, Next, Network
  <2>5. ASSUME NEW s \in Clients, NEW w \in Ways, Send(s, w)
        PROVE  UNCHANGED vars
    BY <2>5 DEF Send, vars
  <2>6. CASE UNCHANGED allVars
    BY <2>6 DEF allVars
  <2> QED  BY <2>1, <2>2, <2>3, <2>4, <2>5, <2>6 DEF NextData
<1> QED
  BY <1>1, <1>2, PTL DEF FairSpec, Spec

\* The invariant of this section holds in every reachable state.
THEOREM InductiveBytes == FairSpec => []DInv
<1> QED
  BY InitDInv, NextDInv, DataOfProxy, Inductive, InductiveReplies, PTL
     DEF FairSpec

\* Every variable of the data keeps its type; that the reads of the relay fit
\* its buffers is the assumption about max_length.
THEOREM TypeCorrectData == FairSpec => []TypeOKData
<1>1. DInv => TypeOKData
  BY DEF DInv, TypesData
<1> QED
  BY InductiveBytes, <1>1, PTL

\* What is read and not yet handed on is the rest of the last read, and a
\* buffer that is to be read into has no such rest, in any order of the
\* handlers and whoever resets a connection.  proxy_server.cpp:210-291.
THEOREM ReadsAndWritesTakeTurns == FairSpec => []BytesAccounted
<1>1. IInv /\ SInv /\ DInv => BytesAccounted
  <2> SUFFICES ASSUME IInv, SInv, DInv
               PROVE  BytesAccounted
    OBVIOUS
  <2>1. TypesData /\ Counted /\ Settled
    BY DEF DInv
  <2>2. ASSUME NEW l \in Lines
        PROVE  Len(got[l]) + (length[l] - done[l]) = taken[l]
    <3>1. /\ Len(got[l]) + length[l] = taken[l] + done[l]
          /\ got[l] \in Seq(Byte) /\ length[l] \in 0 .. BUF_SIZE
          /\ taken[l] \in Nat /\ done[l] \in Nat
      BY <2>1 DEF Counted, TypesData, TypeOKData
    <3>2. Len(got[l]) \in Nat /\ length[l] \in Nat
      BY <3>1, LenProperties, DataAssumption
    <3>3. \A g, n, k, d \in Nat : g + n = k + d => g + (n - d) = k
      OBVIOUS
    <3> QED
      BY <3>1, <3>2, <3>3
  <2>3. ASSUME NEW o \in pending, o.h \in RelayReads
        PROVE  done[Line(o)] = length[Line(o)]
    <3> DEFINE x == [op |-> o, ec |-> "more"]
    <3>1. x \in Underway /\ x.op = o /\ x.ec = "more"
      BY DEF Underway
    <3>2. Free(x)
      BY <2>3, <3>1 DEF Free
    <3> HIDE DEF x
    <3> QED
      BY <2>1, <3>1, <3>2 DEF Settled
  <2> QED
    BY <2>2, <2>3 DEF BytesAccounted
<1> QED
  BY InductiveBytes, DataOfProxy, Inductive, InductiveReplies, <1>1, PTL

-----------------------------------------------------------------------------
(***************************************************************************)
(* An end that has left was heard to its last byte.                        *)
(***************************************************************************)

\* A relay's read that has failed in the first entry had nothing to read, and
\* what was read before has been handed on.
LEMMA ReadToTheEnd ==
  ASSUME SInv, DInv, NEW i \in DOMAIN ready, ready[i].op.h \in RelayReads,
         Failed(i), NEW s \in Clients, ready[i].op.s = s,
         NEW w \in Ways, w = Way(ready[i].op),
         w = "up" => client[s] = "fin",
         w = "down" => remote[s] = "fin"
  PROVE  Len(got[<<s, w>>]) = sent[<<s, w>>]
<1>1. /\ ready[i] \in Underway /\ Free(ready[i]) /\ Line(ready[i].op) = <<s, w>>
      /\ <<s, w>> \in Lines
  BY DEF Underway, Free, Failed, Line, Lines
<1>2. w \in {"up", "down"}
  BY DEF Ways
<1>3. /\ done[<<s, w>>] = length[<<s, w>>]
      /\ Len(got[<<s, w>>]) + length[<<s, w>>] = taken[<<s, w>>] + done[<<s, w>>]
  BY <1>1 DEF DInv, Settled, Counted
<1>4. taken[<<s, w>>] = sent[<<s, w>>]
  BY <1>2 DEF DInv, FinTaken
<1>5. /\ length \in [Lines -> 0 .. BUF_SIZE] /\ sent \in [Lines -> Byte]
      /\ got \in [Lines -> Seq(Byte)] /\ BUF_SIZE \in Nat
  BY DataAssumption DEF DInv, TypesData, TypeOKData
<1>6. /\ length[<<s, w>>] \in Nat /\ sent[<<s, w>>] \in Nat
      /\ Len(got[<<s, w>>]) \in Nat
  <2>1. got[<<s, w>>] \in Seq(Byte)
    BY <1>1, <1>5
  <2> QED  BY <1>1, <1>5, <2>1, LenProperties DEF Byte
<1> DEFINE h == Len(got[<<s, w>>])
           a == length[<<s, w>>]
           b == sent[<<s, w>>]
<1>7. h + a = b + a /\ h \in Nat /\ a \in Nat /\ b \in Nat
  BY <1>3, <1>4, <1>6
<1> HIDE DEF h, a, b
<1>8. h = b
  BY <1>7
<1> QED
  BY <1>8 DEF h, b

\* A handler that drops the client of a relay's read ran because that failed.
LEMMA DropsAfterFailure ==
  ASSUME TypeOK, NEW i \in DOMAIN ready, Handler(i),
         ready[i].op.h \in RelayReads,
         NEW s \in Clients, client[s] \in {"up", "fin"},
         client'[s] \in {"idle", "gone"}
  PROVE  Failed(i)
<1>1. client'[s] # client[s]
  BY DEF TypeOK
<1>2. ready[i].op.h \in {"sendDataToServer", "sendDataToClient"}
  BY DEF RelayReads
<1>3. sendDataToServer(i) \/ sendDataToClient(i)
  BY <1>2 DEF Handler, acceptConnection, readAuthMethods, sendServerChoice,
       handleConnectionRequest, readAddressType, handleAddress,
       readIPv4Address, getDomainLength, getDomainName, sendServerResponse,
       replyWritten, startDataTransfer, recvDataFromClient,
       recvDataFromServer, continueTransfer, Composed, ClientReads,
       ClientWrites, RemoteWrites, Relay, Runs
<1> QED
  BY <1>1, <1>3 DEF sendDataToServer, sendDataToClient, Relay, Proceed

\* The handler that finds an end gone and drops the session comes after all
\* that this end has sent was handed on, if the queue is first in, first out.
\* proxy_server.cpp:229-259.
THEOREM NothingLeftBehind ==
  ASSUME Fifo
  PROVE  FairSpec => FlushedAtEnd
<1> DEFINE Step ==
      \A s \in Clients :
        client[s] \in {"up", "fin"} /\ client'[s] \in {"idle", "gone"} =>
          LET h == Head(ready).op.h IN
          Head(ready).op.s = s =>
          /\ h = "sendDataToServer" /\ client[s] = "fin"
               => Len(got[<<s, "up">>]) = sent[<<s, "up">>]
          /\ h = "sendDataToClient" /\ remote[s] = "fin"
               => Len(got[<<s, "down">>]) = sent[<<s, "down">>]
<1>1. ASSUME TypeOK, SInv, DInv, NextData
      PROVE  Step
  <2> SUFFICES ASSUME NEW s \in Clients, client[s] \in {"up", "fin"},
                      client'[s] \in {"idle", "gone"},
                      Head(ready).op.s = s,
                      NEW h, h = Head(ready).op.h
               PROVE  /\ h = "sendDataToServer" /\ client[s] = "fin"
                           => Len(got[<<s, "up">>]) = sent[<<s, "up">>]
                      /\ h = "sendDataToClient" /\ remote[s] = "fin"
                           => Len(got[<<s, "down">>]) = sent[<<s, "down">>]
    OBVIOUS
  <2>0. client \in [Clients -> {"idle", "backlog", "up", "fin", "rst", "gone"}]
    BY <1>1 DEF TypeOK
  <2>1. PICK i \in DOMAIN ready : HandlerData(i)
    <3>1. ASSUME NEW t \in Clients, client' = [client EXCEPT ![t] = "backlog"]
          PROVE  FALSE
      BY <2>0, <3>1
    <3>2. ASSUME NEW t \in Clients, client' = [client EXCEPT ![t] = "up"]
          PROVE  FALSE
      BY <2>0, <3>2
    <3>3. ASSUME NEW t \in Clients, NEW l \in {"fin", "rst"},
                 client' = [client EXCEPT ![t] = l]
          PROVE  FALSE
      BY <2>0, <3>3
    <3>4. client' # client
      BY <2>0
    <3>5. \A o \in pending : ~CompleteData(o)
      BY <3>4 DEF CompleteData, Complete
    <3>6. \A t \in Clients, w \in Ways : ~Send(t, w)
      BY <3>4 DEF Send, vars
    <3>7. \A t \in Clients :
            ~AcceptClientData(t) /\ ~Connect(t) /\ ~RemoteLeaves(t)
      BY <3>1, <3>2, <3>4
         DEF AcceptClientData, AcceptClient, Connect, RemoteLeaves
    <3>8. \A t \in Clients : ~ClientLeaves(t)
      BY <3>3 DEF ClientLeaves, Leaves
    <3> QED  BY <1>1, <3>4, <3>5, <3>6, <3>7, <3>8
                DEF NextData, AcceptFails, EndLeaves
  <2>2. Handler(i) /\ i = 1
    BY <2>1, HandlerFirst DEF HandlerData
  <2>3. Head(ready) = ready[1]
    <3>1. ready # <<>>
      BY <2>1, EmptySeq
    <3> QED  BY <1>1, <3>1, HeadTailProperties DEF TypeOK
  <2>4. ASSUME NEW w \in Ways, h \in RelayReads, w = Way(ready[1].op),
               w = "up" => client[s] = "fin", w = "down" => remote[s] = "fin"
        PROVE  Len(got[<<s, w>>]) = sent[<<s, w>>]
    <3>1. Failed(1)
      BY <1>1, <2>2, <2>3, <2>4, DropsAfterFailure
    <3> QED  BY <1>1, <2>2, <2>3, <2>4, <3>1, ReadToTheEnd
  <2>5. CASE h = "sendDataToServer" /\ client[s] = "fin"
    <3>1. /\ "up" = Way(ready[1].op) /\ h \in RelayReads /\ "up" \in Ways
          /\ h # "sendDataToClient" /\ "up" # "down"
      BY <2>3, <2>5 DEF Way, UpLoop, RelayReads, Ways
    <3>2. Len(got[<<s, "up">>]) = sent[<<s, "up">>]
      BY <2>4, <2>5, <3>1
    <3> QED  BY <3>1, <3>2
  <2>6. CASE h = "sendDataToClient" /\ remote[s] = "fin"
    <3>1. /\ "down" = Way(ready[1].op) /\ h \in RelayReads /\ "down" \in Ways
          /\ h # "sendDataToServer" /\ "up" # "down"
      BY <2>3, <2>6 DEF Way, UpLoop, RelayReads, Ways
    <3>2. Len(got[<<s, "down">>]) = sent[<<s, "down">>]
      BY <2>4, <2>6, <3>1
    <3> QED  BY <3>1, <3>2
  <2> QED  BY <2>5, <2>6
<1>2. TypeOK /\ SInv /\ DInv /\ [NextData]_allVars => [Step]_allVars
  BY <1>1
<1> QED
  BY <1>2, DataOfProxy, TypeCorrect, InductiveReplies, InductiveBytes, PTL
     DEF FairSpec, FlushedAtEnd

-----------------------------------------------------------------------------
(***************************************************************************)
(* What each end is handed is what the other sent, if the queue is first   *)
(* in, first out and nobody resets a connection: then no two sessions use  *)
(* one buffer.                                                             *)
(***************************************************************************)

\* The bytes that were handed on, by their numbers,
HandedInOrder ==
  \A l \in Lines : \A k \in 1 .. Len(got[l]) : got[l][k] = k

\* and those that a buffer still holds for its session are the next ones.
Holds(o) ==
  \A k \in done[Line(o)] + 1 .. length[Line(o)] :
    buf[Buffer(o)][k] + length[Line(o)] = taken[Line(o)] + k
BuffersHold ==
  \A x \in Underway : Full(x) /\ peer[x.op.c] = x.op.s => Holds(x.op)

CInv == HandedInOrder /\ BuffersHold

\* A read fills the buffer with the bytes that come next.
LEMMA ReadSomeHolds ==
  ASSUME TypesData, NEW o \in Ops, o.s \in Clients,
         NEW n \in 1 .. BUF_SIZE, ReadSome(o, n)
  PROVE  /\ got' = got
         /\ \A k \in done'[Line(o)] + 1 .. length'[Line(o)] :
              buf'[Buffer(o)][k] + length'[Line(o)] = taken'[Line(o)] + k
<1> DEFINE l == Line(o)
           b == Buffer(o)
           have == taken[l]
           filled == [k \in 1 .. BUF_SIZE |->
                        IF k <= n THEN have + k ELSE buf[b][k]]
<1>1. l \in Lines /\ b \in Conns \X Ways
  BY LineType
<1>0. DOMAIN buf[b] \cup 1 .. n = 1 .. BUF_SIZE
  BY <1>1, DataAssumption DEF TypesData, TypeOKData
<1>2. /\ taken' = [taken EXCEPT ![l] = have + n]
      /\ buf' = [buf EXCEPT ![b] = filled]
      /\ length' = [length EXCEPT ![l] = n]
      /\ done' = [done EXCEPT ![l] = 0]
      /\ got' = got
  BY <1>0 DEF ReadSome, Take
<1>3. /\ buf \in [Conns \X Ways -> [1 .. BUF_SIZE -> Byte]]
      /\ length \in [Lines -> 0 .. BUF_SIZE]
      /\ taken \in [Lines -> Nat] /\ done \in [Lines -> Nat]
      /\ BUF_SIZE \in Nat
  BY DataAssumption DEF TypesData, TypeOKData
<1>4. n \in Nat /\ n <= BUF_SIZE
  BY <1>3
<1>5. have \in Nat
  BY <1>1, <1>3
<1> HIDE DEF l, b, have
<1>6. buf'[b] = filled /\ taken'[l] = have + n /\ length'[l] = n /\ done'[l] = 0
  BY <1>1, <1>2, <1>3
<1>7. \A k \in 0 + 1 .. n : k \in 1 .. BUF_SIZE /\ k <= n /\ k \in Nat
  BY <1>3, <1>4
<1>8. \A k \in 0 + 1 .. n : filled[k] = have + k
  BY <1>7
<1> HIDE DEF filled
<1>9. \A k \in 0 + 1 .. n : buf'[b][k] + n = (have + n) + k
  BY <1>4, <1>5, <1>6, <1>7, <1>8
<1>10. \A k \in done'[l] + 1 .. length'[l] : buf'[b][k] + length'[l] = taken'[l] + k
  BY <1>6, <1>9
<1> QED
  BY <1>2, <1>10 DEF l, b

\* A write hands on the bytes that come next, and leaves the others.
LEMMA WriteHolds ==
  ASSUME TypesData, Counted, HandedInOrder, NEW o \in Ops, o.s \in Clients,
         NEW n \in Nat, Write(o, n),
         done[Line(o)] + n <= length[Line(o)],
         Holds(o)
  PROVE  /\ HandedInOrder'
         /\ \A k \in done'[Line(o)] + 1 .. length'[Line(o)] :
              buf'[Buffer(o)][k] + length'[Line(o)] = taken'[Line(o)] + k
<1> DEFINE l == Line(o)
           b == Buffer(o)
           h == Len(got[l])
           from == done[l]
           a == length[l]
           t == taken[l]
<1>1. l \in Lines /\ b \in Conns \X Ways
  BY LineType
<1>2. /\ got \in [Lines -> Seq(Byte)] /\ length \in [Lines -> 0 .. BUF_SIZE]
      /\ buf \in [Conns \X Ways -> [1 .. BUF_SIZE -> Byte]]
      /\ taken \in [Lines -> Nat] /\ done \in [Lines -> Nat]
      /\ BUF_SIZE \in Nat /\ MaxSent \in Nat
  BY DataAssumption DEF TypesData, TypeOKData
<1>3. /\ Len(got'[l]) = h + n
      /\ \A k \in 1 .. h : got'[l][k] = got[l][k]
      /\ \A j \in 1 .. n : got'[l][h + j] = buf[b][from + j]
  BY WriteKeeps
<1>4. /\ got' = [got EXCEPT ![l] = @ \o SubSeq(buf[b], from + 1, from + n)]
      /\ done' = [done EXCEPT ![l] = from + n]
      /\ taken' = taken /\ buf' = buf /\ length' = length
  BY DEF Write
<1>5. \A k \in from + 1 .. a : buf[b][k] + a = t + k
  BY DEF Holds
<1>6. h + a = t + from /\ from + n <= a
  BY <1>1 DEF Counted
<1>7. h \in Nat /\ from \in Nat /\ a \in Nat /\ t \in Nat /\ a <= BUF_SIZE
  <2>1. got[l] \in Seq(Byte)
    BY <1>1, <1>2
  <2> QED  BY <1>1, <1>2, <2>1, LenProperties
<1>8. \A k \in 1 .. h : got[l][k] = k
  BY <1>1 DEF HandedInOrder
<1> HIDE DEF l, b, h, from, a, t
<1>9. \A j \in 1 .. n : from + j \in from + 1 .. a /\ from + j \in 1 .. BUF_SIZE
  BY <1>6, <1>7, <1>2
<1>10. \A j \in 1 .. n : buf[b][from + j] \in Nat
  BY <1>1, <1>2, <1>9 DEF Byte
<1>11. \A j \in 1 .. n : buf[b][from + j] + a = t + (from + j)
  BY <1>5, <1>9
<1>12. \A j \in 1 .. n : buf[b][from + j] = h + j
  BY <1>6, <1>7, <1>10, <1>11
<1>13. \A k \in 1 .. h + n : got'[l][k] = k
  <2> SUFFICES ASSUME NEW k \in 1 .. h + n
               PROVE  got'[l][k] = k
    OBVIOUS
  <2>1. CASE k <= h
    <3>1. k \in 1 .. h
      BY <1>7, <2>1
    <3> QED  BY <1>3, <1>8, <3>1
  <2>2. CASE ~(k <= h)
    <3>1. PICK j \in 1 .. n : k = h + j
      <4>1. k - h \in 1 .. n /\ k = h + (k - h)
        BY <1>7, <2>2
      <4> QED  BY <4>1
    <3> QED  BY <1>3, <1>12, <3>1
  <2> QED  BY <2>1, <2>2
<1>14. HandedInOrder'
  <2> SUFFICES ASSUME NEW m \in Lines, NEW k \in 1 .. Len(got'[m])
               PROVE  got'[m][k] = k
    BY DEF HandedInOrder
  <2>1. CASE m = l
    BY <1>3, <1>13, <2>1
  <2>2. CASE m # l
    <3>1. got'[m] = got[m]
      BY <1>1, <1>2, <1>4, <2>2
    <3> QED  BY <3>1 DEF HandedInOrder
  <2> QED  BY <2>1, <2>2
<1>15. done'[l] = from + n /\ length'[l] = a /\ taken'[l] = t /\ buf'[b] = buf[b]
  BY <1>1, <1>2, <1>4 DEF a, t
<1>16. \A k \in (from + n) + 1 .. a : k \in from + 1 .. a
  BY <1>7
<1>17. \A k \in done'[l] + 1 .. length'[l] : buf'[b][k] + length'[l] = taken'[l] + k
  BY <1>5, <1>15, <1>16
<1> QED
  BY <1>14, <1>17 DEF l, b

\* Operations that are apart, of sessions whose connections they use, do not
\* share a buffer.
LEMMA ApartBuffers ==
  ASSUME NEW o, NEW p, Apart(o, p), o.s \in Clients,
         peer[o.c] = o.s, peer[p.c] = p.s
  PROVE  Buffer(o) # Buffer(p)
<1>1. Line(o) # Line(p)
  BY ApartLines
<1> QED
  BY <1>1 DEF Buffer, Line

\* The bytes of one direction, and the buffer it uses, are left alone.
LEMMA HoldsStays ==
  ASSUME NEW x, Holds(x),
         \/ /\ taken'[Line(x)] = taken[Line(x)]
            /\ length'[Line(x)] = length[Line(x)]
            /\ done'[Line(x)] = done[Line(x)]
            /\ buf'[Buffer(x)] = buf[Buffer(x)]
         \/ length'[Line(x)] = 0 /\ done'[Line(x)] = 0
  PROVE  \A k \in done'[Line(x)] + 1 .. length'[Line(x)] :
           buf'[Buffer(x)][k] + length'[Line(x)] = taken'[Line(x)] + k
<1>1. CASE length'[Line(x)] = 0 /\ done'[Line(x)] = 0
  <2>1. 0 + 1 .. 0 = {}
    OBVIOUS
  <2> QED  BY <1>1, <2>1
<1>2. CASE /\ taken'[Line(x)] = taken[Line(x)]
           /\ length'[Line(x)] = length[Line(x)]
           /\ done'[Line(x)] = done[Line(x)]
           /\ buf'[Buffer(x)] = buf[Buffer(x)]
  BY <1>2 DEF Holds
<1> QED
  BY <1>1, <1>2

\* What an operation that completes has done to the bytes.
LEMMA WhatMoves ==
  ASSUME TypesData, NEW o \in Ops, NEW e, Moves(o, e),
         o.h \in RelayWrites => o.s \in Clients
  PROVE  \/ /\ e = "ok" /\ o.h \in RelayReads
            /\ \E n \in 1 .. BUF_SIZE : ReadSome(o, n)
         \/ /\ o.h \in RelayWrites
            /\ \E n \in Nat : Write(o, n) /\ done[Line(o)] + n <= length[Line(o)]
         \/ /\ e # "more" /\ UNCHANGED data
            /\ e = "ok" => o.h \notin RelayReads \cup RelayWrites
<1> DEFINE a == length[Line(o)]
           d == done[Line(o)]
<1>1. ASSUME o.h \in RelayWrites
      PROVE  a \in Nat /\ d \in Nat /\ d <= a
  <2>1. Line(o) \in Lines
    BY <1>1, LineType
  <2>2. /\ length \in [Lines -> 0 .. BUF_SIZE] /\ done \in [Lines -> Nat]
        /\ \A m \in Lines : done[m] \in 0 .. length[m]
        /\ BUF_SIZE \in Nat
    BY DataAssumption DEF TypesData, TypeOKData
  <2> HIDE DEF Line
  <2> QED  BY <2>1, <2>2
<1>2. \/ /\ e = "ok" /\ o.h \in RelayReads
         /\ \E n \in 1 .. BUF_SIZE : ReadSome(o, n)
      \/ /\ o.h \in RelayWrites
         /\ \E n \in 0 .. a - d : Write(o, n)
      \/ /\ e # "more" /\ UNCHANGED data
         /\ e = "ok" => o.h \notin RelayReads \cup RelayWrites
  <2>1. CASE e = "ok" /\ o.h \in RelayWrites /\ Write(o, a - d)
    <3>1. a - d \in 0 .. a - d
      <4>1. a \in Nat /\ d \in Nat /\ d <= a
        BY <1>1, <2>1
      <4> HIDE DEF a, d
      <4> QED  BY <4>1
    <3> QED  BY <2>1, <3>1
  <2>2. CASE /\ e = "more" /\ o.h \in RelayWrites
             /\ \E n \in 1 .. a - d - 1 : Write(o, n)
    <3>1. \A n \in 1 .. a - d - 1 : n \in 0 .. a - d
      <4>1. a \in Nat /\ d \in Nat /\ d <= a
        BY <1>1, <2>2
      <4> HIDE DEF a, d
      <4> QED  BY <4>1
    <3> QED  BY <2>2, <3>1
  <2> QED  BY <2>1, <2>2, ReadFits DEF Moves
<1>3. ASSUME o.h \in RelayWrites, NEW n \in 0 .. a - d
      PROVE  n \in Nat /\ d + n <= a
  <2>1. a \in Nat /\ d \in Nat /\ d <= a
    BY <1>1, <1>3
  <2> HIDE DEF a, d
  <2> QED  BY <1>3, <2>1
<1> QED
  BY <1>2, <1>3

\* Completing an operation keeps the bytes in order: no other session uses its
\* buffer.
LEMMA CompleteCInv ==
  ASSUME TypeOK, SInv, DInv, QInv, CInv, NEW o \in pending, CompleteData(o)
  PROVE  CInv'
<1>0. /\ TypesData /\ Counted /\ Settled /\ Alone /\ HandedInOrder /\ BuffersHold
      /\ o \in Ops /\ o \in Ongoing
  BY DEF DInv, SInv, CInv, TypeOK, Ongoing
<1>1. PICK e \in Outcomes(o) : Post(o, e)
  BY DEF CompleteData, Complete
<1>2. /\ pending' = pending \ {o}
      /\ ready' = Append(ready, [op |-> o, ec |-> e])
      /\ peer' = peer
  BY <1>1 DEF Post, CompleteData, Complete
<1>3. Moves(o, e)
  <2>1. Last(ready') = [op |-> o, ec |-> e]
    BY <1>2, LastPosted
  <2> QED  BY <2>1 DEF CompleteData
<1>4. /\ o.h \in RelayReads => o.h \in Loops /\ o.h \notin RelayWrites
      /\ o.h \in RelayWrites => o.h \in Loops
      /\ o.h \in Loops => o.h # "accept"
  BY RelayNames, HandlerNames DEF Loops
<1>5. o.h \in Loops => o.s \in Clients /\ Line(o) \in Lines /\ peer[o.c] = o.s
  BY <1>0, <1>4, LoopsOwned, LineType DEF QInv, PendingOwned
<1> DEFINE This == [op |-> o, ec |-> "more"]
<1>6. This \in Underway /\ This.op = o /\ This.ec = "more"
  BY DEF Underway
<1> HIDE DEF This
<1>7. /\ o.h \in RelayReads => done[Line(o)] = length[Line(o)]
      /\ o.h \in RelayWrites => Holds(o)
  BY <1>0, <1>4, <1>5, <1>6 DEF Settled, Free, Full, BuffersHold
\* The other operations' bytes stay where they are.
<1>8. ASSUME o.h \in Loops,
             \A l \in Lines \ {Line(o)} :
               /\ taken'[l] = taken[l] /\ length'[l] = length[l]
               /\ done'[l] = done[l],
             \A b \in (Conns \X Ways) \ {Buffer(o)} : buf'[b] = buf[b],
             NEW x \in Underway, Apart(x.op, o), Full(x), peer[x.op.c] = x.op.s
      PROVE  \A k \in done'[Line(x.op)] + 1 .. length'[Line(x.op)] :
               buf'[Buffer(x.op)][k] + length'[Line(x.op)] = taken'[Line(x.op)] + k
  <2>1. x.op \in Ongoing /\ Holds(x.op)
    BY <1>0, <1>8 DEF Underway, Ongoing, BuffersHold
  <2>2. x.op \in Ops /\ x.op.h \in Loops
    BY <1>8, <2>1, OngoingTypes, RelayNames DEF Full
  <2>3. /\ x.op.s \in Clients /\ Line(x.op) \in Lines
        /\ Buffer(x.op) \in Conns \X Ways
    BY <2>1, <2>2, <1>0, LoopsOwned, LineType
  <2>4. Line(x.op) # Line(o) /\ Buffer(x.op) # Buffer(o)
    BY <1>5, <1>8, <2>3, ApartLines, ApartBuffers
  <2> QED  BY <1>8, <2>1, <2>3, <2>4, HoldsStays
<1>9. ASSUME HandedInOrder',
             \/ UNCHANGED data /\ (e = "ok" => o.h \notin RelayReads) /\ e # "more"
             \/ /\ o.h \in Loops
                /\ \A l \in Lines \ {Line(o)} :
                     taken'[l] = taken[l] /\ length'[l] = length[l]
                       /\ done'[l] = done[l]
                /\ \A b \in (Conns \X Ways) \ {Buffer(o)} : buf'[b] = buf[b]
                /\ \A k \in done'[Line(o)] + 1 .. length'[Line(o)] :
                     buf'[Buffer(o)][k] + length'[Line(o)] = taken'[Line(o)] + k
      PROVE  CInv'
  <2> SUFFICES ASSUME NEW x \in Underway', Full(x), peer[x.op.c] = x.op.s
               PROVE  \A k \in done'[Line(x.op)] + 1 .. length'[Line(x.op)] :
                        buf'[Buffer(x.op)][k] + length'[Line(x.op)]
                          = taken'[Line(x.op)] + k
    BY <1>2, <1>9 DEF CInv, BuffersHold, Holds, Full, Line, Way, Buffer
  <2>1. x = [op |-> o, ec |-> e] \/ (x \in Underway /\ Apart(x.op, o))
    BY <1>0, <1>2, PostUnderway
  <2>2. CASE UNCHANGED data /\ (e = "ok" => o.h \notin RelayReads) /\ e # "more"
    <3>1. x # [op |-> o, ec |-> e]
      BY <2>2 DEF Full
    <3>2. x \in Underway
      BY <2>1, <3>1
    <3>3. Holds(x.op)
      BY <1>0, <3>2 DEF BuffersHold
    <3>4. taken' = taken /\ length' = length /\ done' = done /\ buf' = buf
      BY <2>2 DEF data
    <3> QED  BY <3>3, <3>4, HoldsStays
  <2>3. CASE ~(UNCHANGED data /\ (e = "ok" => o.h \notin RelayReads) /\ e # "more")
    <3>1. CASE x = [op |-> o, ec |-> e]
      <4>1. x.op = o
        BY <3>1
      <4> QED  BY <1>9, <2>3, <4>1
    <3>2. CASE x \in Underway /\ Apart(x.op, o)
      BY <1>8, <1>9, <2>3, <3>2
    <3> QED  BY <2>1, <3>1, <3>2
  <2> QED  BY <2>2, <2>3
<1>10. /\ taken \in [Lines -> Nat] /\ done \in [Lines -> Nat]
       /\ length \in [Lines -> 0 .. BUF_SIZE]
       /\ buf \in [Conns \X Ways -> [1 .. BUF_SIZE -> Byte]]
       /\ \A m \in Lines : done[m] \in 0 .. length[m]
       /\ BUF_SIZE \in Nat
  BY <1>0, DataAssumption DEF TypesData, TypeOKData
<1>11. ASSUME o.h \in RelayReads, NEW n \in 1 .. BUF_SIZE, ReadSome(o, n)
       PROVE  CInv'
  <2>1. /\ got' = got
        /\ \A k \in done'[Line(o)] + 1 .. length'[Line(o)] :
             buf'[Buffer(o)][k] + length'[Line(o)] = taken'[Line(o)] + k
    BY <1>0, <1>4, <1>5, <1>11, ReadSomeHolds
  <2>2. HandedInOrder'
    BY <1>0, <2>1 DEF HandedInOrder
  <2>3. /\ \A l \in Lines \ {Line(o)} :
             /\ taken'[l] = taken[l] /\ length'[l] = length[l]
             /\ done'[l] = done[l]
        /\ \A b \in (Conns \X Ways) \ {Buffer(o)} : buf'[b] = buf[b]
    BY <1>10, <1>11 DEF ReadSome, Take
  <2> QED  BY <1>4, <1>9, <1>11, <2>1, <2>2, <2>3
<1>12. ASSUME o.h \in RelayWrites, NEW n \in Nat, Write(o, n),
              done[Line(o)] + n <= length[Line(o)]
       PROVE  CInv'
  <2>1. /\ HandedInOrder'
        /\ \A k \in done'[Line(o)] + 1 .. length'[Line(o)] :
             buf'[Buffer(o)][k] + length'[Line(o)] = taken'[Line(o)] + k
    BY <1>0, <1>4, <1>5, <1>7, <1>12, WriteHolds
  <2>2. /\ \A l \in Lines \ {Line(o)} :
             /\ taken'[l] = taken[l] /\ length'[l] = length[l]
             /\ done'[l] = done[l]
        /\ \A b \in (Conns \X Ways) \ {Buffer(o)} : buf'[b] = buf[b]
    BY <1>10, <1>12 DEF Write
  <2> QED  BY <1>4, <1>9, <1>12, <2>1, <2>2
<1>13. CASE /\ e = "ok" /\ o.h \in RelayReads
            /\ \E n \in 1 .. BUF_SIZE : ReadSome(o, n)
  BY <1>11, <1>13
<1>14. CASE o.h \in RelayWrites
            /\ \E n \in Nat : Write(o, n) /\ done[Line(o)] + n <= length[Line(o)]
  BY <1>12, <1>14
<1>15. CASE /\ e # "more" /\ UNCHANGED data
            /\ e = "ok" => o.h \notin RelayReads \cup RelayWrites
  <2>1. got' = got
    BY <1>15 DEF data
  <2>2. HandedInOrder'
    BY <1>0, <2>1 DEF HandedInOrder
  <2> QED  BY <1>9, <1>15, <2>2
<1> QED
  BY <1>0, <1>3, <1>5, <1>4, <1>13, <1>14, <1>15, WhatMoves

\* A handler that starts an operation on a full buffer has found it full.
LEMMA FullBefore ==
  ASSUME TypeOK, SInv, NEW i \in DOMAIN ready,
         NEW started \in SUBSET Ops, Steps(i, started),
         NEW x \in Underway', Full(x)
  PROVE  \E z \in Underway :
           /\ Full(z) /\ z.op \in Ops /\ z.op.h \in Loops /\ z.op.s \in Clients
           /\ Line(z.op) = Line(x.op) /\ Buffer(z.op) = Buffer(x.op)
           /\ z.op.c = x.op.c /\ z.op.s = x.op.s
<1>1. /\ IsFiniteSet(started) /\ Begin(i, started)
      /\ \A o \in started : Continues(ready[i], o)
  BY DEF Steps
<1>2. PICK y \in Underway \cup {[op |-> o, ec |-> "more"] : o \in started} :
        x.op = y.op /\ Full(y)
  BY <1>1, BeginUnderway
<1>3. ASSUME NEW z \in Underway, Full(z)
      PROVE  z.op \in Ops /\ z.op.h \in Loops /\ z.op.s \in Clients
  <2>1. z.op \in Ongoing
    BY DEF Underway, Ongoing
  <2>2. z.op \in Ops /\ z.op.h \in Loops
    BY <1>3, <2>1, OngoingTypes, RelayNames DEF Full
  <2> QED  BY <2>1, <2>2, LoopsOwned
<1>4. CASE y \in Underway
  BY <1>2, <1>3, <1>4
<1>5. CASE y \notin Underway
  <2>1. PICK o \in started : y = [op |-> o, ec |-> "more"]
    BY <1>5
  <2>2. y.op = o /\ y.ec = "more" /\ o \in Ops /\ Continues(ready[i], o)
    BY <1>1, <2>1
  <2>3. o.h \in RelayWrites /\ o.h \in Loops /\ o.h \notin RelayReads
    BY <1>2, <2>2, RelayNames DEF Full
  <2>4. ready[i] \in Underway
    BY DEF Underway
  <2>5. /\ Full(ready[i]) /\ Way(o) = Way(ready[i].op)
        /\ o.s = ready[i].op.s /\ o.c = ready[i].op.c
    BY <2>2, <2>3, HandlerNames DEF Continues, Full, Loops
  <2>6. Line(ready[i].op) = Line(x.op) /\ Buffer(ready[i].op) = Buffer(x.op)
    BY <1>2, <2>2, <2>5 DEF Line, Buffer
  <2> QED  BY <1>2, <1>3, <2>2, <2>4, <2>5, <2>6
<1> QED
  BY <1>4, <1>5

\* A handler leaves the bytes in order, be they kept or forgotten.
LEMMA HandlerInOrder ==
  ASSUME TypesData, Counted, HandedInOrder, NEW i, HandlerData(i)
  PROVE  HandedInOrder'
<1> SUFFICES ASSUME NEW l \in Lines, NEW k \in 1 .. Len(got'[l])
             PROVE  got'[l][k] = k
  BY DEF HandedInOrder
<1>1. Forgotten(l) \/ Remembered(l)
  BY HandlerDataKeeps
<1>2. CASE Forgotten(l)
  <2>1. Len(got'[l]) = 0
    BY <1>2, EmptySeq DEF Forgotten
  <2> QED  BY <2>1
<1>3. CASE Remembered(l)
  BY <1>3 DEF Remembered, HandedInOrder
<1> QED
  BY <1>1, <1>2, <1>3

LEMMA StepsCInv ==
  ASSUME TypeOK, SInv, DInv, CInv, NEW i \in DOMAIN ready, HandlerData(i),
         NEW started \in SUBSET Ops, Steps(i, started)
  PROVE  CInv'
<1>0. TypesData /\ Counted /\ HandedInOrder /\ BuffersHold
  BY DEF DInv, CInv
<1>1. HandedInOrder'
  BY <1>0, HandlerInOrder
<1> SUFFICES ASSUME NEW x \in Underway', Full(x), peer'[x.op.c] = x.op.s
             PROVE  \A k \in done'[Line(x.op)] + 1 .. length'[Line(x.op)] :
                      buf'[Buffer(x.op)][k] + length'[Line(x.op)]
                        = taken'[Line(x.op)] + k
  BY <1>1 DEF CInv, BuffersHold, Holds, Full, Line, Way, Buffer
<1>2. PICK z \in Underway :
        /\ Full(z) /\ z.op \in Ops /\ z.op.h \in Loops /\ z.op.s \in Clients
        /\ Line(z.op) = Line(x.op) /\ Buffer(z.op) = Buffer(x.op)
        /\ z.op.c = x.op.c /\ z.op.s = x.op.s
  BY FullBefore
<1>3. z.op.c \in Conns /\ Line(z.op) \in Lines /\ Buffer(z.op) \in Conns \X Ways
      /\ peer'[z.op.c] = z.op.s /\ NoClient \notin Clients
  BY <1>2, LineType, ConstantsAssumption DEF Ops
\* It was its own session's connection before.
<1>4. peer[z.op.c] = z.op.s
  <2>1. \/ peer'[z.op.c] \in {peer[z.op.c], NoClient}
        \/ ready[i].op.h = "accept" /\ peer'[z.op.c] = Session(i)
    BY <1>3 DEF Steps
  <2>2. CASE ready[i].op.h = "accept" /\ peer'[z.op.c] = Session(i)
    <3>1. z.op \in Ongoing /\ z.op # ready[i].op
      BY <1>2, <2>2, HandlerNames DEF Underway, Ongoing, Loops
    <3>2. z.op \in Others(i) /\ z.op.s = Session(i)
      BY <1>3, <2>2, <3>1, EntryAndOthers
    <3>3. ready[i].op.h \in Loops
      BY <1>2, <3>2, EntryAndOthers DEF Loops
    <3> QED  BY <2>2, <3>3, HandlerNames DEF Loops
  <2> QED  BY <1>2, <1>3, <2>1, <2>2
<1>5. Holds(z.op)
  BY <1>0, <1>2, <1>4 DEF BuffersHold
<1>6. buf'[Buffer(z.op)] = buf[Buffer(z.op)]
  <2>1. buf' = [b \in Conns \X Ways |-> IF Open(b[1])' THEN buf[b] ELSE Empty]
    BY DEF HandlerData
  <2>2. Buffer(z.op)[1] = z.op.c
    BY DEF Buffer
  <2>3. peer'[Buffer(z.op)[1]] # NoClient
    BY <1>2, <1>3, <2>2
  <2> QED  BY <1>3, <2>1, <2>3 DEF Open
<1>7. Forgotten(Line(z.op)) \/ Remembered(Line(z.op))
  BY <1>0, <1>3, HandlerDataKeeps
<1>8. \A k \in done'[Line(z.op)] + 1 .. length'[Line(z.op)] :
        buf'[Buffer(z.op)][k] + length'[Line(z.op)] = taken'[Line(z.op)] + k
  BY <1>5, <1>6, <1>7, HoldsStays DEF Forgotten, Remembered
<1> QED
  BY <1>2, <1>8

LEMMA CrashCInv ==
  ASSUME DInv, CInv, NEW i, HandlerData(i), Crash
  PROVE  CInv'
<1>1. pending' = {} /\ ready' = <<>>
  BY DEF Crash
<1>2. Underway' = {}
  <2>1. DOMAIN ready' = {}
    BY <1>1, EmptySeq
  <2> QED  BY <1>1, <2>1 DEF Underway
<1>3. HandedInOrder'
  BY HandlerInOrder DEF DInv, CInv
<1> QED
  BY <1>2, <1>3 DEF CInv, BuffersHold

\* A step that leaves the connections and the bytes that were read alone, and
\* starts no operation but an accept.
LEMMA NetworkCInv ==
  ASSUME CInv, UNCHANGED <<peer, taken, got, buf, length, done>>,
         \A x \in Underway' : x \in Underway \/ x.op.h = "accept"
  PROVE  CInv'
<1>1. /\ peer' = peer /\ taken' = taken /\ got' = got /\ buf' = buf
      /\ length' = length /\ done' = done
  OBVIOUS
<1>2. HandedInOrder'
  BY <1>1 DEF CInv, HandedInOrder
<1> SUFFICES ASSUME NEW x \in Underway', Full(x), peer[x.op.c] = x.op.s
             PROVE  \A k \in done'[Line(x.op)] + 1 .. length'[Line(x.op)] :
                      buf'[Buffer(x.op)][k] + length'[Line(x.op)]
                        = taken'[Line(x.op)] + k
  BY <1>1, <1>2 DEF CInv, BuffersHold, Holds, Full, Line, Way, Buffer
<1>3. x.op.h # "accept"
  BY RelayNames, HandlerNames DEF Full, Loops
<1>4. Holds(x.op)
  BY <1>3 DEF CInv, BuffersHold
<1> QED
  BY <1>1, <1>4, HoldsStays

LEMMA InitCInv == InitData => CInv
<1> SUFFICES ASSUME InitData
             PROVE  CInv
  OBVIOUS
<1>1. PICK c \in Conns : pending = {Accept(c)} /\ ready = <<>>
  BY DEF InitData, Init
<1>2. DOMAIN ready = {} /\ Accept(c).h = "accept"
  BY <1>1, EmptySeq DEF Accept, Op, OpArg
<1>3. \A x \in Underway : x.op.h = "accept"
  BY <1>1, <1>2 DEF Underway
<1>4. BuffersHold
  BY <1>3, RelayNames, HandlerNames DEF BuffersHold, Full, Loops
<1>5. HandedInOrder
  <2>1. \A l \in Lines : Len(got[l]) = 0
    BY EmptySeq DEF InitData
  <2> QED  BY <2>1 DEF HandedInOrder
<1> QED
  BY <1>4, <1>5 DEF CInv

LEMMA NextCInv ==
  IInv /\ SInv /\ QInv /\ DInv /\ CInv /\ [NextData]_allVars => CInv'
<1> SUFFICES ASSUME IInv, SInv, QInv, DInv, CInv, [NextData]_allVars
             PROVE  CInv'
  OBVIOUS
<1>0. TypeOK
  BY IInvParts
<1>1. ASSUME NEW i \in DOMAIN ready, HandlerData(i)
      PROVE  CInv'
  <2>1. Crash \/ \E started \in SUBSET Ops : Steps(i, started)
    BY <1>1, HandlerSteps DEF HandlerData
  <2> QED  BY <1>0, <1>1, <2>1, StepsCInv, CrashCInv
<1>2. ASSUME NEW o \in pending, CompleteData(o)
      PROVE  CInv'
  BY <1>0, <1>2, CompleteCInv
<1>3. ASSUME UNCHANGED <<pending, ready, peer>>,
             UNCHANGED <<taken, got, buf, length, done>>
      PROVE  CInv'
  <2>1. pending' = pending /\ ready' = ready
    BY <1>3
  <2>2. Underway' = Underway
    BY <2>1 DEF Underway
  <2> QED  BY <1>3, <2>2, NetworkCInv
<1>4. ASSUME NEW o \in pending, o.h = "accept", NEW q, q.h = "accept", NEW e,
             pending' = pending \ {o},
             ready' = Append(ready, [op |-> q, ec |-> e]),
             UNCHANGED peer, UNCHANGED data
      PROVE  CInv'
  <2>1. \A x \in Underway' : \/ x = [op |-> q, ec |-> e]
                             \/ x \in Underway /\ Apart(x.op, o)
    BY <1>0, <1>4, PostUnderway DEF SInv
  <2>2. \A x : x = [op |-> q, ec |-> e] => x.op.h = "accept"
    BY <1>4
  <2>3. UNCHANGED <<peer, taken, got, buf, length, done>>
    BY <1>4 DEF data
  <2> QED  BY <2>1, <2>2, <2>3, NetworkCInv
<1>5. CASE AcceptFails /\ UNCHANGED data
  <2>1. PICK o \in pending : o.h = "accept" /\ Post(o, "err")
    BY <1>5 DEF AcceptFails
  <2> QED  BY <1>4, <1>5, <2>1 DEF Post, AcceptFails
<1>6. ASSUME NEW s \in Clients, AcceptClientData(s)
      PROVE  CInv'
  <2>1. PICK o \in pending :
          /\ o.h = "accept"
          /\ pending' = pending \ {o}
          /\ ready' = Append(ready, [op |-> [o EXCEPT !.s = s], ec |-> "ok"])
    BY <1>6 DEF AcceptClientData, AcceptClient
  <2> DEFINE q == [o EXCEPT !.s = s]
  <2>2. q.h = "accept"
    BY <1>0, <2>1 DEF TypeOK, Ops
  <2>3. ready' = Append(ready, [op |-> q, ec |-> "ok"])
    BY <2>1
  <2> HIDE DEF q
  <2>4. UNCHANGED peer /\ UNCHANGED data
    BY <1>6 DEF AcceptClientData, AcceptClient
  <2> QED  BY <1>4, <2>1, <2>2, <2>3, <2>4
<1>7. ASSUME NEW s \in Clients, (Connect(s) /\ UNCHANGED data) \/ EndLeaves(s)
      PROVE  CInv'
  BY <1>3, <1>7 DEF Connect, EndLeaves, ClientLeaves, RemoteLeaves, data
<1>8. ASSUME NEW s \in Clients, NEW w \in Ways, Send(s, w)
      PROVE  CInv'
  BY <1>3, <1>8 DEF Send, vars
<1>9. CASE UNCHANGED allVars
  BY <1>3, <1>9 DEF allVars, vars, data
<1> QED
  BY <1>1, <1>2, <1>5, <1>6, <1>7, <1>8, <1>9 DEF NextData

\* The invariant of this section holds in every reachable state.
THEOREM InductiveContents ==
  ASSUME Ordered
  PROVE  FairSpec => []CInv
<1> QED
  BY InitCInv, NextCInv, DataOfProxy, Inductive, InductiveReplies,
     InductiveOrder, InductiveBytes, PTL DEF FairSpec

-----------------------------------------------------------------------------
(***************************************************************************)
(* RelayedData implements Stream.                                          *)
(***************************************************************************)

\* What is handed on is a beginning of what was sent.
Begins == \A l \in Lines : /\ got[l] = [k \in 1 .. Len(got[l]) |-> k]
                            /\ Len(got[l]) \in Nat /\ Len(got[l]) <= sent[l]

LEMMA HandedOn == TypesData /\ Counted /\ HandedInOrder => Begins
<1> SUFFICES ASSUME TypesData, Counted, HandedInOrder, NEW l \in Lines
             PROVE  /\ got[l] = [k \in 1 .. Len(got[l]) |-> k]
                    /\ Len(got[l]) \in Nat /\ Len(got[l]) <= sent[l]
  BY DEF Begins
<1>1. /\ got[l] \in Seq(Byte) /\ sent[l] \in Byte
      /\ length[l] \in 0 .. BUF_SIZE /\ taken[l] \in Nat /\ done[l] \in Nat
      /\ taken[l] \in 0 .. sent[l] /\ done[l] \in 0 .. length[l]
      /\ BUF_SIZE \in Nat /\ MaxSent \in Nat
  BY DataAssumption DEF TypesData, TypeOKData
<1>2. /\ Len(got[l]) \in Nat /\ DOMAIN got[l] = 1 .. Len(got[l])
      /\ got[l] \in [1 .. Len(got[l]) -> Byte]
  BY <1>1, LenProperties
<1>3. \A k \in 1 .. Len(got[l]) : got[l][k] = k
  BY DEF HandedInOrder
<1>4. got[l] = [k \in 1 .. Len(got[l]) |-> k]
  BY <1>2, <1>3
<1>5. Len(got[l]) + length[l] = taken[l] + done[l]
  BY DEF Counted
<1> DEFINE h == Len(got[l])
           a == length[l]
           t == taken[l]
           d == done[l]
           z == sent[l]
<1>6. /\ h + a = t + d /\ t <= z /\ d <= a
      /\ h \in Nat /\ a \in Nat /\ t \in Nat /\ d \in Nat /\ z \in Nat
  BY <1>1, <1>2, <1>5 DEF Byte
<1> HIDE DEF h, a, t, d, z
<1>7. h <= z
  BY <1>6
<1> QED
  BY <1>2, <1>4, <1>7 DEF h, z

\* A write hands on, unless it has nothing to write.
LEMMA WriteHandsOn ==
  ASSUME TypesData, Counted, HandedInOrder, NEW o \in Ops, o.s \in Clients,
         NEW n \in Nat, Write(o, n), done[Line(o)] + n <= length[Line(o)],
         HandedInOrder'
  PROVE  Streams!HandOn(Line(o)) \/ UNCHANGED Streams!vars
<1> DEFINE l == Line(o)
<1>1. l \in Lines
  BY LineType
<1>2. /\ TypesData' /\ Counted'
      /\ Len(got'[l]) = Len(got[l]) + n
  BY WriteKeeps
<1>3. /\ got' = [got EXCEPT ![l] =
                  @ \o SubSeq(buf[Buffer(o)], done[l] + 1, done[l] + n)]
      /\ sent' = sent
  BY DEF Write
<1> HIDE DEF l
<1>4. got \in [Lines -> Seq(Byte)]
  BY DEF TypesData, TypeOKData
<1>5. got' = [got EXCEPT ![l] = got'[l]]
  BY <1>1, <1>3, <1>4
<1>6. /\ got[l] = [k \in 1 .. Len(got[l]) |-> k] /\ Len(got[l]) \in Nat
  BY <1>1, HandedOn DEF Begins
<1>7. /\ got'[l] = [k \in 1 .. Len(got'[l]) |-> k]
      /\ Len(got'[l]) \in Nat /\ Len(got'[l]) <= sent'[l]
  <2>1. Begins'
    BY <1>2, HandedOn, PTL
  <2> QED  BY <1>1, <2>1 DEF Begins
<1>8. CASE n = 0
  <2>1. got'[l] = got[l]
    BY <1>2, <1>6, <1>7, <1>8
  <2>2. got' = got
    BY <1>1, <1>4, <1>5, <2>1
  <2> QED  BY <1>3, <2>2 DEF Streams!vars
<1>9. CASE n # 0
  <2> DEFINE m == Len(got'[l])
             h == Len(got[l])
  <2>1. m = h + n /\ m <= sent[l] /\ m \in Nat /\ h \in Nat /\ sent[l] \in Nat
    BY <1>1, <1>2, <1>3, <1>6, <1>7, DataAssumption DEF TypesData, TypeOKData, Byte
  <2> HIDE DEF m, h
  <2>2. m \in h + 1 .. sent[l]
    BY <1>9, <2>1
  <2>3. got' = [got EXCEPT ![l] = [k \in 1 .. m |-> k]]
    BY <1>5, <1>7 DEF m
  <2> QED  BY <1>3, <2>2, <2>3 DEF Streams!HandOn, h, l
<1> QED
  BY <1>8, <1>9

\* A handler begins the sessions without a remote socket anew.
LEMMA HandlerRestarts ==
  ASSUME TypesData, NEW i, HandlerData(i)
  PROVE  \E L \in SUBSET Lines : Streams!Restart(L)
<1> DEFINE L == {l \in Lines : remote'[l[1]] = "none"}
<1>1. /\ sent' = [l \in Lines |-> IF remote'[l[1]] = "none" THEN 0 ELSE sent[l]]
      /\ got' = [l \in Lines |-> IF remote'[l[1]] = "none" THEN <<>> ELSE got[l]]
  BY DEF HandlerData
<1>2. \A l \in Lines : l \in L <=> remote'[l[1]] = "none"
  OBVIOUS
<1>3. L \in SUBSET Lines
  OBVIOUS
<1> HIDE DEF L
<1>4. /\ sent' = [l \in Lines |-> IF l \in L THEN 0 ELSE sent[l]]
      /\ got' = [l \in Lines |-> IF l \in L THEN <<>> ELSE got[l]]
  BY <1>1, <1>2
<1> QED
  BY <1>3, <1>4 DEF Streams!Restart

\* Each step is one of the streams', or none.
LEMMA StreamStep ==
  ASSUME TypeOK, SInv, DInv, CInv, CInv', [NextData]_allVars
  PROVE  [Streams!Next]_(Streams!vars)
<1>0. TypesData /\ Counted /\ Settled /\ HandedInOrder /\ HandedInOrder'
  BY DEF DInv, CInv
<1>1. ASSUME UNCHANGED data
      PROVE  UNCHANGED Streams!vars
  BY <1>1 DEF data, Streams!vars
<1>2. ASSUME NEW i \in DOMAIN ready, HandlerData(i)
      PROVE  Streams!Next
  BY <1>0, <1>2, HandlerRestarts DEF Streams!Next
<1>3. ASSUME NEW o \in pending, CompleteData(o)
      PROVE  [Streams!Next]_(Streams!vars)
  <2>1. PICK e \in Outcomes(o) : Post(o, e)
    BY <1>3 DEF CompleteData, Complete
  <2>2. Last(ready') = [op |-> o, ec |-> e]
    BY <2>1, LastPosted DEF Post
  <2>3. Moves(o, e)
    BY <1>3, <2>2 DEF CompleteData
  <2>4. o \in Ops /\ o \in Ongoing
    BY DEF TypeOK, Ongoing
  <2>5. /\ o.h \in RelayReads => o.h \in Loops
        /\ o.h \in RelayWrites => o.h \in Loops
    BY RelayNames
  <2>6. o.h \in Loops => o.s \in Clients /\ Line(o) \in Lines
    BY <2>4, LoopsOwned, LineType
  <2>7. CASE \E n \in 1 .. BUF_SIZE : ReadSome(o, n)
    BY <2>7 DEF ReadSome, Take, Streams!vars
  <2>8. CASE /\ o.h \in RelayWrites
             /\ \E n \in Nat : Write(o, n) /\ done[Line(o)] + n <= length[Line(o)]
    BY <1>0, <2>4, <2>5, <2>6, <2>8, WriteHandsOn DEF Streams!Next
  <2>9. CASE UNCHANGED data
    BY <1>1, <2>9
  <2> QED  BY <1>0, <2>3, <2>4, <2>5, <2>6, <2>7, <2>8, <2>9, WhatMoves
<1>4. ASSUME NEW s \in Clients, NEW w \in Ways, Send(s, w)
      PROVE  Streams!Next
  <2>1. <<s, w>> \in Lines
    BY DEF Lines
  <2>2. Streams!Send(<<s, w>>)
    BY <1>4 DEF Send, Streams!Send
  <2> QED  BY <2>1, <2>2 DEF Streams!Next
<1>5. ASSUME NEW s \in Clients, EndLeaves(s) \/ AcceptClientData(s)
      PROVE  UNCHANGED Streams!vars
  BY <1>1, <1>5 DEF EndLeaves, AcceptClientData
<1>6. CASE UNCHANGED allVars
  BY <1>1, <1>6 DEF allVars
<1> QED
  BY <1>1, <1>2, <1>3, <1>4, <1>5, <1>6 DEF NextData

\* Each end of a session is handed what the other sent, each byte once and in
\* order: no read overwrites what is still to be written.
\* proxy_server.cpp:210-291, connection.h:41-42.
THEOREM RelayImplementsStream ==
  ASSUME Ordered
  PROVE  FairSpec => StreamsKept
<1>1. InitData => Streams!Init
  BY DEF InitData, Streams!Init
<1>2. TypeOK /\ SInv /\ DInv /\ CInv /\ CInv' /\ [NextData]_allVars
        => [Streams!Next]_(Streams!vars)
  BY StreamStep
<1> QED
  BY <1>1, <1>2, DataOfProxy, TypeCorrect, InductiveReplies, InductiveBytes,
     InductiveContents, PTL DEF FairSpec, StreamsKept, Streams!Spec
=============================================================================
