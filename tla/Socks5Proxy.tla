---------------------------- MODULE Socks5Proxy ----------------------------
(***************************************************************************)
(* The SOCKS5 proxy of proxy/src: one thread running io_ctx.run(), a chain *)
(* of asynchronous handlers per client session, and a pool of Connection   *)
(* objects that sessions reuse.                                            *)
(*                                                                         *)
(* A handler runs to completion, so each handler is one action.  What lies *)
(* between two handlers is Boost.Asio: an operation is "pending" from the  *)
(* call that starts it until the reactor posts its completion on the       *)
(* queue "ready" of the io_context, where its handler waits to be run.  A  *)
(* session is named after the client it was accepted for; the bytes of a   *)
(* message are chosen, as a whole, when its handler looks at them.         *)
(***************************************************************************)
EXTENDS Naturals, Sequences, FiniteSets, SequencesExt

CONSTANTS
  Clients,        \* TCP clients
  Returning,      \* those that may connect again after a session
  Conns,          \* identities for Connection objects
  NoClient,       \* the peer of a socket that is not open
  Hosts,          \* domain names a client may ask for
  Inputs,         \* what clients may send, a subset of AllInputs
  ConnectErrors,  \* the error codes async_connect may report
  Faults,         \* environment faults, a subset of AllFaults
  Fifo            \* TRUE: the queue is run first in, first out

AllInputs == {"few", "many", "notSocks5",             \* greeting
              "connect", "notConnect",                \* request
              "IPv4", "DOMAIN_NAME", "otherType",     \* address type
              "zeroByte", "otherByte"}                \* see getDomainLength
AllConnectErrors ==
  {"network_unreachable", "host_unreachable", "connection_refused",
   "timed_out", "address_family_not_supported", "other"}
\* "overrun": a client sends more than to_server_buf has room for to a read
\* that asks for that much.
AllFaults == {"reset", "accept", "partial", "overrun"}

ASSUME ConstantsAssumption ==
  /\ Returning \subseteq Clients
  /\ NoClient \notin Clients
  /\ Inputs \subseteq AllInputs
  /\ ConnectErrors \subseteq AllConnectErrors
  /\ Faults \subseteq AllFaults
  /\ Fifo \in BOOLEAN

VARIABLES
  alive,          \* no exception has left io_ctx.run()
  pool,           \* ConnectionPool::connections
  pool_size,      \* ConnectionPool::pool_size
  resolved_hosts, \* the keys of the map; it only ever holds 0.0.0.0
  peer,           \* the client each Connection's socket is open to
  client,         \* the TCP connection of each client
  remote,         \* the remote_socket of each session
  pending,        \* operations started and not yet posted
  ready           \* the completion queue of io_ctx

vars == <<alive, pool, pool_size, resolved_hosts, peer, client, remote,
          pending, ready>>

(***************************************************************************)
(* Operations.  An operation is named after the handler bound to it; the   *)
(* name also tells which socket it waits on and in which direction.        *)
(***************************************************************************)
ClientReads ==
  {"readAuthMethods", "sendServerChoice", "readAddressType",
   "handleAddress", "readIPv4Address", "getDomainLength", "getDomainName",
   "sendDataToServer"}
ClientWrites == {"handleConnectionRequest", "startDataTransfer",
                 "addConnection", "recvDataFromServer"}
RemoteReads  == {"sendDataToClient"}
RemoteWrites == {"recvDataFromClient"}
UpLoop   == {"sendDataToServer", "recvDataFromClient"}
DownLoop == {"sendDataToClient", "recvDataFromServer"}
Handlers == ClientReads \cup ClientWrites \cup RemoteReads
              \cup RemoteWrites \cup {"accept", "sendServerResponse"}

\* The handlers whose bind() holds the session's remote_socket.
RemoteHolders ==
  {"sendServerResponse", "startDataTransfer"} \cup UpLoop \cup DownLoop

Replies == {"SUCCESS", "NETWORK_UNREACHABLE", "HOST_UNREACHABLE",
            "CONNECTION_REFUSED", "TTL_EXPIRED",
            "ADDRESS_TYPE_NOT_SUPPORTED"}

\* arg is the reply code of a reply being written; "excess" marks a read
\* that asks for more bytes than the client's message has.
Ops == [h : Handlers, c : Conns, s : Clients \cup {NoClient},
        arg : Replies \cup {"none", "excess"}]
Results == {"ok", "more", "err"} \cup AllConnectErrors

OpArg(h, c, s, a) == [h |-> h, c |-> c, s |-> s, arg |-> a]
Op(h, c, s) == OpArg(h, c, s, "none")

Open(c) == peer[c] # NoClient

\* What a client becomes when the proxy has closed its connection.
Dropped(s) == IF s \in Returning THEN "idle" ELSE "gone"

\* The socket of an operation is still open.
Attached(o) ==
  CASE o.h \in ClientReads \cup ClientWrites -> Open(o.c)
    [] o.h \in RemoteReads \cup RemoteWrites ->
         remote[o.s] \in {"up", "fin", "rst"}
    [] OTHER -> TRUE

(***************************************************************************)
(* The completion queue.                                                   *)
(***************************************************************************)
Runnable == IF Fifo THEN DOMAIN ready \cap {1} ELSE DOMAIN ready

\* The entry i of the queue is run, and its handler is h.
Runs(i, h) == i \in Runnable /\ ready[i].op.h = h

Conn(i) == ready[i].op.c
Session(i) == ready[i].op.s
Succeeded(i) == ready[i].ec = "ok"
Failed(i) == ready[i].ec \notin {"ok", "more"}

\* The operations a handler run from entry i does not consume.
Others(i) == pending \cup {ready[j].op : j \in DOMAIN ready \ {i}}

\* What the handler run from entry i does to the operations: entry i is
\* consumed and those in started are begun.  Closing a socket posts the
\* operations that wait on it, in some order, and so does beginning one on a
\* closed socket.
Begin(i, started) ==
  LET begun   == pending \cup started
      aborted == {o \in begun : ~Attached(o)'}
  IN /\ pending' = begun \ aborted
     /\ \E order \in SetToSeqs(aborted) :
          ready' = RemoveAt(ready, i)
                     \o [k \in DOMAIN order |-> [op |-> order[k], ec |-> "err"]]

(***************************************************************************)
(* ConnectionPool.                                                         *)
(***************************************************************************)

\* Variants of addConnection with a plausible bug: is_open() is not asked;
\* the counter is forgotten.
addConnectionUnchecked(c) ==
  /\ pool' = Append(pool, c)
  /\ pool_size' = pool_size + 1
  /\ peer' = [peer EXCEPT ![c] = NoClient]
  /\ client' = IF Open(c) THEN [client EXCEPT ![peer[c]] = Dropped(peer[c])]
                          ELSE client
addConnectionUncounted(c) ==
  IF Open(c)
  THEN /\ pool' = Append(pool, c)
       /\ peer' = [peer EXCEPT ![c] = NoClient]
       /\ client' = [client EXCEPT ![peer[c]] = Dropped(peer[c])]
       /\ UNCHANGED pool_size
  ELSE UNCHANGED <<pool, pool_size, peer, client>>

\* ConnectionPool::addConnection: close an open connection and keep it.
addConnection(c) ==
  IF Open(c)
  THEN /\ pool' = Append(pool, c)
       /\ pool_size' = pool_size + 1
       /\ peer' = [peer EXCEPT ![c] = NoClient]
       /\ client' = [client EXCEPT ![peer[c]] = Dropped(peer[c])]
  ELSE UNCHANGED <<pool, pool_size, peer, client>>

\* make_shared<Connection>: an object nobody holds, its socket not open.
Fresh(c) == /\ ~Open(c)
            /\ c \notin ToSet(pool)
            /\ \A o \in pending : o.c # c
            /\ \A i \in DOMAIN ready : ready[i].op.c # c

\* Variant with a bug: the connection stays in the pool.
getConnectionUnpopped(c) ==
  IF pool = <<>>
  THEN Fresh(c) /\ UNCHANGED <<pool, pool_size>>
  ELSE c = Last(pool) /\ UNCHANGED <<pool, pool_size>>

\* ConnectionPool::getConnection returns c.
getConnection(c) ==
  IF pool = <<>>
  THEN Fresh(c) /\ UNCHANGED <<pool, pool_size>>
  ELSE /\ c = Last(pool)
       /\ pool' = Front(pool)
       /\ pool_size' = pool_size - 1

(***************************************************************************)
(* How a handler ends.                                                     *)
(***************************************************************************)

\* The session goes on with the operations in started.
Proceed(i, started) ==
  /\ UNCHANGED <<alive, pool, pool_size, resolved_hosts, peer, client,
                 remote>>
  /\ Begin(i, started)

\* The session is given up before it has a remote socket.
GiveUp(i) == /\ addConnection(Conn(i))
             /\ UNCHANGED <<alive, resolved_hosts, remote>>
             /\ Begin(i, {})

\* Variant with a bug: the remote socket is left open while it is held.
closeRemoteNever(i) ==
  LET s == Session(i)
      held == \E o \in Others(i) : o.s = s /\ o.h \in RemoteHolders
  IN remote' = [remote EXCEPT ![s] = IF held THEN @ ELSE "none"]

\* Releasing the last reference destroys a remote socket; until then
\* shutdown() throws on one the peer has reset, the handler swallows the
\* exception, and close() is never reached.
closeRemote(i) ==
  LET s == Session(i)
      held == \E o \in Others(i) : o.s = s /\ o.h \in RemoteHolders
  IN remote' = [remote EXCEPT ![s] = IF ~held THEN "none"
                                     ELSE IF @ = "rst" THEN @
                                     ELSE "closed"]

\* The relaying session is given up: the connection first, then the remote.
HangUp(i) == /\ addConnection(Conn(i))
             /\ closeRemote(i)
             /\ UNCHANGED <<alive, resolved_hosts>>
             /\ Begin(i, {})

\* An exception leaves io_ctx.run(): main() prints it and the process ends.
Crash == /\ alive' = FALSE
         /\ pool' = <<>> /\ pool_size' = 0
         /\ resolved_hosts' = {}
         /\ peer' = [c \in Conns |-> NoClient]
         /\ client' = [s \in Clients |-> Dropped(s)]
         /\ remote' = [s \in Clients |-> "none"]
         /\ pending' = {} /\ ready' = <<>>

(***************************************************************************)
(* Accepting clients.                                                      *)
(***************************************************************************)
Accept(c) == Op("accept", c, NoClient)

\* The constructor and start().
Init == /\ alive = TRUE
        /\ pool = <<>> /\ pool_size = 0
        /\ resolved_hosts = {}
        /\ peer = [c \in Conns |-> NoClient]
        /\ client = [s \in Clients |-> "idle"]
        /\ remote = [s \in Clients |-> "none"]
        /\ \E c \in Conns : pending = {Accept(c)}
        /\ ready = <<>>

\* Variant with a bug: the next accept is started only after a success.
acceptConnectionOnce(i) ==
  /\ Runs(i, "accept")
  /\ \/ ~Succeeded(i) /\ Proceed(i, {})
     \/ /\ Succeeded(i)
        /\ peer' = [peer EXCEPT ![Conn(i)] = Session(i)]
        /\ UNCHANGED <<alive, resolved_hosts, client, remote>>
        /\ \E c \in Conns :
             /\ getConnection(c)
             /\ Begin(i, {Op("readAuthMethods", Conn(i), Session(i)),
                          Accept(c)})

\* The lambda given to async_accept.  A client that is already gone makes
\* remote_endpoint() throw.
acceptConnection(i) ==
  /\ Runs(i, "accept")
  /\ \/ /\ Succeeded(i)
        /\ client[Session(i)] = "rst"
        /\ Crash
     \/ /\ ~Succeeded(i)
        /\ UNCHANGED <<alive, resolved_hosts, peer, client, remote>>
        /\ \E c \in Conns : getConnection(c) /\ Begin(i, {Accept(c)})
     \/ /\ Succeeded(i)
        /\ client[Session(i)] # "rst"
        /\ peer' = [peer EXCEPT ![Conn(i)] = Session(i)]
        /\ UNCHANGED <<alive, resolved_hosts, client, remote>>
        /\ \E c \in Conns :
             /\ getConnection(c)
             /\ Begin(i, {Op("readAuthMethods", Conn(i), Session(i)),
                          Accept(c)})

(***************************************************************************)
(* The handshake: one chain of handlers, one operation at a time.          *)
(***************************************************************************)

\* The number of methods is a signed char: from 128 on it becomes a size_t
\* no client can satisfy, and nothing keeps the read within to_server_buf.
readAuthMethods(i) ==
  /\ Runs(i, "readAuthMethods")
  /\ \/ /\ Succeeded(i)
        /\ \E m \in Inputs \cap {"few", "many"} :
             Proceed(i, {OpArg("sendServerChoice", Conn(i), Session(i),
                               IF m = "many" THEN "excess" ELSE "none")})
     \/ /\ Failed(i) \/ (Succeeded(i) /\ "notSocks5" \in Inputs)
        /\ GiveUp(i)

\* Variant with a bug: an error is only logged.
sendServerChoiceLogsOnly(i) ==
  /\ Runs(i, "sendServerChoice")
  /\ IF Succeeded(i)
     THEN Proceed(i, {Op("handleConnectionRequest", Conn(i), Session(i))})
     ELSE Failed(i) /\ Proceed(i, {})

sendServerChoice(i) ==
  /\ Runs(i, "sendServerChoice")
  /\ \/ /\ Succeeded(i)
        /\ Proceed(i, {Op("handleConnectionRequest", Conn(i), Session(i))})
     \/ Failed(i) /\ GiveUp(i)

handleConnectionRequest(i) ==
  /\ Runs(i, "handleConnectionRequest")
  /\ \/ /\ Succeeded(i)
        /\ Proceed(i, {Op("readAddressType", Conn(i), Session(i))})
     \/ Failed(i) /\ GiveUp(i)

readAddressType(i) ==
  /\ Runs(i, "readAddressType")
  /\ \/ /\ Succeeded(i) /\ "connect" \in Inputs
        /\ Proceed(i, {Op("handleAddress", Conn(i), Session(i))})
     \/ /\ Failed(i) \/ (Succeeded(i) /\ "notConnect" \in Inputs)
        /\ GiveUp(i)

handleAddress(i) ==
  /\ Runs(i, "handleAddress")
  /\ \/ /\ Succeeded(i) /\ "IPv4" \in Inputs
        /\ Proceed(i, {Op("readIPv4Address", Conn(i), Session(i))})
     \/ /\ Succeeded(i) /\ "DOMAIN_NAME" \in Inputs
        /\ Proceed(i, {Op("getDomainLength", Conn(i), Session(i))})
     \/ /\ Failed(i) \/ (Succeeded(i) /\ "otherType" \in Inputs)
        /\ GiveUp(i)

readIPv4Address(i) ==
  /\ Runs(i, "readIPv4Address")
  /\ \/ /\ Succeeded(i)
        /\ remote' = [remote EXCEPT ![Session(i)] = "connecting"]
        /\ UNCHANGED <<alive, pool, pool_size, resolved_hosts, peer, client>>
        /\ Begin(i, {Op("sendServerResponse", Conn(i), Session(i))})
     \/ Failed(i) /\ GiveUp(i)

\* memcpy sets one byte of the two of name_length.  Unless the other one
\* happens to be zero the read asks for more than the name, up to 65537 bytes
\* into a buffer of 8192; a client that sends them all finds itself where the
\* zero byte takes the others, at the end of the session.
getDomainLength(i) ==
  /\ Runs(i, "getDomainLength")
  /\ \/ /\ Succeeded(i)
        /\ \E b \in Inputs \cap {"zeroByte", "otherByte"} :
             Proceed(i, {OpArg("getDomainName", Conn(i), Session(i),
                               IF b = "otherByte" THEN "excess" ELSE "none")})
     \/ Failed(i) /\ GiveUp(i)

\* Nothing follows a domain name: looking it up only adds a key to the map,
\* and the last reference to the connection goes, which closes its socket.
getDomainName(i) ==
  /\ Runs(i, "getDomainName")
  /\ \/ /\ Succeeded(i)
        /\ \E host \in Hosts :
             resolved_hosts' = resolved_hosts \cup {host}
        /\ IF Open(Conn(i)) /\ \A o \in Others(i) : o.c # Conn(i)
           THEN /\ peer' = [peer EXCEPT ![Conn(i)] = NoClient]
                /\ client' = [client EXCEPT ![peer[Conn(i)]] =
                                            Dropped(peer[Conn(i)])]
           ELSE UNCHANGED <<peer, client>>
        /\ UNCHANGED <<alive, pool, pool_size, remote>>
        /\ Begin(i, {})
     \/ Failed(i) /\ GiveUp(i)

\* Variant with a bug: timed_out is not in the list.
getConnectionErrorShort(ec) ==
  CASE ec = "network_unreachable" -> "NETWORK_UNREACHABLE"
    [] ec = "host_unreachable" -> "HOST_UNREACHABLE"
    [] ec = "connection_refused" -> "CONNECTION_REFUSED"
    [] ec = "address_family_not_supported" -> "ADDRESS_TYPE_NOT_SUPPORTED"
    [] OTHER -> "SUCCESS"

getConnectionError(ec) ==
  CASE ec = "network_unreachable" -> "NETWORK_UNREACHABLE"
    [] ec = "host_unreachable" -> "HOST_UNREACHABLE"
    [] ec = "connection_refused" -> "CONNECTION_REFUSED"
    [] ec = "timed_out" -> "TTL_EXPIRED"
    [] ec = "address_family_not_supported" -> "ADDRESS_TYPE_NOT_SUPPORTED"
    [] OTHER -> "SUCCESS"

\* Variant with a bug: the error code is put into the reply only.
sendServerResponseAlways(i) ==
  /\ Runs(i, "sendServerResponse")
  /\ Proceed(i, {OpArg("startDataTransfer", Conn(i), Session(i),
                       getConnectionError(ready[i].ec))})

\* On success remote_endpoint() throws if the remote has already reset.
\* After a failure the write's handler is ConnectionPool::addConnection, and
\* nothing holds the remote socket any more.
sendServerResponse(i) ==
  LET reply == getConnectionError(ready[i].ec) IN
  /\ Runs(i, "sendServerResponse")
  /\ \/ /\ Succeeded(i)
        /\ remote[Session(i)] = "rst"
        /\ Crash
     \/ /\ Succeeded(i)
        /\ remote[Session(i)] # "rst"
        /\ Proceed(i, {OpArg("startDataTransfer", Conn(i), Session(i), reply)})
     \/ /\ Failed(i)
        /\ remote' = [remote EXCEPT ![Session(i)] = "none"]
        /\ UNCHANGED <<alive, pool, pool_size, resolved_hosts, peer, client>>
        /\ Begin(i, {OpArg("addConnection", Conn(i), Session(i), reply)})

\* The failure reply is written, or could not be.
replyWritten(i) == /\ Runs(i, "addConnection")
                   /\ Succeeded(i) \/ Failed(i)
                   /\ GiveUp(i)

(***************************************************************************)
(* The relay: two loops that share the connection and the remote socket.   *)
(***************************************************************************)
Relay(i, h, next) ==
  /\ Runs(i, h)
  /\ \/ /\ Succeeded(i)
        /\ Proceed(i, {Op(n, Conn(i), Session(i)) : n \in next})
     \/ Failed(i) /\ HangUp(i)

\* Variants with a bug: one direction is never started; a loop starts the
\* other one again.
startDataTransferOneWay(i) ==
  Relay(i, "startDataTransfer", {"sendDataToServer"})
recvDataFromClientBoth(i) ==
  Relay(i, "recvDataFromClient", {"sendDataToServer", "sendDataToClient"})

\* Variant with a bug: the next read is started along with the write.
sendDataToServerEager(i) ==
  Relay(i, "sendDataToServer", {"recvDataFromClient", "sendDataToServer"})

startDataTransfer(i) ==
  Relay(i, "startDataTransfer", {"sendDataToServer", "sendDataToClient"})
sendDataToServer(i) == Relay(i, "sendDataToServer", {"recvDataFromClient"})
recvDataFromClient(i) == Relay(i, "recvDataFromClient", {"sendDataToServer"})
sendDataToClient(i) == Relay(i, "sendDataToClient", {"recvDataFromServer"})
recvDataFromServer(i) == Relay(i, "recvDataFromServer", {"sendDataToClient"})

(***************************************************************************)
(* Boost.Asio and the network.                                             *)
(***************************************************************************)

\* async_read and async_write move a message in pieces, through an
\* intermediate handler that asks the same socket for the rest.
Composed == (ClientReads \cup ClientWrites \cup RemoteWrites)
              \ {"sendDataToServer", "handleAddress", "getDomainLength"}

\* A FIN is next in the receive queue; a RST may have data before it.
Readable(tcp) == CASE tcp = "up"  -> {"ok"}
                   [] tcp = "fin" -> {"err"}
                   [] tcp = "rst" -> {"ok", "err"}
                   [] OTHER -> {}
Writable(tcp) == CASE tcp = "up"  -> {"ok"}
                   [] tcp = "fin" -> {"ok", "err"}
                   [] tcp = "rst" -> {"err"}
                   [] OTHER -> {}

Transfer(o) ==
  CASE o.h \in ClientReads  -> Readable(client[peer[o.c]])
    [] o.h \in ClientWrites -> Writable(client[peer[o.c]])
    [] o.h \in RemoteReads  -> Readable(remote[o.s])
    [] o.h \in RemoteWrites -> Writable(remote[o.s])
    [] o.h = "sendServerResponse" -> {"ok"} \cup ConnectErrors
    [] OTHER -> {}

Overruns(o) == o.arg = "excess" /\ "overrun" \in Faults

Outcomes(o) ==
  {e \in Transfer(o) : ~(o.arg = "excess" /\ e = "ok")}
    \cup (IF /\ "partial" \in Faults \/ Overruns(o)
             /\ o.h \in Composed
             /\ "ok" \in Transfer(o)
          THEN {"more"} ELSE {})

Post(o, e) == /\ pending' = pending \ {o}
              /\ ready' = Append(ready, [op |-> o, ec |-> e])

Complete(o) ==
  /\ \E e \in Outcomes(o) :
       /\ Post(o, e)
       /\ remote' = IF o.h = "sendServerResponse"
                    THEN [remote EXCEPT ![o.s] = IF e = "ok" THEN "up"
                                                             ELSE "failed"]
                    ELSE remote
  /\ UNCHANGED <<alive, pool, pool_size, resolved_hosts, peer, client>>

\* The intermediate handler of a composed operation.  What has been written
\* past the end of the buffer may change nothing that is used (to_client_buf
\* comes next) or end the process.
continueTransfer(i) == /\ \E h \in Composed : Runs(i, h)
                       /\ ready[i].ec = "more"
                       /\ \/ Proceed(i, {ready[i].op})
                          \/ Overruns(ready[i].op) /\ Crash

\* The kernel hands the connection of client s to the acceptor.
AcceptClient(s) ==
  /\ client[s] = "backlog"
  /\ \E o \in pending :
       /\ o.h = "accept"
       /\ pending' = pending \ {o}
       /\ ready' = Append(ready, [op |-> [o EXCEPT !.s = s], ec |-> "ok"])
  /\ client' = [client EXCEPT ![s] = "up"]
  /\ UNCHANGED <<alive, pool, pool_size, resolved_hosts, peer, remote>>

AcceptFails ==
  /\ "accept" \in Faults
  /\ \E o \in pending : o.h = "accept" /\ Post(o, "err")
  /\ UNCHANGED <<alive, pool, pool_size, resolved_hosts, peer, client, remote>>

\* A client whose earlier session has left no trace connects.
Connect(s) ==
  /\ alive
  /\ client[s] = "idle"
  /\ \A o \in pending : o.s # s
  /\ \A i \in DOMAIN ready : ready[i].op.s # s
  /\ client' = [client EXCEPT ![s] = "backlog"]
  /\ UNCHANGED <<alive, pool, pool_size, resolved_hosts, peer, remote,
                 pending, ready>>

\* How the far end of a connection leaves.
Leaves(tcp) == (IF tcp = "up" THEN {"fin"} ELSE {})
                 \cup (IF tcp \in {"up", "fin"} /\ "reset" \in Faults
                       THEN {"rst"} ELSE {})

ClientLeaves(s) ==
  /\ \E t \in Leaves(client[s]) : client' = [client EXCEPT ![s] = t]
  /\ UNCHANGED <<alive, pool, pool_size, resolved_hosts, peer, remote,
                 pending, ready>>

RemoteLeaves(s) ==
  /\ \E t \in Leaves(remote[s]) : remote' = [remote EXCEPT ![s] = t]
  /\ UNCHANGED <<alive, pool, pool_size, resolved_hosts, peer, client,
                 pending, ready>>

(***************************************************************************)
(* The specification.                                                      *)
(***************************************************************************)
Handler(i) ==
  \/ acceptConnection(i)
  \/ readAuthMethods(i)
  \/ sendServerChoice(i)
  \/ handleConnectionRequest(i)
  \/ readAddressType(i)
  \/ handleAddress(i)
  \/ readIPv4Address(i)
  \/ getDomainLength(i)
  \/ getDomainName(i)
  \/ sendServerResponse(i)
  \/ replyWritten(i)
  \/ startDataTransfer(i)
  \/ sendDataToServer(i)
  \/ recvDataFromClient(i)
  \/ sendDataToClient(i)
  \/ recvDataFromServer(i)
  \/ continueTransfer(i)

Network ==
  \/ AcceptFails
  \/ \E s \in Clients : \/ AcceptClient(s)
                        \/ Connect(s)
                        \/ ClientLeaves(s)
                        \/ RemoteLeaves(s)

Next ==
  \/ \E i \in DOMAIN ready : Handler(i)
  \/ \E o \in pending : Complete(o)
  \/ Network

Spec == Init /\ [][Next]_vars
-----------------------------------------------------------------------------
\* Every variable keeps its type; among others pool_size, which is
\* unsigned, never falls below zero.  connection_pool.h:24-33.
TypeOK ==
  /\ alive \in BOOLEAN
  /\ pool \in Seq(Conns)
  /\ pool_size \in Nat
  /\ resolved_hosts \subseteq Hosts
  /\ peer \in [Conns -> Clients \cup {NoClient}]
  /\ client \in [Clients -> {"idle", "backlog", "up", "fin", "rst", "gone"}]
  /\ remote \in [Clients -> {"none", "connecting", "failed", "up", "fin",
                             "rst", "closed"}]
  /\ pending \subseteq Ops /\ IsFiniteSet(pending)
  /\ ready \in Seq([op : Ops, ec : Results])

\* The pool holds distinct connections, all closed, and counts them right,
\* though several handlers of a session give its connection back.
\* connection_pool.h:15-33.
PoolSound ==
  /\ pool_size = Len(pool)
  /\ \A i, j \in DOMAIN pool : pool[i] = pool[j] => i = j
  /\ \A i \in DOMAIN pool : ~Open(pool[i])

\* Everything that is pending or posted.
Ongoing == pending \cup {ready[i].op : i \in DOMAIN ready}

\* The operations of session s, named after a handler in hs, that are in
\* flight: pending or posted.
InFlight(s, hs) ==
  Cardinality({o \in pending : o.s = s /\ o.h \in hs})
    + Cardinality({i \in DOMAIN ready : Session(i) = s /\ ready[i].op.h \in hs})

\* One accept is in flight, pending or posted, and it is to open c.
AcceptOn(c) ==
  LET accepts(o) == o.h = "accept" IN
  \/ /\ \E o \in pending : /\ accepts(o) /\ o.c = c
                          /\ \A p \in pending : accepts(p) => p = o
     /\ \A i \in DOMAIN ready : ~accepts(ready[i].op)
  \/ /\ \A p \in pending : ~accepts(p)
     /\ \E i \in DOMAIN ready :
          /\ accepts(ready[i].op) /\ Conn(i) = c
          /\ \A j \in DOMAIN ready : accepts(ready[j].op) => j = i

\* While the proxy lives exactly one accept is in flight (a lost one means no
\* client is ever served again), and the connection it will open is closed,
\* and not in the pool for a second accept to take.
\* proxy_server.cpp:21-31.
AcceptArmed ==
  alive => \E c \in Conns : AcceptOn(c) /\ ~Open(c) /\ c \notin ToSet(pool)

\* Session s has one operation in flight, as while it shakes hands, or one for
\* each direction, as while it relays.
Served(s) ==
  \/ InFlight(s, Handlers) = 1 /\ InFlight(s, UpLoop \cup DownLoop) = 0
  \/ /\ InFlight(s, UpLoop) = 1 /\ InFlight(s, DownLoop) = 1
     /\ InFlight(s, Handlers) = 2

\* A session whose connection is open has one operation in flight while it
\* shakes hands and exactly one per direction once it relays: two in the same
\* direction would share a buffer of the connection, none would leave an end
\* unheard.  It relies on the queue's order and on no remote resetting its
\* connection.  proxy_server.cpp:210-291, connection.h:41-42.
OneOperationPerBuffer == \A c \in Conns : Open(c) => Served(peer[c])

\* In any order, and whatever is reset, only a session that has ended with a
\* domain name may have no operation in flight and its connection open: an
\* earlier session's operation still holds that, and its handler will close
\* it.  proxy_server.cpp:121-162,210-291.
NoneUnheard ==
  \A c \in Conns : Open(c) =>
    \/ Served(peer[c])
    \/ /\ InFlight(peer[c], Handlers) = 0
       /\ \E o \in Ongoing : o.c = c /\ o.h # "accept"

\* An operation waits on the socket of its own client: a connection is not
\* reopened for another client while an operation of the session that gave
\* it up still uses it.  connection_pool.h:15-33; it relies on the queue's
\* order and on no remote resetting its connection.
SessionOwnership ==
  \A o \in pending : o.h # "accept" => peer[o.c] \in {o.s, NoClient}

\* A client is told SUCCESS only when its remote socket has been connected.
\* proxy_server.cpp:164-208.
SuccessMeansConnected ==
  \A o \in Ongoing :
    o.arg = "SUCCESS" => /\ o.h = "startDataTransfer"
                         /\ remote[o.s] \notin {"none", "connecting", "failed"}

\* The handlers of a session that is over may still close a connection the
\* pool has handed on (addConnection looks only at is_open()); when the queue
\* is first in, first out the client cut off is one whose greeting has not
\* been looked at.  proxy_server.cpp:235,251,267,283, connection_pool.h:15-22.
OnlyGreetingCut ==
  [][alive' => \A c \in Conns :
       /\ Open(c) /\ peer'[c] = NoClient
       /\ Head(ready).op.s # peer[c]
       => InFlight(peer[c], {"readAuthMethods"}) = 1]_vars
-----------------------------------------------------------------------------
(***************************************************************************)
(* The sessions, as a client sees them.                                    *)
(***************************************************************************)
Phase(s) ==
  LET hs == {o.h : o \in {p \in Ongoing : p.s = s}} IN
  CASE client[s] \in {"idle", "gone", "backlog"} -> client[s]
    [] hs \in SUBSET {"accept", "readAuthMethods", "sendServerChoice"} -> "greeting"
    [] hs = {"handleConnectionRequest"} -> "choice"
    [] hs = {"sendServerResponse"} -> "connecting"
    [] hs = {"startDataTransfer"} -> "granted"
    [] hs = {"addConnection"} -> "refused"
    [] hs \cap (UpLoop \cup DownLoop) # {} -> "relay"
    [] OTHER -> "request"

broken == {s \in Clients : /\ client[s] \notin {"idle", "gone"}
                           /\ \/ client[s] \in {"fin", "rst"}
                              \/ remote[s] \in {"fin", "rst", "closed"}}

Protocol == INSTANCE Socks5Session
              WITH phase <- [s \in Clients |-> Phase(s)]

\* Every session follows the protocol; above all one that relays is cut only
\* after one of its ends has left.  proxy_server.cpp:33-291.
SessionsFollowProtocol == Protocol!Spec
=============================================================================
