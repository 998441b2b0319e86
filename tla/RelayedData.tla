---------------------------- MODULE RelayedData ----------------------------
(***************************************************************************)
(* The proxy together with the bytes it relays.  The handlers are those of *)
(* Socks5Proxy; a completed read of the relay has put bytes into one of    *)
(* the two buffers of the Connection, and a completed write has taken them *)
(* from there.  Nothing but the order of the handlers keeps the next read  *)
(* from overwriting what is being written.                                 *)
(***************************************************************************)
EXTENDS Socks5Proxy

CONSTANTS
  BUF_SIZE,   \* the bytes a buffer holds, connection.h
  max_length, \* the bytes a read of the relay asks for, proxy_server.h
  MaxSent     \* bound on the bytes sent in a session, both ways together

\* Nothing but the two numbers, both 8192, makes the one fit the other.
ASSUME DataAssumption ==
  /\ BUF_SIZE \in Nat \ {0} /\ MaxSent \in Nat
  /\ max_length \in Nat \ {0} /\ max_length <= BUF_SIZE

VARIABLES
  sent,     \* per session and direction: how many bytes have been sent,
  taken,    \* how many of them the proxy has read,
  got,      \* and the ones it has handed on
  buf,      \* to_server_buf and to_client_buf of each Connection
  length,   \* per session and direction: the length of the last read,
  done      \* and how much of it has been written

data == <<sent, taken, got, buf, length, done>>
allVars == <<vars, data>>

Ways == {"up", "down"}
Lines == Clients \X Ways
Way(o) == IF o.h \in UpLoop THEN "up" ELSE "down"

Empty == [k \in 1 .. BUF_SIZE |-> 0]
Byte == 0 .. MaxSent

InitData ==
  /\ Init
  /\ sent = [l \in Lines |-> 0] /\ taken = sent
  /\ got = [l \in Lines |-> <<>>]
  /\ buf = [b \in Conns \X Ways |-> Empty]
  /\ length = sent /\ done = sent

(***************************************************************************)
(* What the operations of the relay do to the bytes.                       *)
(***************************************************************************)
RelayReads == {"sendDataToServer", "sendDataToClient"}
RelayWrites == {"recvDataFromClient", "recvDataFromServer"}

\* The direction an operation is of, and the buffer it uses.
Line(o) == <<o.s, Way(o)>>
Buffer(o) == <<o.c, Way(o)>>

\* n of the bytes that have arrived are put in the buffer, and past its end if
\* they are too many.
Take(o, n) ==
  LET have == taken[Line(o)] IN
  /\ have + n <= sent[Line(o)]
  /\ taken' = [taken EXCEPT ![Line(o)] = have + n]
  /\ buf' = [buf EXCEPT ![Buffer(o)] =
               [k \in DOMAIN @ \cup 1 .. n |-> IF k <= n THEN have + k
                                                       ELSE @[k]]]
  /\ length' = [length EXCEPT ![Line(o)] = n]
  /\ done' = [done EXCEPT ![Line(o)] = 0]
  /\ UNCHANGED <<sent, got>>

\* Variant with a bug: all that has arrived may be read.
ReadSomeUnbounded(o, n) == Take(o, n)

\* async_read_some into buffer(..., max_length).
ReadSome(o, n) == n <= max_length /\ Take(o, n)

\* Variant with a bug: all of the buffer is written, not what was read.
WriteBuffer(o, n) ==
  LET from == done[Line(o)] IN
  /\ got' = [got EXCEPT ![Line(o)] =
               @ \o SubSeq(buf[Buffer(o)], from + 1, BUF_SIZE)]
  /\ done' = [done EXCEPT ![Line(o)] = BUF_SIZE]
  /\ UNCHANGED <<sent, taken, buf, length>>

\* async_write: the next n bytes of the buffer are handed on.
Write(o, n) ==
  LET from == done[Line(o)] IN
  /\ got' = [got EXCEPT ![Line(o)] =
               @ \o SubSeq(buf[Buffer(o)], from + 1, from + n)]
  /\ done' = [done EXCEPT ![Line(o)] = from + n]
  /\ UNCHANGED <<sent, taken, buf, length>>

\* Operation o completes with e.  Only the relay's writes come in pieces
\* here; those of the handshake are left to Socks5Proxy.
Moves(o, e) ==
  LET rest == length[Line(o)] - done[Line(o)]
      reads == o.h \in RelayReads
      writes == o.h \in RelayWrites
  IN \/ e = "ok" /\ reads /\ \E n \in 1 .. MaxSent : ReadSome(o, n)
     \/ e = "ok" /\ writes /\ Write(o, rest)
     \/ e = "more" /\ writes /\ \E n \in 1 .. rest - 1 : Write(o, n)
     \/ e # "more" /\ (e = "ok" => ~reads /\ ~writes) /\ UNCHANGED data

CompleteData(o) == Complete(o) /\ Moves(o, Last(ready').ec)

\* A session's data is forgotten with its remote socket; what a buffer still
\* holds then is no byte of a later session.
HandlerData(i) ==
  /\ Handler(i)
  /\ LET Kept(f, zero) ==
           [l \in Lines |-> IF remote'[l[1]] = "none" THEN zero ELSE f[l]]
     IN /\ sent' = Kept(sent, 0) /\ taken' = Kept(taken, 0)
        /\ got' = Kept(got, <<>>)
        /\ length' = Kept(length, 0) /\ done' = Kept(done, 0)
  /\ buf' = [b \in Conns \X Ways |-> IF Open(b[1])' THEN buf[b] ELSE Empty]

(***************************************************************************)
(* The two ends.  One that leaves counts as gone once what it has sent has *)
(* been read.                                                              *)
(***************************************************************************)
Send(s, w) ==
  /\ remote[s] = "up"
  /\ w = "up" => client[s] = "up"
  /\ sent[<<s, "up">>] + sent[<<s, "down">>] < MaxSent
  /\ sent' = [sent EXCEPT ![<<s, w>>] = @ + 1]
  /\ UNCHANGED <<vars, taken, got, buf, length, done>>

AllTaken(s, w) == taken[<<s, w>>] = sent[<<s, w>>]

EndLeaves(s) ==
  /\ \/ ClientLeaves(s) /\ (client'[s] = "fin" => AllTaken(s, "up"))
     \/ RemoteLeaves(s) /\ (remote'[s] = "fin" => AllTaken(s, "down"))
  /\ UNCHANGED data

AcceptClientData(s) == AcceptClient(s) /\ UNCHANGED data

NextData ==
  \/ \E i \in DOMAIN ready : HandlerData(i)
  \/ \E o \in pending : CompleteData(o)
  \/ AcceptFails /\ UNCHANGED data
  \/ \E s \in Clients : \/ AcceptClientData(s)
                        \/ Connect(s) /\ UNCHANGED data
                        \/ EndLeaves(s)
                        \/ \E w \in Ways : Send(s, w)
-----------------------------------------------------------------------------
(***************************************************************************)
(* Fairness: io_ctx.run() runs what is ready, the kernel hands over        *)
(* waiting clients, connecting ends, and the far ends take the data sent   *)
(* to them.  No one has to send anything: a read need only end when there  *)
(* is something to read or the far end has gone.                           *)
(***************************************************************************)
Due(o) == CASE o.h \in UpLoop \cup DownLoop /\ ~AllTaken(o.s, Way(o)) -> TRUE
            [] o.h \in ClientReads -> client[peer[o.c]] \in {"fin", "rst"}
            [] o.h \in RemoteReads -> remote[o.s] \in {"fin", "rst"}
            [] OTHER -> TRUE

Finish(s, hs) == \E o \in pending : /\ o.s = s /\ o.h \in hs
                                    /\ Due(o)
                                    /\ CompleteData(o)

\* The acceptor is busy now and then, hence strong fairness for it.
Fairness ==
  /\ WF_allVars(\E i \in DOMAIN ready : HandlerData(i))
  /\ \A s \in Clients :
       /\ SF_allVars(AcceptClientData(s))
       /\ WF_allVars(Finish(s, UpLoop))
       /\ WF_allVars(Finish(s, DownLoop))
       /\ WF_allVars(Finish(s, Handlers \ (UpLoop \cup DownLoop)))

FairSpec == InitData /\ [][NextData]_allVars /\ Fairness
-----------------------------------------------------------------------------
\* Every variable of the data keeps its type: the reads of the relay fit its
\* buffers and no write goes past the end of what was read.  The reads of the
\* handshake are not among them, see readAuthMethods and getDomainLength.
\* connection.h:12,41-42, proxy_server.h:26, proxy_server.cpp:210-291.
TypeOKData ==
  /\ sent \in [Lines -> Byte]
  /\ got \in [Lines -> Seq(Byte)]
  /\ buf \in [Conns \X Ways -> [1 .. BUF_SIZE -> Byte]]
  /\ length \in [Lines -> 0 .. BUF_SIZE]
  /\ \A l \in Lines : taken[l] \in 0 .. sent[l] /\ done[l] \in 0 .. length[l]

\* What is read and not yet handed on is the rest of the last read, and a
\* buffer that is to be read into has no such rest: in each direction the reads
\* and the writes take turns, in pieces or not, also when the connection is
\* used again.  proxy_server.cpp:210-291.
BytesAccounted ==
  /\ \A l \in Lines : Len(got[l]) + (length[l] - done[l]) = taken[l]
  /\ \A o \in pending :
       o.h \in RelayReads => done[Line(o)] = length[Line(o)]

\* Each end of a session is handed what the other sent, each byte once and in
\* order: no read overwrites what is still to be written.
\* proxy_server.cpp:210-291, connection.h:41-42.
Streams == INSTANCE Stream
StreamsKept == Streams!Spec

\* The handler that finds an end gone and drops the session comes after all
\* that this end has sent was handed on.  proxy_server.cpp:229-259.
FlushedAtEnd ==
  [][\A s \in Clients :
       client[s] \in {"up", "fin"} /\ client'[s] \in {"idle", "gone"} =>
         LET h == Head(ready).op.h IN
         Head(ready).op.s = s =>
         /\ h = "sendDataToServer" /\ client[s] = "fin"
              => Len(got[<<s, "up">>]) = sent[<<s, "up">>]
         /\ h = "sendDataToClient" /\ remote[s] = "fin"
              => Len(got[<<s, "down">>]) = sent[<<s, "down">>]]_allVars

\* What an end sends is handed on, however silent the other one is, unless
\* one of the two leaves.  proxy_server.cpp:210-291.
Relayed ==
  \A s \in Clients, w \in Ways :
    Len(got[<<s, w>>]) < sent[<<s, w>>] ~>
      Len(got[<<s, w>>]) = sent[<<s, w>>] \/ client[s] # "up" \/ remote[s] # "up"

\* A client that connects is accepted.  proxy_server.cpp:21-31.
BacklogServed ==
  \A s \in Clients : client[s] = "backlog" ~> client[s] # "backlog"

\* When a client has left, whatever its session was doing, the proxy lets go of
\* its connection.  proxy_server.cpp:37-291, every error path.
GoneClientDropped ==
  \A s \in Clients : client[s] = "fin" ~> client[s] \in {"idle", "gone"}

\* When a remote has left, however busy the client is, the proxy lets go of the
\* remote socket.  proxy_server.cpp:210-291.
GoneRemoteHeard ==
  \A s \in Clients : remote[s] = "fin" ~> remote[s] = "none"
=============================================================================
