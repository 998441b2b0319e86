-------------------------- MODULE FtpServerProofs --------------------------
(***************************************************************************)
(* The uploads for any number of clients, file names and chunks: the state *)
(* is well typed; it is clients that leave early that end the server, if   *)
(* accepting and opening succeed and no name has a newline; and what is    *)
(* reported of an upload is true as long as no other has its name and the  *)
(* disk takes what is written.                                             *)
(***************************************************************************)
EXTENDS FtpServer, SequenceTheorems, TLAPS

Requests == {"name", "size", "chunk"}
Statuses == {"Success", "Failure"}

Steps == {"idle", "refused", "connected", "named", "sized", "sending",
          "waiting", "Success", "Failure", "failed", "left"}

\* TypeOK, with what it does not say of the sequences and the counters.
Types ==
  /\ alive \in BOOLEAN
  /\ dir \in [Names -> Uploads \cup {NoFile}]
  /\ content \in [Uploads -> Seq(Uploads \cup {Hole})]
  /\ size \in [Uploads -> 0 .. MaxChunks]
  /\ client \in [Uploads -> Steps]
  /\ sent \in [Uploads -> Nat]
  /\ conn \in [Uploads -> {"none", "up", "fin", "rst", "closed"}]
  /\ toServer \in [Uploads -> Seq(Requests)]
  /\ toClient \in [Uploads -> Seq({"Ready"} \cup Statuses)]
  /\ server \in [Uploads -> {"none", "start", "name", "size", "receive",
                             "received", "concluded", "join", "end"}]
  /\ output_file \in [Uploads -> Uploads \cup {NoFile}]
  /\ received \in [Uploads -> Nat]
  /\ read_status \in [Uploads -> {"none", "Success", "Failure"}]
  /\ speed \in [Uploads -> {"none", "start", "waiting", "ended"}]
  /\ is_data_ended \in [Uploads -> BOOLEAN]

Counts(u) == sent[u] \in 0 .. size[u] + 1 /\ received[u] \in 0 .. size[u]

(***************************************************************************)
(* The protocol of one upload.                                             *)
(***************************************************************************)
Asking == {"none", "start", "name", "size"}
Receiving == {"receive", "received", "concluded"}
Early == {"idle", "refused", "connected", "named"}

Has(s, item) == \E i \in DOMAIN s : s[i] = item
SizeSent(u) == Has(toServer[u], "size")

\* What is on its way to a client is what the client waits for.
Expected(u) ==
  /\ client[u] \in Early => toClient[u] = <<>>
  /\ client[u] = "sized" =>
       \/ toClient[u] = <<>> \/ toClient[u] = <<"Ready">>
       \/ \E s \in Statuses : toClient[u] = <<"Ready", s>>
  /\ client[u] \in {"sending", "waiting"} =>
       toClient[u] = <<>> \/ \E s \in Statuses : toClient[u] = <<s>>

\* How far the server's thread is, and what it has written so far.
InStep(u) ==
  /\ SizeSent(u) \/ server[u] \in Receiving \cup {"join"} =>
       client[u] \notin Early
  /\ server[u] # "none" => alive
  /\ alive /\ server[u] \in Asking =>
       /\ toClient[u] = <<>>
       /\ client[u] \notin {"sending", "waiting"} \cup Statuses
  /\ server[u] \in Receiving =>
       /\ client[u] \notin Statuses
       /\ client[u] = "sized" => toClient[u] = <<"Ready">>
       /\ client[u] \in {"sending", "waiting"} => toClient[u] = <<>>
  /\ server[u] \in {"concluded", "join"} => read_status[u] \in Statuses

\* Which end has closed the connection.
Closed(u) ==
  /\ conn[u] \in {"fin", "rst"} => client[u] \in {"left"} \cup Statuses
  /\ alive /\ conn[u] = "closed" => server[u] = "end"

Protocol(u) == Counts(u) /\ Expected(u) /\ InStep(u) /\ Closed(u)

IInv == Types /\ \A u \in Uploads : Protocol(u)

\* What the protocol of an upload is about.
Rest(u) == <<size[u], client[u], sent[u], conn[u], toServer[u], toClient[u],
             server[u], received[u], read_status[u]>>

(***************************************************************************)
(* Sequences.                                                              *)
(***************************************************************************)
\* Sequences of one and two elements.
LEMMA ShortSequences ==
  ASSUME NEW a, NEW b
  PROVE  /\ Append(<<>>, a) = <<a>> /\ Append(<<a>>, b) = <<a, b>>
         /\ Head(<<a>>) = a /\ Head(<<a, b>>) = a
         /\ Tail(<<a>>) = <<>> /\ Tail(<<a, b>>) = <<b>>
         /\ <<a>> # <<>> /\ <<a, b>> # <<>>
<1>1. <<a>> \in Seq({a, b}) /\ <<a, b>> \in Seq({a, b}) /\ <<>> \in Seq({a, b})
  OBVIOUS
<1>2. Append(<<>>, a) = <<a>>
  BY <1>1
<1>3. Append(<<a>>, b) = <<a, b>>
  <2>1. Append(<<a>>, b) \in Seq({a, b}) /\ <<a, b>> \in Seq({a, b})
    BY <1>1
  <2>2. Len(Append(<<a>>, b)) = 2 /\ Len(<<a, b>>) = 2
    BY <1>1
  <2>3. /\ Append(<<a>>, b)[1] = a /\ Append(<<a>>, b)[2] = b
        /\ <<a, b>>[1] = a /\ <<a, b>>[2] = b
    BY <1>1
  <2>4. \A i \in 1 .. 2 : Append(<<a>>, b)[i] = <<a, b>>[i]
    BY <2>3
  <2> QED
    BY <2>1, <2>2, <2>4, SeqEqual
<1>4. Head(<<a>>) = a /\ Head(<<a, b>>) = a
  BY <1>1
<1>5. Tail(<<a>>) = <<>>
  BY <1>1
<1>6. Tail(<<a, b>>) = <<b>>
  BY <1>1
<1>7. <<a>> # <<>> /\ <<a, b>> # <<>>
  BY <1>1
<1> QED
  BY <1>2, <1>3, <1>4, <1>5, <1>6, <1>7

\* What is left of a sequence was in it.
LEMMA HasTail ==
  ASSUME NEW s \in Seq(Requests), s # <<>>, NEW item, Has(Tail(s), item)
  PROVE  Has(s, item)
<1>1. PICK i \in DOMAIN Tail(s) : Tail(s)[i] = item
  BY DEF Has
<1>2. i + 1 \in DOMAIN s /\ s[i + 1] = item
  BY <1>1
<1> QED
  BY <1>2 DEF Has

\* What is in a longer sequence was in it or is the new element.
LEMMA HasAppend ==
  ASSUME NEW s \in Seq(Requests), NEW x \in Requests, NEW item,
         Has(Append(s, x), item)
  PROVE  x = item \/ Has(s, item)
<1>1. PICK i \in DOMAIN Append(s, x) : Append(s, x)[i] = item
  BY DEF Has
<1>2. CASE i = Len(s) + 1
  BY <1>1, <1>2
<1>3. CASE i # Len(s) + 1
  <2>1. i \in DOMAIN s /\ s[i] = item
    BY <1>1, <1>3
  <2> QED
    BY <2>1 DEF Has
<1> QED
  BY <1>2, <1>3

\* A write keeps the file a sequence, holes included.
LEMMA WrittenType ==
  ASSUME Types, NEW f \in Uploads, NEW k \in Nat \ {0}, NEW u \in Uploads
  PROVE  Written(f, k, u) \in Seq(Uploads \cup {Hole})
<1> DEFINE old == content[f]
           n == IF Len(old) > k THEN Len(old) ELSE k
<1>1. old \in Seq(Uploads \cup {Hole}) /\ Len(old) \in Nat
  BY DEF Types
<1>2. n \in Nat
  BY <1>1
<1>3. \A i \in 1 .. n :
        (IF i = k THEN u ELSE IF i <= Len(old) THEN old[i] ELSE Hole)
          \in Uploads \cup {Hole}
  BY <1>1
<1>4. Written(f, k, u) = [i \in 1 .. n |->
        IF i = k THEN u ELSE IF i <= Len(old) THEN old[i] ELSE Hole]
  BY DEF Written
<1> HIDE DEF n, old
<1> QED
  BY <1>2, <1>3, <1>4

(***************************************************************************)
(* A step of one upload is none of another.                                *)
(***************************************************************************)
\* What leaves the variables of an upload alone keeps its protocol.
LEMMA Others ==
  ASSUME NEW v \in Uploads, Protocol(v), UNCHANGED <<alive, Rest(v)>>
  PROVE  Protocol(v)'
BY DEF Protocol, Counts, Expected, InStep, Closed, SizeSent, Rest

\* A step that keeps the types, and the protocol of the one upload it is
\* about, keeps the invariant.
LEMMA Step ==
  ASSUME IInv, NEW u \in Uploads, Types', Protocol(u)', UNCHANGED alive,
         \A v \in Uploads \ {u} : UNCHANGED Rest(v)
  PROVE  IInv'
<1> SUFFICES ASSUME NEW v \in Uploads PROVE Protocol(v)'
  BY DEF IInv
<1>1. CASE v = u
  BY <1>1
<1>2. CASE v # u
  <2>1. Protocol(v)
    BY DEF IInv
  <2> QED
    BY <1>2, <2>1, Others
<1> QED
  BY <1>1, <1>2

\* Nothing has been sent at the start.
LEMMA InitInv == Init => IInv
<1> SUFFICES ASSUME Init PROVE IInv
  OBVIOUS
<1>1. Types
  BY ConstantsAssumption DEF Init, Types, Steps
<1>2. ASSUME NEW u \in Uploads PROVE Protocol(u)
  <2>1. ~ SizeSent(u)
    BY DEF Init, SizeSent, Has
  <2> QED
    BY <2>1, ConstantsAssumption
    DEF Init, Protocol, Counts, Expected, InStep, Closed, Asking, Early,
        Receiving, Statuses
<1> QED
  BY <1>1, <1>2 DEF IInv

\* The end of the process leaves the clients what was written to them, or
\* nothing.
LEMMA TerminateInv == IInv /\ alive /\ Terminate => IInv'
<1> SUFFICES ASSUME IInv, alive, Terminate PROVE IInv'
  OBVIOUS
<1>1. Types'
  <2>1. alive' \in BOOLEAN
    BY DEF Terminate
  <2>2. conn' \in [Uploads -> {"none", "up", "fin", "rst", "closed"}]
    BY DEF Terminate
  <2>3. toServer' \in [Uploads -> Seq(Requests)]
    <3>1. <<>> \in Seq(Requests)
      OBVIOUS
    <3> QED
      BY <3>1, ZenonT(20) DEF Terminate
  <2>4. /\ server' = [u \in Uploads |-> "none"]
        /\ speed' = [u \in Uploads |-> "none"]
    BY DEF Terminate
  <2>5. toClient' \in [Uploads -> Seq({"Ready"} \cup Statuses)]
    <3>1. <<>> \in Seq({"Ready"} \cup Statuses)
      OBVIOUS
    <3>2. PICK lost \in SUBSET {u \in Uploads : toServer[u] # <<>>} :
            toClient' = [u \in Uploads |->
                           IF u \in lost THEN <<>> ELSE toClient[u]]
      BY DEF Terminate
    <3> QED
      BY <3>1, <3>2 DEF IInv, Types
  <2> QED
    BY <2>1, <2>2, <2>3, <2>4, <2>5
    DEF IInv, Types, Terminate, dirVars, clientVars
<1>2. ASSUME NEW u \in Uploads PROVE Protocol(u)'
  <2>1. Protocol(u)
    BY DEF IInv
  <2>2. ~ SizeSent(u)'
    BY DEF Terminate, SizeSent, Has
  <2>3. /\ server'[u] = "none" /\ conn'[u] \in {"none", "closed"}
        /\ UNCHANGED <<client, size, sent, received>> /\ ~ alive'
    BY DEF Terminate, clientVars
  <2>4. toClient'[u] = <<>> \/ toClient'[u] = toClient[u]
    BY DEF Terminate
  <2> QED
    BY <2>1, <2>2, <2>3, <2>4
    DEF Protocol, Counts, Expected, InStep, Closed, Asking, Receiving
<1> QED
  BY <1>1, <1>2 DEF IInv

(***************************************************************************)
(* What the operations on a connection leave.                              *)
(***************************************************************************)
\* An empty queue is a queue of anything.
LEMMA EmptySeqs == \A S : <<>> \in Seq(S)
OBVIOUS

\* What is read from a connection was there.
LEMMA ArrivedKept ==
  ASSUME Types, NEW u \in Uploads, NEW item, Arrived(u, item)
  PROVE  /\ toServer' \in [Uploads -> Seq(Requests)]
         /\ SizeSent(u)' => SizeSent(u)
         /\ \A v \in Uploads \ {u} : toServer'[v] = toServer[v]
<1>1. toServer[u] \in Seq(Requests) /\ toServer[u] # <<>>
  BY DEF Types, Arrived
<1>2. Tail(toServer[u]) \in Seq(Requests)
  BY <1>1
<1>3. toServer'[u] = Tail(toServer[u])
  BY DEF Types, Arrived
<1>4. SizeSent(u)' => SizeSent(u)
  BY <1>1, <1>3, HasTail DEF SizeSent
<1> QED
  BY <1>2, <1>4 DEF Types, Arrived

\* The size that arrives has been sent.
LEMMA SizeArrived ==
  ASSUME Types, NEW u \in Uploads, Arrived(u, "size") PROVE SizeSent(u)
<1>1. toServer[u] \in Seq(Requests) /\ toServer[u] # <<>>
  BY DEF Types, Arrived
<1>2. 1 \in DOMAIN toServer[u] /\ toServer[u][1] = "size"
  BY <1>1 DEF Arrived
<1> QED
  BY <1>2 DEF SizeSent, Has

\* What is sent on a connection is all that it adds.
LEMMA SendsKept ==
  ASSUME Types, NEW u \in Uploads, NEW item \in Requests,
         NEW pc \in {"named", "sized", "sending"}, Sends(u, item, pc)
  PROVE  /\ toServer' \in [Uploads -> Seq(Requests)]
         /\ client' \in [Uploads -> Steps]
         /\ UNCHANGED <<conn, toClient>>
         /\ client'[u] = pc \/ (client'[u] = "failed" /\ conn[u] = "closed")
         /\ SizeSent(u)' => item = "size" \/ SizeSent(u)
         /\ \A v \in Uploads \ {u} : UNCHANGED <<toServer[v], client[v]>>
<1>1. toServer[u] \in Seq(Requests)
  BY DEF Types
<1>2. Append(toServer[u], item) \in Seq(Requests)
  BY <1>1
<1>3. CASE /\ toServer' = [toServer EXCEPT ![u] = Append(@, item)]
           /\ ClientGoes(u, pc) /\ UNCHANGED <<conn, toClient>>
  <2>1. toServer'[u] = Append(toServer[u], item)
    BY <1>3 DEF Types
  <2>2. SizeSent(u)' => item = "size" \/ SizeSent(u)
    BY <1>1, <2>1, HasAppend DEF SizeSent
  <2>3. toServer' \in [Uploads -> Seq(Requests)]
    BY <1>2, <1>3 DEF Types
  <2>4. /\ client'[u] = pc
        /\ \A v \in Uploads \ {u} : UNCHANGED <<toServer[v], client[v]>>
    BY <1>3 DEF Types, ClientGoes
  <2>5. client' \in [Uploads -> Steps]
    BY <1>3 DEF Types, ClientGoes, Steps
  <2> QED
    BY <1>3, <2>2, <2>3, <2>4, <2>5
<1>4. CASE /\ conn[u] = "closed"
           /\ ClientGoes(u, pc) \/ ClientGoes(u, "failed")
           /\ UNCHANGED connVars
  <2>1. UNCHANGED <<conn, toServer, toClient>> /\ (SizeSent(u)' => SizeSent(u))
    BY <1>4 DEF connVars, SizeSent
  <2>2. PICK p \in {pc, "failed"} : ClientGoes(u, p)
    BY <1>4
  <2>3. client' \in [Uploads -> Steps]
    BY <2>2 DEF Types, ClientGoes, Steps
  <2>4. client'[u] = p /\ \A v \in Uploads \ {u} : UNCHANGED client[v]
    BY <2>2 DEF Types, ClientGoes
  <2>5. toServer' \in [Uploads -> Seq(Requests)]
    BY <2>1 DEF Types
  <2> QED
    BY <1>4, <2>1, <2>3, <2>4, <2>5
<1> QED
  BY <1>3, <1>4 DEF Sends

\* What is written to a client comes after what it has not read.
LEMMA AnswersKept ==
  ASSUME Types, NEW u \in Uploads, NEW item \in {"Ready"} \cup Statuses,
         Answers(u, item)
  PROVE  /\ toClient' \in [Uploads -> Seq({"Ready"} \cup Statuses)]
         /\ toClient'[u] = Append(toClient[u], item)
         /\ \A v \in Uploads \ {u} : toClient'[v] = toClient[v]
<1>1. Append(toClient[u], item) \in Seq({"Ready"} \cup Statuses)
  BY DEF Types
<1> QED
  BY <1>1 DEF Types, Answers

\* What a client reads is taken from the connection.
LEMMA TailKept ==
  ASSUME Types, NEW u \in Uploads, toClient[u] # <<>>,
         toClient' = [toClient EXCEPT ![u] = Tail(@)]
  PROVE  /\ toClient' \in [Uploads -> Seq({"Ready"} \cup Statuses)]
         /\ toClient'[u] = Tail(toClient[u])
         /\ \A v \in Uploads \ {u} : toClient'[v] = toClient[v]
<1>1. Tail(toClient[u]) \in Seq({"Ready"} \cup Statuses)
  BY DEF Types
<1> QED
  BY <1>1 DEF Types

\* A closed socket brings the server nothing more, and takes at most what the
\* client has not read.
LEMMA closeSocketKept ==
  ASSUME Types, NEW u \in Uploads, closeSocket(u)
  PROVE  /\ conn' \in [Uploads -> {"none", "up", "fin", "rst", "closed"}]
         /\ toServer' \in [Uploads -> Seq(Requests)]
         /\ toClient' \in [Uploads -> Seq({"Ready"} \cup Statuses)]
         /\ conn'[u] = "closed" /\ toServer'[u] = <<>>
         /\ toClient'[u] = <<>> \/ toClient'[u] = toClient[u]
         /\ \A v \in Uploads \ {u} :
              UNCHANGED <<conn[v], toServer[v], toClient[v]>>
<1>1. <<>> \in Seq(Requests) /\ <<>> \in Seq({"Ready"} \cup Statuses)
  BY EmptySeqs
<1>2. /\ conn' = [conn EXCEPT ![u] = "closed"]
      /\ toServer' = [toServer EXCEPT ![u] = <<>>]
      /\ toClient' = toClient \/ toClient' = [toClient EXCEPT ![u] = <<>>]
  BY DEF closeSocket
<1>3. toClient' \in [Uploads -> Seq({"Ready"} \cup Statuses)]
  BY <1>1, <1>2 DEF Types
<1> QED
  BY <1>1, <1>2, <1>3 DEF Types

(***************************************************************************)
(* One lemma per action: what it does to the upload it is about.           *)
(***************************************************************************)

\* A client that has reset is done with; another has its speed thread.
LEMMA startUploadKept ==
  ASSUME IInv, NEW u \in Uploads, startUpload(u)
  PROVE  IInv'
<1>1. Types /\ Protocol(u) /\ server[u] = "start"
  BY DEF IInv, startUpload
<1>2. UNCHANGED <<alive, dir, content, size, client, sent, output_file,
                  received, read_status, is_data_ended>>
  BY DEF startUpload, dirVars, clientVars, speedVars
<1>3. CASE Goes(u, "end") /\ closeSocket(u) /\ UNCHANGED speedVars
  <2>1. /\ server' \in [Uploads -> {"none", "start", "name", "size",
                         "receive", "received", "concluded", "join", "end"}]
        /\ server'[u] = "end"
        /\ \A v \in Uploads \ {u} : UNCHANGED server[v]
    BY <1>1, <1>3 DEF Goes, Types
  <2>2. Types'
    BY <1>1, <1>2, <1>3, <2>1, closeSocketKept DEF Types, speedVars
  <2>3. ~ SizeSent(u)'
    BY <1>1, <1>3, closeSocketKept DEF SizeSent, Has
  <2>4. Protocol(u)'
    BY <1>1, <1>2, <1>3, <2>1, <2>3, closeSocketKept
    DEF Protocol, Counts, Expected, InStep, Closed, Asking, Receiving, Early,
        Statuses
  <2>5. \A v \in Uploads \ {u} : UNCHANGED Rest(v)
    BY <1>1, <1>2, <1>3, <2>1, closeSocketKept DEF Rest
  <2> QED
    BY <1>2, <2>2, <2>4, <2>5, Step
<1>4. CASE /\ Goes(u, "name") /\ speed' = [speed EXCEPT ![u] = "start"]
           /\ UNCHANGED <<connVars, is_data_ended>>
  <2>1. Types'
    BY <1>1, <1>2, <1>4 DEF Goes, Types, connVars
  <2>2. server'[u] = "name" /\ UNCHANGED <<conn, toServer, toClient>>
    BY <1>1, <1>4 DEF Goes, Types, connVars
  <2>3. SizeSent(u)' = SizeSent(u)
    BY <2>2 DEF SizeSent
  <2>4. Protocol(u)'
    BY <1>1, <1>2, <2>2, <2>3
    DEF Protocol, Counts, Expected, InStep, Closed, Asking, Receiving, Early,
        Statuses
  <2>5. \A v \in Uploads \ {u} : UNCHANGED Rest(v)
    BY <1>1, <1>2, <1>4, <2>2 DEF Rest, Goes, Types
  <2> QED
    BY <1>2, <2>1, <2>4, <2>5, Step
<1> QED
  BY <1>3, <1>4 DEF startUpload

\* The loop counts no more than was announced.
LEMMA receiveKept ==
  ASSUME IInv, NEW u \in Uploads, receive(u)
  PROVE  IInv'
<1>1. Types /\ Protocol(u)
  BY DEF IInv
<1>2. Types'
  <2>1. CASE UNCHANGED server
    <3>1. Arrived(u, "chunk") /\ received' = [received EXCEPT ![u] = @ + 1]
      BY <1>1, <2>1 DEF receive, Goes, Types
    <3>2. toServer' \in [Uploads -> Seq(Requests)]
      BY <1>1, <3>1, ArrivedKept
    <3>3. received' \in [Uploads -> Nat]
      BY <1>1, <3>1 DEF Types
    <3>4. content' \in [Uploads -> Seq(Uploads \cup {Hole})]
      <4>1. CASE UNCHANGED content
        BY <1>1, <4>1 DEF Types
      <4>2. CASE /\ output_file[u] # NoFile
                 /\ content' = [content EXCEPT ![output_file[u]] =
                                 Written(output_file[u], received[u] + 1, u)]
        <5>1. output_file[u] \in Uploads /\ received[u] + 1 \in Nat \ {0}
          BY <1>1, <4>2 DEF Types
        <5>2. Written(output_file[u], received[u] + 1, u)
                \in Seq(Uploads \cup {Hole})
          BY <1>1, <5>1, WrittenType
        <5> QED
          BY <1>1, <4>2, <5>1, <5>2 DEF Types
      <4> QED
        BY <1>1, <2>1, <4>1, <4>2 DEF receive, dirVars, Goes, Types
    <3>5. output_file' \in [Uploads -> Uploads \cup {NoFile}]
      BY <1>1 DEF receive, Types
    <3> QED
      BY <1>1, <2>1, <3>2, <3>3, <3>4, <3>5
      DEF receive, Goes, clientVars, speedVars, Types
  <2>2. CASE /\ Goes(u, "received")
             /\ UNCHANGED <<dirVars, connVars, output_file, received>>
    BY <1>1, <2>2 DEF receive, dirVars, connVars, clientVars, speedVars, Goes,
                      Types
  <2> QED
    BY <2>1, <2>2 DEF receive
<1>3. Protocol(u)'
  <2>1. Counts(u)'
    BY <1>1 DEF receive, dirVars, clientVars, connVars, speedVars, Goes,
                Arrived, ReadFails, Types, Protocol, Counts
  <2>2. Expected(u)'
    BY <1>1, ShortSequences DEF receive, dirVars, clientVars, connVars,
                                speedVars, Goes, Arrived, ReadFails, Types,
                                Protocol, Expected, InStep, Early
  <2>3. SizeSent(u)' => SizeSent(u) \/ client'[u] \notin Early
    <3>1. CASE Arrived(u, "chunk")
      BY <1>1, <3>1, ArrivedKept
    <3>2. CASE UNCHANGED toServer
      BY <3>2 DEF SizeSent
    <3> QED
      BY <3>1, <3>2 DEF receive, connVars
  <2>4. InStep(u)'
    BY <1>1, <2>3 DEF receive, dirVars, clientVars, connVars, speedVars, Goes,
                      Arrived, ReadFails, Types, Protocol, InStep, Expected,
                      Closed, Asking, Receiving, Early, Statuses
  <2>5. Closed(u)'
    BY <1>1 DEF receive, dirVars, clientVars, connVars, speedVars, Goes,
                Arrived, ReadFails, Types, Protocol, Expected, InStep, Closed,
                Statuses
  <2> QED
    BY <2>1, <2>2, <2>4, <2>5 DEF Protocol
<1>4. UNCHANGED alive /\ \A v \in Uploads \ {u} : UNCHANGED Rest(v)
  BY <1>1 DEF receive, dirVars, clientVars, connVars, speedVars, Goes, Arrived,
              ReadFails, Types, Rest
<1> QED
  BY <1>2, <1>3, <1>4, Step

\* The status is one of the two.
LEMMA concludeKept ==
  ASSUME IInv, NEW u \in Uploads, conclude(u)
  PROVE  IInv'
<1>1. Types /\ Protocol(u)
  BY DEF IInv
<1>2. Types'
  BY <1>1 DEF conclude, clientVars, connVars, speedVars, Goes, Types, Steps
<1>3. Protocol(u)'
  <2>1. Counts(u)'
    BY <1>1 DEF conclude, clientVars, connVars, speedVars, Goes, Types,
                Protocol, Counts
  <2>2. Expected(u)'
    BY <1>1, ShortSequences DEF conclude, clientVars, connVars, speedVars,
                                Goes, Types, Protocol, Expected, InStep, Early
  <2>3. SizeSent(u)' => SizeSent(u) \/ client'[u] \notin Early
    BY <1>1 DEF conclude, clientVars, connVars, speedVars, Goes, Types,
                SizeSent, Early
  <2>4. InStep(u)'
    BY <1>1, <2>3 DEF conclude, clientVars, connVars, speedVars, Goes, Types,
                      Protocol, InStep, Expected, Closed, Asking, Receiving,
                      Early, Statuses
  <2>5. Closed(u)'
    BY <1>1 DEF conclude, clientVars, connVars, speedVars, Goes, Types,
                Protocol, Expected, InStep, Closed, Statuses
  <2> QED
    BY <2>1, <2>2, <2>4, <2>5 DEF Protocol
<1>4. UNCHANGED alive /\ \A v \in Uploads \ {u} : UNCHANGED Rest(v)
  BY <1>1 DEF conclude, clientVars, connVars, speedVars, Goes, Types, Rest
<1> QED
  BY <1>2, <1>3, <1>4, Step

\* The socket is closed when the thread has nothing left to say.
LEMMA finishKept ==
  ASSUME IInv, NEW u \in Uploads, finish(u)
  PROVE  IInv'
<1>1. Types /\ Protocol(u)
  BY DEF IInv
<1>2. Types'
  <2>1. toServer' \in [Uploads -> Seq(Requests)]
    <3>1. toServer' = [toServer EXCEPT ![u] = <<>>] /\ <<>> \in Seq(Requests)
      BY EmptySeqs DEF finish, closeSocket
    <3> QED
      BY <1>1, <3>1 DEF Types
  <2>2. toClient' \in [Uploads -> Seq({"Ready"} \cup Statuses)]
    <3>1. <<>> \in Seq({"Ready"} \cup Statuses)
      BY EmptySeqs
    <3> QED
      BY <1>1, <3>1 DEF finish, closeSocket, Types
  <2> QED
    BY <1>1, <2>1, <2>2 DEF finish, closeSocket, Goes, dirVars, clientVars,
                            speedVars, Types
<1>3. Protocol(u)'
  <2>1. Counts(u)'
    BY <1>1 DEF finish, dirVars, clientVars, speedVars, Goes, closeSocket,
                Types, Protocol, Counts
  <2>2. Expected(u)'
    BY <1>1, ShortSequences DEF finish, dirVars, clientVars, speedVars, Goes,
                                closeSocket, Types, Protocol, Expected, InStep,
                                Early
  <2>3. SizeSent(u)' => SizeSent(u) \/ client'[u] \notin Early
    <3>1. toServer'[u] = <<>>
      BY <1>1 DEF finish, closeSocket, Types
    <3> QED
      BY <3>1 DEF SizeSent, Has
  <2>4. InStep(u)'
    BY <1>1, <2>3 DEF finish, dirVars, clientVars, speedVars, Goes,
                      closeSocket, Types, Protocol, InStep, Expected, Closed,
                      Asking, Receiving, Early, Statuses
  <2>5. Closed(u)'
    BY <1>1 DEF finish, dirVars, clientVars, speedVars, Goes, closeSocket,
                Types, Protocol, Expected, InStep, Closed, Statuses
  <2> QED
    BY <2>1, <2>2, <2>4, <2>5 DEF Protocol
<1>4. UNCHANGED alive /\ \A v \in Uploads \ {u} : UNCHANGED Rest(v)
  BY <1>1 DEF finish, dirVars, clientVars, speedVars, Goes, closeSocket, Types,
              Rest
<1> QED
  BY <1>2, <1>3, <1>4, Step

\* The speed thread has no part in the protocol,
LEMMA speedCheckKept ==
  ASSUME IInv, NEW u \in Uploads, speedCheck(u)
  PROVE  IInv'
<1>1. Types /\ Protocol(u)
  BY DEF IInv
<1>2. Types'
  BY <1>1 DEF speedCheck, dirVars, clientVars, connVars, threadVars,
              startSpeedChecking, Types, Steps
<1>3. Protocol(u)'
  <2>1. Counts(u)'
    BY <1>1 DEF speedCheck, dirVars, clientVars, connVars, threadVars,
                startSpeedChecking, Types, Protocol, Counts
  <2>2. Expected(u)'
    BY <1>1, ShortSequences DEF speedCheck, dirVars, clientVars, connVars,
                                threadVars, startSpeedChecking, Types,
                                Protocol, Expected, InStep, Early
  <2>3. SizeSent(u)' => SizeSent(u) \/ client'[u] \notin Early
    BY <1>1 DEF speedCheck, dirVars, clientVars, connVars, threadVars,
                startSpeedChecking, Types, SizeSent, Early
  <2>4. InStep(u)'
    BY <1>1, <2>3 DEF speedCheck, dirVars, clientVars, connVars, threadVars,
                      startSpeedChecking, Types, Protocol, InStep, Expected,
                      Closed, Asking, Receiving, Early, Statuses
  <2>5. Closed(u)'
    BY <1>1 DEF speedCheck, dirVars, clientVars, connVars, threadVars,
                startSpeedChecking, Types, Protocol, Expected, InStep, Closed,
                Statuses
  <2> QED
    BY <2>1, <2>2, <2>4, <2>5 DEF Protocol
<1>4. UNCHANGED alive /\ \A v \in Uploads \ {u} : UNCHANGED Rest(v)
  BY <1>1 DEF speedCheck, dirVars, clientVars, connVars, threadVars,
              startSpeedChecking, Types, Rest
<1> QED
  BY <1>2, <1>3, <1>4, Step

\* nor have its timers.
LEMMA printSpeedInfoKept ==
  ASSUME IInv, NEW u \in Uploads, printSpeedInfo(u)
  PROVE  IInv'
<1>1. Types /\ Protocol(u)
  BY DEF IInv
<1>2. Types'
  BY <1>1 DEF printSpeedInfo, dirVars, clientVars, connVars, threadVars,
              startSpeedChecking, Types, Steps
<1>3. Protocol(u)'
  <2>1. Counts(u)'
    BY <1>1 DEF printSpeedInfo, dirVars, clientVars, connVars, threadVars,
                startSpeedChecking, Types, Protocol, Counts
  <2>2. Expected(u)'
    BY <1>1, ShortSequences DEF printSpeedInfo, dirVars, clientVars, connVars,
                                threadVars, startSpeedChecking, Types,
                                Protocol, Expected, InStep, Early
  <2>3. SizeSent(u)' => SizeSent(u) \/ client'[u] \notin Early
    BY <1>1 DEF printSpeedInfo, dirVars, clientVars, connVars, threadVars,
                startSpeedChecking, Types, SizeSent, Early
  <2>4. InStep(u)'
    BY <1>1, <2>3 DEF printSpeedInfo, dirVars, clientVars, connVars,
                      threadVars, startSpeedChecking, Types, Protocol, InStep,
                      Expected, Closed, Asking, Receiving, Early, Statuses
  <2>5. Closed(u)'
    BY <1>1 DEF printSpeedInfo, dirVars, clientVars, connVars, threadVars,
                startSpeedChecking, Types, Protocol, Expected, InStep, Closed,
                Statuses
  <2> QED
    BY <2>1, <2>2, <2>4, <2>5 DEF Protocol
<1>4. UNCHANGED alive /\ \A v \in Uploads \ {u} : UNCHANGED Rest(v)
  BY <1>1 DEF printSpeedInfo, dirVars, clientVars, connVars, threadVars,
              startSpeedChecking, Types, Rest
<1> QED
  BY <1>2, <1>3, <1>4, Step

\* A client that refuses has sent nothing.
LEMMA refuseKept ==
  ASSUME IInv, NEW u \in Uploads, refuse(u)
  PROVE  IInv'
<1>1. Types /\ Protocol(u)
  BY DEF IInv
<1>2. Types'
  BY <1>1 DEF refuse, dirVars, connVars, threadVars, speedVars, serverVars,
              ClientGoes, Types, Steps
<1>3. Protocol(u)'
  <2>1. Counts(u)'
    BY <1>1 DEF refuse, dirVars, connVars, threadVars, speedVars, serverVars,
                ClientGoes, Types, Protocol, Counts
  <2>2. Expected(u)'
    BY <1>1, ShortSequences DEF refuse, dirVars, connVars, threadVars,
                                speedVars, serverVars, ClientGoes, Types,
                                Protocol, Expected, InStep, Early
  <2>3. SizeSent(u)' => SizeSent(u) \/ client'[u] \notin Early
    BY <1>1 DEF refuse, dirVars, connVars, threadVars, speedVars, serverVars,
                ClientGoes, Types, SizeSent, Early
  <2>4. InStep(u)'
    BY <1>1, <2>3 DEF refuse, dirVars, connVars, threadVars, speedVars,
                      serverVars, ClientGoes, Types, Protocol, InStep,
                      Expected, Closed, Asking, Receiving, Early, Statuses
  <2>5. Closed(u)'
    BY <1>1 DEF refuse, dirVars, connVars, threadVars, speedVars, serverVars,
                ClientGoes, Types, Protocol, Expected, InStep, Closed, Statuses
  <2> QED
    BY <2>1, <2>2, <2>4, <2>5 DEF Protocol
<1>4. UNCHANGED alive /\ \A v \in Uploads \ {u} : UNCHANGED Rest(v)
  BY <1>1 DEF refuse, dirVars, connVars, threadVars, speedVars, serverVars,
              ClientGoes, Types, Rest
<1> QED
  BY <1>2, <1>3, <1>4, Step

\* A connection starts empty both ways.
LEMMA connectKept ==
  ASSUME IInv, NEW u \in Uploads, connect(u)
  PROVE  IInv'
<1>1. Types /\ Protocol(u)
  BY DEF IInv
<1>2. Types'
  BY <1>1 DEF connect, dirVars, threadVars, speedVars, serverVars, ClientGoes,
              Types, Steps
<1>3. Protocol(u)'
  <2>1. Counts(u)'
    BY <1>1 DEF connect, dirVars, threadVars, speedVars, serverVars,
                ClientGoes, Types, Protocol, Counts
  <2>2. Expected(u)'
    BY <1>1, ShortSequences DEF connect, dirVars, threadVars, speedVars,
                                serverVars, ClientGoes, Types, Protocol,
                                Expected, InStep, Early
  <2>3. SizeSent(u)' => SizeSent(u) \/ client'[u] \notin Early
    BY <1>1 DEF connect, dirVars, threadVars, speedVars, serverVars,
                ClientGoes, Types, SizeSent, Early
  <2>4. InStep(u)'
    BY <1>1, <2>3 DEF connect, dirVars, threadVars, speedVars, serverVars,
                      ClientGoes, Types, Protocol, InStep, Expected, Closed,
                      Asking, Receiving, Early, Statuses
  <2>5. Closed(u)'
    BY <1>1 DEF connect, dirVars, threadVars, speedVars, serverVars,
                ClientGoes, Types, Protocol, Expected, InStep, Closed, Statuses
  <2> QED
    BY <2>1, <2>2, <2>4, <2>5 DEF Protocol
<1>4. UNCHANGED alive /\ \A v \in Uploads \ {u} : UNCHANGED Rest(v)
  BY <1>1 DEF connect, dirVars, threadVars, speedVars, serverVars, ClientGoes,
              Types, Rest
<1> QED
  BY <1>2, <1>3, <1>4, Step

\* The end of the file changes what the client waits for, not what is there.
LEMMA endOfFileKept ==
  ASSUME IInv, NEW u \in Uploads, endOfFile(u)
  PROVE  IInv'
<1>1. Types /\ Protocol(u)
  BY DEF IInv
<1>2. Types'
  BY <1>1 DEF endOfFile, dirVars, connVars, threadVars, speedVars, serverVars,
              ClientGoes, Types, Steps
<1>3. Protocol(u)'
  <2>1. Counts(u)'
    BY <1>1 DEF endOfFile, dirVars, connVars, threadVars, speedVars,
                serverVars, ClientGoes, Types, Protocol, Counts
  <2>2. Expected(u)'
    BY <1>1, ShortSequences DEF endOfFile, dirVars, connVars, threadVars,
                                speedVars, serverVars, ClientGoes, Types,
                                Protocol, Expected, InStep, Early
  <2>3. SizeSent(u)' => SizeSent(u) \/ client'[u] \notin Early
    BY <1>1 DEF endOfFile, dirVars, connVars, threadVars, speedVars,
                serverVars, ClientGoes, Types, SizeSent, Early
  <2>4. InStep(u)'
    BY <1>1, <2>3 DEF endOfFile, dirVars, connVars, threadVars, speedVars,
                      serverVars, ClientGoes, Types, Protocol, InStep,
                      Expected, Closed, Asking, Receiving, Early, Statuses
  <2>5. Closed(u)'
    BY <1>1 DEF endOfFile, dirVars, connVars, threadVars, speedVars,
                serverVars, ClientGoes, Types, Protocol, Expected, InStep,
                Closed, Statuses
  <2> QED
    BY <2>1, <2>2, <2>4, <2>5 DEF Protocol
<1>4. UNCHANGED alive /\ \A v \in Uploads \ {u} : UNCHANGED Rest(v)
  BY <1>1 DEF endOfFile, dirVars, connVars, threadVars, speedVars, serverVars,
              ClientGoes, Types, Rest
<1> QED
  BY <1>2, <1>3, <1>4, Step

\* The name goes before the size.
LEMMA sendNameKept ==
  ASSUME IInv, NEW u \in Uploads, sendName(u)
  PROVE  IInv'
<1>1. Types /\ Protocol(u)
  BY DEF IInv
<1>5. Sends(u, "name", "named") /\ "name" \in Requests
  BY DEF sendName, Requests
<1>6. /\ toServer' \in [Uploads -> Seq(Requests)]
      /\ client' \in [Uploads -> Steps]
      /\ UNCHANGED <<conn, toClient>>
      /\ client'[u] = "named" \/ (client'[u] = "failed" /\ conn[u] = "closed")
      /\ SizeSent(u)' => "name" = "size" \/ SizeSent(u)
      /\ \A v \in Uploads \ {u} : UNCHANGED <<toServer[v], client[v]>>
  BY <1>1, <1>5, SendsKept
<1>2. Types'
  BY <1>1, <1>6 DEF sendName, dirVars, threadVars, speedVars, serverVars,
                    Types, Steps
<1>3. Protocol(u)'
  <2>1. Counts(u)'
    BY <1>1, <1>6 DEF sendName, dirVars, threadVars, speedVars, serverVars,
                      Types, Protocol, Counts
  <2>2. Expected(u)'
    BY <1>1, <1>6, ShortSequences DEF sendName, dirVars, threadVars, speedVars,
                                      serverVars, Types, Protocol, Expected,
                                      InStep, Early
  <2>3. SizeSent(u)' => SizeSent(u) \/ client'[u] \notin Early
    BY <1>6, <1>1 DEF Early, Protocol, InStep
  <2>4. InStep(u)'
    BY <1>1, <1>6, <2>3 DEF sendName, dirVars, threadVars, speedVars,
                            serverVars, Types, Protocol, InStep, Expected,
                            Closed, Asking, Receiving, Early, Statuses
  <2>5. Closed(u)'
    BY <1>1, <1>6 DEF sendName, dirVars, threadVars, speedVars, serverVars,
                      Types, Protocol, Expected, InStep, Closed, Statuses
  <2> QED
    BY <2>1, <2>2, <2>4, <2>5 DEF Protocol
<1>4. UNCHANGED alive /\ \A v \in Uploads \ {u} : UNCHANGED Rest(v)
  BY <1>1, <1>6 DEF sendName, dirVars, threadVars, speedVars, serverVars,
                    Types, Rest
<1> QED
  BY <1>2, <1>3, <1>4, Step

\* After the size the client waits for "Ready".
LEMMA sendSizeKept ==
  ASSUME IInv, NEW u \in Uploads, sendSize(u)
  PROVE  IInv'
<1>1. Types /\ Protocol(u)
  BY DEF IInv
<1>5. Sends(u, "size", "sized") /\ "size" \in Requests
  BY DEF sendSize, Requests
<1>6. /\ toServer' \in [Uploads -> Seq(Requests)]
      /\ client' \in [Uploads -> Steps]
      /\ UNCHANGED <<conn, toClient>>
      /\ client'[u] = "sized" \/ (client'[u] = "failed" /\ conn[u] = "closed")
      /\ SizeSent(u)' => "size" = "size" \/ SizeSent(u)
      /\ \A v \in Uploads \ {u} : UNCHANGED <<toServer[v], client[v]>>
  BY <1>1, <1>5, SendsKept
<1>2. Types'
  BY <1>1, <1>6 DEF sendSize, dirVars, threadVars, speedVars, serverVars,
                    Types, Steps
<1>3. Protocol(u)'
  <2>1. Counts(u)'
    BY <1>1, <1>6 DEF sendSize, dirVars, threadVars, speedVars, serverVars,
                      Types, Protocol, Counts
  <2>2. Expected(u)'
    BY <1>1, <1>6, ShortSequences DEF sendSize, dirVars, threadVars, speedVars,
                                      serverVars, Types, Protocol, Expected,
                                      InStep, Early
  <2>3. SizeSent(u)' => SizeSent(u) \/ client'[u] \notin Early
    BY <1>6, <1>1 DEF Early, Protocol, InStep
  <2>4. InStep(u)'
    BY <1>1, <1>6, <2>3 DEF sendSize, dirVars, threadVars, speedVars,
                            serverVars, Types, Protocol, InStep, Expected,
                            Closed, Asking, Receiving, Early, Statuses
  <2>5. Closed(u)'
    BY <1>1, <1>6 DEF sendSize, dirVars, threadVars, speedVars, serverVars,
                      Types, Protocol, Expected, InStep, Closed, Statuses
  <2> QED
    BY <2>1, <2>2, <2>4, <2>5 DEF Protocol
<1>4. UNCHANGED alive /\ \A v \in Uploads \ {u} : UNCHANGED Rest(v)
  BY <1>1, <1>6 DEF sendSize, dirVars, threadVars, speedVars, serverVars,
                    Types, Rest
<1> QED
  BY <1>2, <1>3, <1>4, Step

\* A file that grows is sent by one chunk more at most.
LEMMA sendChunkKept ==
  ASSUME IInv, NEW u \in Uploads, sendChunk(u)
  PROVE  IInv'
<1>1. Types /\ Protocol(u)
  BY DEF IInv
<1>5. Sends(u, "chunk", "sending") /\ "chunk" \in Requests
  BY DEF sendChunk, Requests
<1>6. /\ toServer' \in [Uploads -> Seq(Requests)]
      /\ client' \in [Uploads -> Steps]
      /\ UNCHANGED <<conn, toClient>>
      /\ client'[u] = "sending" \/ (client'[u] = "failed" /\ conn[u] = "closed")
      /\ SizeSent(u)' => "chunk" = "size" \/ SizeSent(u)
      /\ \A v \in Uploads \ {u} : UNCHANGED <<toServer[v], client[v]>>
  BY <1>1, <1>5, SendsKept
<1>2. Types'
  <2>1. sent' \in [Uploads -> Nat] /\ UNCHANGED <<serverVars, size>>
    BY <1>1 DEF sendChunk, Types
  <2> QED
    BY <1>1, <1>6, <2>1
    DEF serverVars, dirVars, threadVars, speedVars, Types
<1>3. Protocol(u)'
  <2>1. Counts(u)'
    BY <1>1, <1>6 DEF sendChunk, dirVars, threadVars, speedVars, serverVars,
                      Types, Protocol, Counts
  <2>2. Expected(u)'
    BY <1>1, <1>6, ShortSequences DEF sendChunk, dirVars, threadVars,
                                      speedVars, serverVars, Types, Protocol,
                                      Expected, InStep, Early
  <2>3. SizeSent(u)' => SizeSent(u) \/ client'[u] \notin Early
    BY <1>6, <1>1 DEF Early, Protocol, InStep
  <2>4. InStep(u)'
    BY <1>1, <1>6, <2>3 DEF sendChunk, dirVars, threadVars, speedVars,
                            serverVars, Types, Protocol, InStep, Expected,
                            Closed, Asking, Receiving, Early, Statuses
  <2>5. Closed(u)'
    BY <1>1, <1>6 DEF sendChunk, dirVars, threadVars, speedVars, serverVars,
                      Types, Protocol, Expected, InStep, Closed, Statuses
  <2> QED
    BY <2>1, <2>2, <2>4, <2>5 DEF Protocol
<1>4. UNCHANGED alive /\ \A v \in Uploads \ {u} : UNCHANGED Rest(v)
  BY <1>1, <1>6 DEF sendChunk, dirVars, threadVars, speedVars, serverVars,
                    Types, Rest
<1> QED
  BY <1>2, <1>3, <1>4, Step

\* A client that is killed is the one end that may be missing.
LEMMA LeaveKept ==
  ASSUME IInv, NEW u \in Uploads, Leave(u)
  PROVE  IInv'
<1>1. Types /\ Protocol(u)
  BY DEF IInv
<1>2. Types'
  BY <1>1 DEF Leave, dirVars, threadVars, speedVars, serverVars, ClientGoes,
              Types, Steps
<1>3. Protocol(u)'
  <2>1. Counts(u)'
    BY <1>1 DEF Leave, dirVars, threadVars, speedVars, serverVars, ClientGoes,
                Types, Protocol, Counts
  <2>2. Expected(u)'
    BY <1>1, ShortSequences DEF Leave, dirVars, threadVars, speedVars,
                                serverVars, ClientGoes, Types, Protocol,
                                Expected, InStep, Early
  <2>3. SizeSent(u)' => SizeSent(u) \/ client'[u] \notin Early
    BY <1>1 DEF Leave, dirVars, threadVars, speedVars, serverVars, ClientGoes,
                Types, SizeSent, Early
  <2>4. InStep(u)'
    BY <1>1, <2>3 DEF Leave, dirVars, threadVars, speedVars, serverVars,
                      ClientGoes, Types, Protocol, InStep, Expected, Closed,
                      Asking, Receiving, Early, Statuses
  <2>5. Closed(u)'
    BY <1>1 DEF Leave, dirVars, threadVars, speedVars, serverVars, ClientGoes,
                Types, Protocol, Expected, InStep, Closed, Statuses
  <2> QED
    BY <2>1, <2>2, <2>4, <2>5 DEF Protocol
<1>4. UNCHANGED alive /\ \A v \in Uploads \ {u} : UNCHANGED Rest(v)
  BY <1>1 DEF Leave, dirVars, threadVars, speedVars, serverVars, ClientGoes,
              Types, Rest
<1> QED
  BY <1>2, <1>3, <1>4, Step

\* The first answer is "Ready".
LEMMA awaitReadyKept ==
  ASSUME IInv, NEW u \in Uploads, awaitReady(u)
  PROVE  IInv'
<1>1. Types /\ Protocol(u)
  BY DEF IInv
<1>2. Types'
  <2>1. toClient' \in [Uploads -> Seq({"Ready"} \cup Statuses)]
    <3>1. CASE UNCHANGED toClient
      BY <1>1, <3>1 DEF Types
    <3>2. CASE /\ toClient[u] # <<>>
               /\ toClient' = [toClient EXCEPT ![u] = Tail(@)]
      BY <1>1, <3>2, TailKept
    <3> QED
      BY <1>1, <3>1, <3>2 DEF awaitReady, ClientGoes
  <2> QED
    BY <1>1, <2>1 DEF awaitReady, ClientGoes, serverVars, dirVars, threadVars,
                      speedVars, Types, Steps
<1>3. Protocol(u)'
  <2>1. Counts(u)'
    BY <1>1 DEF awaitReady, dirVars, threadVars, speedVars, serverVars,
                ClientGoes, Types, Protocol, Counts
  <2>2. Expected(u)'
    <3>1. CASE client'[u] = "failed"
      BY <3>1 DEF Expected, Early
    <3>2. CASE /\ toClient[u] # <<>> /\ client'[u] = "sending"
               /\ toClient'[u] = Tail(toClient[u])
      <4>1. \/ toClient[u] = <<"Ready">>
            \/ \E s \in Statuses : toClient[u] = <<"Ready", s>>
        BY <1>1, <3>2 DEF awaitReady, Protocol, Expected
      <4>2. toClient'[u] = <<>> \/ \E s \in Statuses : toClient'[u] = <<s>>
        <5>1. ASSUME toClient[u] = <<"Ready">> PROVE toClient'[u] = <<>>
          BY <3>2, <5>1, ShortSequences
        <5>2. ASSUME NEW s \in Statuses, toClient[u] = <<"Ready", s>>
              PROVE  toClient'[u] = <<s>>
          BY <3>2, <5>2, ShortSequences
        <5> QED
          BY <4>1, <5>1, <5>2
      <4> QED
        BY <3>2, <4>2 DEF Expected, Early
    <3> QED
      BY <1>1, <3>1, <3>2 DEF awaitReady, ClientGoes, Types
  <2>3. SizeSent(u)' => SizeSent(u) \/ client'[u] \notin Early
    BY <1>1 DEF awaitReady, dirVars, threadVars, speedVars, serverVars,
                ClientGoes, Types, SizeSent, Early
  <2>4. InStep(u)'
    <3>1. UNCHANGED <<alive, server, read_status, conn>> /\ client[u] = "sized"
      BY <1>1 DEF awaitReady, serverVars, threadVars
    <3>2. client'[u] \in {"sending", "failed"}
      BY <1>1 DEF awaitReady, ClientGoes, Types
    <3>3. server[u] \in Receiving =>
            client'[u] = "sending" /\ toClient'[u] = <<>>
      <4>1. ASSUME server[u] \in Receiving PROVE toClient[u] = <<"Ready">>
        BY <1>1, <3>1, <4>1 DEF Protocol, InStep
      <4>2. ASSUME toClient[u] = <<"Ready">>
            PROVE  client'[u] = "sending" /\ toClient'[u] = <<>>
        <5>1. toClient[u] # <<>> /\ Tail(toClient[u]) = <<>>
          BY <4>2, ShortSequences
        <5>2. /\ toClient' = [toClient EXCEPT ![u] = Tail(@)]
              /\ client' = [client EXCEPT ![u] = "sending"]
          BY <1>1, <5>1 DEF awaitReady, ClientGoes
        <5>3. toClient'[u] = Tail(toClient[u]) /\ client'[u] = "sending"
          BY <1>1, <5>2 DEF Types
        <5> QED
          BY <5>1, <5>3
      <4> QED
        BY <4>1, <4>2
    <3>4. alive /\ server[u] \in Asking =>
            toClient'[u] = <<>> /\ client'[u] = "failed"
      BY <1>1, <3>1 DEF awaitReady, ClientGoes, Types, Protocol, InStep
    <3> QED
      BY <1>1, <2>3, <3>1, <3>2, <3>3, <3>4
      DEF Protocol, InStep, Early, Statuses
  <2>5. Closed(u)'
    BY <1>1 DEF awaitReady, dirVars, threadVars, speedVars, serverVars,
                ClientGoes, Types, Protocol, Expected, InStep, Closed, Statuses
  <2> QED
    BY <2>1, <2>2, <2>4, <2>5 DEF Protocol
<1>4. UNCHANGED alive /\ \A v \in Uploads \ {u} : UNCHANGED Rest(v)
  BY <1>1 DEF awaitReady, dirVars, threadVars, speedVars, serverVars,
              ClientGoes, Types, Rest
<1> QED
  BY <1>2, <1>3, <1>4, Step

\* The next answer is a status, and it is written when the thread is done.
LEMMA awaitStatusKept ==
  ASSUME IInv, NEW u \in Uploads, awaitStatus(u)
  PROVE  IInv'
<1>1. Types /\ Protocol(u)
  BY DEF IInv
<1>2. Types'
  <2>1. toClient' \in [Uploads -> Seq({"Ready"} \cup Statuses)]
    <3>1. CASE UNCHANGED toClient
      BY <1>1, <3>1 DEF Types
    <3>2. CASE /\ toClient[u] # <<>>
               /\ toClient' = [toClient EXCEPT ![u] = Tail(@)]
      BY <1>1, <3>2, TailKept
    <3> QED
      BY <1>1, <3>1, <3>2 DEF awaitStatus, ClientGoes
  <2>2. client' \in [Uploads -> Steps]
    <3>1. CASE client' = [client EXCEPT ![u] = "failed"]
      BY <1>1, <3>1 DEF Types, Steps
    <3>2. CASE /\ toClient[u] # <<>>
               /\ client' = [client EXCEPT ![u] = Head(toClient[u])]
      <4>1. \E s \in Statuses : toClient[u] = <<s>>
        BY <1>1, <3>2 DEF awaitStatus, Protocol, Expected
      <4>2. Head(toClient[u]) \in Statuses
        BY <4>1, ShortSequences
      <4> QED
        BY <1>1, <3>2, <4>2 DEF Types, Steps, Statuses
    <3> QED
      BY <1>1, <3>1, <3>2 DEF awaitStatus, ClientGoes
  <2>3. conn' \in [Uploads -> {"none", "up", "fin", "rst", "closed"}]
    <3>1. CASE UNCHANGED conn
      BY <1>1, <3>1 DEF Types
    <3>2. CASE conn' = [conn EXCEPT ![u] = IF @ = "up" THEN "fin" ELSE @]
      <4>1. (IF conn[u] = "up" THEN "fin" ELSE conn[u])
              \in {"none", "up", "fin", "rst", "closed"}
        BY <1>1 DEF Types
      <4> QED
        BY <1>1, <3>2, <4>1 DEF Types
    <3> QED
      BY <1>1, <3>1, <3>2 DEF awaitStatus
  <2> QED
    BY <1>1, <2>1, <2>2, <2>3 DEF awaitStatus, serverVars, dirVars, threadVars,
                                  speedVars, Types
<1>5. client'[u] \in {"failed"} \cup Statuses
  <2>1. CASE client'[u] = "failed"
    BY <2>1
  <2>2. CASE toClient[u] # <<>> /\ client'[u] = Head(toClient[u])
    <3>1. \E s \in Statuses : toClient[u] = <<s>>
      BY <1>1, <2>2 DEF awaitStatus, Protocol, Expected
    <3> QED
      BY <2>2, <3>1, ShortSequences
  <2> QED
    BY <1>1, <2>1, <2>2 DEF awaitStatus, ClientGoes, Types
<1>3. Protocol(u)'
  <2>1. Counts(u)'
    BY <1>1 DEF awaitStatus, dirVars, threadVars, speedVars, serverVars,
                ClientGoes, Types, Protocol, Counts
  <2>2. Expected(u)'
    BY <1>5 DEF Expected, Early, Statuses
  <2>3. SizeSent(u)' => SizeSent(u) \/ client'[u] \notin Early
    BY <1>1 DEF awaitStatus, SizeSent
  <2>4. InStep(u)'
    <3>1. UNCHANGED <<alive, server, read_status, toServer>>
      BY <1>1 DEF awaitStatus, serverVars, threadVars
    <3>2. client[u] = "waiting"
      BY <1>1 DEF awaitStatus
    <3>3. alive => server[u] \notin Receiving \cup Asking
      <4>1. CASE toClient[u] # <<>>
        BY <1>1, <3>2, <4>1 DEF Protocol, InStep
      <4>2. CASE conn[u] = "closed"
        BY <1>1, <4>2 DEF Protocol, Closed, Asking, Receiving
      <4> QED
        BY <1>1, <4>1, <4>2 DEF awaitStatus
    <3>4. server[u] \notin Receiving
      BY <1>1, <3>3 DEF Protocol, InStep, Receiving
    <3> QED
      BY <1>1, <1>5, <3>1, <3>3, <3>4 DEF Protocol, InStep, Early, Statuses
  <2>5. Closed(u)'
    <3>1. conn'[u] \in {"fin", "rst"} => client'[u] \in {"left"} \cup Statuses
      BY <1>1 DEF awaitStatus, ClientGoes, Types, Protocol, Closed, Statuses,
                  Expected
    <3>2. /\ UNCHANGED <<alive, server>>
          /\ conn'[u] = "closed" => conn[u] = "closed"
      BY <1>1 DEF awaitStatus, serverVars, threadVars, Types
    <3> QED
      BY <1>1, <3>1, <3>2 DEF Protocol, Closed
  <2> QED
    BY <2>1, <2>2, <2>4, <2>5 DEF Protocol
<1>4. UNCHANGED alive /\ \A v \in Uploads \ {u} : UNCHANGED Rest(v)
  BY <1>1 DEF awaitStatus, dirVars, threadVars, speedVars, serverVars,
              ClientGoes, Types, Rest
<1> QED
  BY <1>2, <1>3, <1>4, Step

\* An upload starts on an open connection.
LEMMA acceptConnectionKept ==
  ASSUME IInv, NEW u \in Uploads, acceptConnection(u)
  PROVE  IInv'
<1>1. Types /\ Protocol(u)
  BY DEF IInv
<1>2. alive
  BY <1>1 DEF acceptConnection, Protocol, InStep
<1>3. CASE Terminate
  BY <1>2, <1>3, TerminateInv
<1>4. CASE /\ Goes(u, "start")
           /\ UNCHANGED <<alive, dirVars, clientVars, connVars, output_file,
                          received, read_status, speedVars>>
  <2>1. Types'
    BY <1>1, <1>4 DEF Goes, dirVars, clientVars, connVars, speedVars, Types
  <2>2. /\ server[u] = "none" /\ server'[u] = "start"
        /\ UNCHANGED <<alive, size, client, sent, conn, toServer, toClient,
                       received, read_status>>
    BY <1>1, <1>4 DEF acceptConnection, Goes, clientVars, connVars, Types
  <2>3. conn[u] # "closed"
    BY <1>1, <1>2, <2>2 DEF Protocol, Closed
  <2>4. Protocol(u)'
    BY <1>1, <2>2, <2>3, <1>2
    DEF Protocol, Counts, Expected, InStep, Closed, SizeSent, Asking, Receiving
  <2>5. UNCHANGED alive /\ \A v \in Uploads \ {u} : UNCHANGED Rest(v)
    BY <1>1, <1>4 DEF Goes, clientVars, connVars, Types, Rest
  <2> QED
    BY <2>1, <2>4, <2>5, Step
<1> QED
  BY <1>3, <1>4 DEF acceptConnection

\* The name opens the file, or ends the process.
LEMMA readNameKept ==
  ASSUME IInv, NEW u \in Uploads, readName(u)
  PROVE  IInv'
<1>1. Types /\ Protocol(u)
  BY DEF IInv
<1>2. alive
  BY <1>1 DEF readName, Protocol, InStep
<1>3. CASE Terminate
  BY <1>2, <1>3, TerminateInv
<1>4. CASE /\ server[u] = "name" /\ Arrived(u, "name") /\ Goes(u, "size")
           /\ \E f \in {u, dir[NameOf[u]]} \ {NoFile} :
                /\ dir' = [dir EXCEPT ![NameOf[u]] = f]
                /\ content' = [content EXCEPT ![f] = <<>>]
                /\ output_file' = [output_file EXCEPT ![u] = f]
           /\ UNCHANGED <<alive, clientVars, conn, toClient, received,
                          read_status, speedVars>>
  <2>1. Types'
    <3>1. PICK f \in {u, dir[NameOf[u]]} \ {NoFile} :
                /\ dir' = [dir EXCEPT ![NameOf[u]] = f]
                /\ content' = [content EXCEPT ![f] = <<>>]
                /\ output_file' = [output_file EXCEPT ![u] = f]
      BY <1>4
    <3>2. NameOf[u] \in Names /\ f \in Uploads
      BY <1>1 DEF Types, Names
    <3>3. <<>> \in Seq(Uploads \cup {Hole})
      BY EmptySeqs
    <3>4. /\ dir' \in [Names -> Uploads \cup {NoFile}]
          /\ content' \in [Uploads -> Seq(Uploads \cup {Hole})]
          /\ output_file' \in [Uploads -> Uploads \cup {NoFile}]
      BY <1>1, <3>1, <3>2, <3>3 DEF Types
    <3>5. toServer' \in [Uploads -> Seq(Requests)]
      BY <1>1, <1>4, ArrivedKept
    <3> QED
      BY <1>1, <1>4, <3>4, <3>5 DEF Goes, clientVars, speedVars, Types
  <2>2. /\ server[u] = "name" /\ server'[u] = "size"
        /\ UNCHANGED <<alive, size, client, sent, conn, toClient, received,
                       read_status>>
        /\ SizeSent(u)' => SizeSent(u)
    BY <1>1, <1>4, ArrivedKept DEF Goes, clientVars, Types
  <2>3. conn[u] # "closed"
    BY <1>1, <1>2, <2>2 DEF Protocol, Closed
  <2>4. Protocol(u)'
    BY <1>1, <2>2, <2>3, <1>2
    DEF Protocol, Counts, Expected, InStep, Closed, Asking, Receiving
  <2>5. UNCHANGED alive /\ \A v \in Uploads \ {u} : UNCHANGED Rest(v)
    BY <1>1, <1>4, ArrivedKept DEF Goes, clientVars, Types, Rest
  <2> QED
    BY <2>1, <2>4, <2>5, Step
<1>5. ASSUME ~ Terminate PROVE IInv'
  <2>1. LET f == IF dir[NameOf[u]] = NoFile THEN u ELSE dir[NameOf[u]]
        IN  /\ f \in {u, dir[NameOf[u]]} \ {NoFile}
            /\ dir' = [dir EXCEPT ![NameOf[u]] = f]
            /\ content' = [content EXCEPT ![f] = <<>>]
            /\ output_file' = [output_file EXCEPT ![u] = f]
    BY <1>5, ConstantsAssumption DEF readName
  <2>2. /\ server[u] = "name" /\ Arrived(u, "name") /\ Goes(u, "size")
        /\ UNCHANGED <<alive, clientVars, conn, toClient, received,
                       read_status, speedVars>>
    BY <1>5 DEF readName
  <2> QED
    BY <1>4, <2>1, <2>2
<1> QED
  BY <1>3, <1>5

\* "Ready" is written when the client waits for it.
LEMMA readSizeKept ==
  ASSUME IInv, NEW u \in Uploads, readSize(u)
  PROVE  IInv'
<1>1. Types /\ Protocol(u)
  BY DEF IInv
<1>2. alive
  BY <1>1 DEF readSize, Protocol, InStep
<1>3. CASE Terminate
  BY <1>2, <1>3, TerminateInv
<1>4. CASE /\ server[u] = "size" /\ Arrived(u, "size")
           /\ Answers(u, "Ready") /\ Goes(u, "receive")
           /\ UNCHANGED <<alive, dirVars, clientVars, conn, output_file,
                          received, read_status, speedVars>>
  <2>1. Types'
    <3>1. /\ toServer' \in [Uploads -> Seq(Requests)]
          /\ toClient' \in [Uploads -> Seq({"Ready"} \cup Statuses)]
      BY <1>1, <1>4, ArrivedKept, AnswersKept
    <3> QED
      BY <1>1, <1>4, <3>1 DEF Goes, dirVars, clientVars, speedVars, Types
  <2>2. /\ server[u] = "size" /\ server'[u] = "receive"
        /\ UNCHANGED <<alive, size, client, sent, conn, received, read_status>>
    BY <1>1, <1>4 DEF Goes, clientVars, Types
  <2>3. conn[u] # "closed"
    BY <1>1, <1>2, <2>2 DEF Protocol, Closed
  <2>4. /\ toClient[u] = <<>>
        /\ client[u] \notin {"sending", "waiting"} \cup Statuses
    BY <1>1, <1>2, <2>2 DEF Protocol, InStep, Asking
  <2>5. toClient'[u] = <<"Ready">>
    BY <1>1, <1>4, <2>4, AnswersKept, ShortSequences
  <2>6. client[u] \notin Early
    BY <1>1, <1>4, SizeArrived DEF Protocol, InStep
  <2>7. Protocol(u)'
    BY <1>1, <1>2, <2>2, <2>3, <2>4, <2>5, <2>6
    DEF Protocol, Counts, Expected, InStep, Closed, Asking, Receiving
  <2>8. UNCHANGED alive /\ \A v \in Uploads \ {u} : UNCHANGED Rest(v)
    BY <1>1, <1>4, ArrivedKept, AnswersKept DEF Goes, clientVars, Types, Rest
  <2> QED
    BY <2>1, <2>7, <2>8, Step
<1> QED
  BY <1>3, <1>4 DEF readSize

\* The status is written when the client waits for it, or will.
LEMMA sendStatusKept ==
  ASSUME IInv, NEW u \in Uploads, sendStatus(u)
  PROVE  IInv'
<1>1. Types /\ Protocol(u)
  BY DEF IInv
<1>2. alive
  BY <1>1 DEF sendStatus, Protocol, InStep
<1>3. CASE Terminate
  BY <1>2, <1>3, TerminateInv
<1>4. CASE /\ server[u] = "concluded" /\ Answers(u, read_status[u])
           /\ is_data_ended' = [is_data_ended EXCEPT ![u] = TRUE]
           /\ Goes(u, "join")
           /\ UNCHANGED <<alive, dirVars, clientVars, conn, toServer,
                          output_file, received, read_status, speed>>
  <2>1. read_status[u] \in Statuses
    BY <1>1, <1>4 DEF Protocol, InStep
  <2>2. Types'
    <3>1. toClient' \in [Uploads -> Seq({"Ready"} \cup Statuses)]
      BY <1>1, <1>4, <2>1, AnswersKept
    <3>2. is_data_ended' \in [Uploads -> BOOLEAN]
      BY <1>1, <1>4 DEF Types
    <3> QED
      BY <1>1, <1>4, <3>1, <3>2 DEF Goes, dirVars, clientVars, Types
  <2>3. /\ server[u] = "concluded" /\ server'[u] = "join"
        /\ UNCHANGED <<alive, size, client, sent, conn, toServer, received,
                       read_status>>
    BY <1>1, <1>4 DEF Goes, clientVars, Types
  <2>4. conn[u] # "closed"
    BY <1>1, <1>2, <2>3 DEF Protocol, Closed
  <2>5. client[u] \notin Early /\ client[u] \notin Statuses
    BY <1>1, <2>3 DEF Protocol, InStep, Asking, Receiving
  <2>6. /\ client[u] = "sized" => toClient[u] = <<"Ready">>
        /\ client[u] \in {"sending", "waiting"} => toClient[u] = <<>>
    BY <1>1, <2>3 DEF Protocol, InStep, Receiving
  <2>7. toClient'[u] = Append(toClient[u], read_status[u])
    BY <1>1, <1>4, <2>1, AnswersKept
  <2>8. Expected(u)'
    <3>1. client[u] = "sized" => toClient'[u] = <<"Ready", read_status[u]>>
      BY <2>6, <2>7, ShortSequences
    <3>2. client[u] \in {"sending", "waiting"} =>
            toClient'[u] = <<read_status[u]>>
      BY <2>6, <2>7, ShortSequences
    <3> QED
      BY <2>1, <2>3, <2>5, <3>1, <3>2 DEF Expected
  <2>9. Protocol(u)'
    BY <1>1, <1>2, <2>1, <2>3, <2>4, <2>5, <2>8
    DEF Protocol, Counts, InStep, Closed, SizeSent, Asking, Receiving
  <2>10. UNCHANGED alive /\ \A v \in Uploads \ {u} : UNCHANGED Rest(v)
    BY <1>1, <1>4, <2>1, AnswersKept DEF Goes, clientVars, Types, Rest
  <2> QED
    BY <2>2, <2>9, <2>10, Step
<1> QED
  BY <1>3, <1>4 DEF sendStatus

(***************************************************************************)
(* The theorems.                                                           *)
(***************************************************************************)
\* Every step keeps the invariant.
LEMMA NextInv == IInv /\ [Next]_vars => IInv'
<1> SUFFICES ASSUME IInv, [Next]_vars PROVE IInv'
  OBVIOUS
<1>1. CASE UNCHANGED vars
  <2>1. Types'
    BY <1>1 DEF IInv, vars, Types
  <2>2. \A u \in Uploads : UNCHANGED <<alive, Rest(u)>>
    BY <1>1 DEF vars, Rest
  <2> QED
    BY <2>1, <2>2, Others DEF IInv
<1>2. ASSUME NEW u \in Uploads, Uploading(u) PROVE IInv'
  BY <1>2, startUploadKept, readNameKept, readSizeKept, receiveKept,
     concludeKept, sendStatusKept, finishKept DEF Uploading
<1>3. ASSUME NEW u \in Uploads, Speed(u) PROVE IInv'
  BY <1>3, speedCheckKept, printSpeedInfoKept DEF Speed
<1>4. ASSUME NEW u \in Uploads, Client(u) PROVE IInv'
  BY <1>4, refuseKept, connectKept, sendNameKept, sendSizeKept, awaitReadyKept,
     sendChunkKept, endOfFileKept, awaitStatusKept DEF Client
<1>5. ASSUME NEW u \in Uploads, acceptConnection(u) \/ Leave(u) PROVE IInv'
  BY <1>5, acceptConnectionKept, LeaveKept
<1> QED
  BY <1>1, <1>2, <1>3, <1>4, <1>5 DEF Next

\* The invariant holds throughout.
LEMMA Inductive == Spec => []IInv
BY InitInv, NextInv, PTL DEF Spec

\* Every variable keeps its type; no upload counts more than was announced.
\* ftpv2_server.cpp:77-90.
THEOREM TypeCorrect == Spec => []TypeOK
<1>1. IInv => TypeOK
  <2> SUFFICES ASSUME IInv PROVE TypeOK
    OBVIOUS
  <2>1. Types /\ \A u \in Uploads : Counts(u)
    BY DEF IInv, Protocol
  <2>2. \A f \in Uploads : \A i \in DOMAIN content[f] :
          content[f][i] \in Uploads \cup {Hole}
    BY <2>1 DEF Types
  <2>3. \A u \in Uploads :
          /\ \A i \in DOMAIN toServer[u] : toServer[u][i] \in Requests
          /\ \A i \in DOMAIN toClient[u] :
               toClient[u][i] \in {"Ready"} \cup Statuses
    <3>1. ASSUME NEW S, NEW s \in Seq(S) PROVE \A i \in DOMAIN s : s[i] \in S
      OBVIOUS
    <3>2. \A u \in Uploads : /\ toServer[u] \in Seq(Requests)
                            /\ toClient[u] \in Seq({"Ready"} \cup Statuses)
      BY <2>1 DEF Types
    <3> QED
      BY <3>1, <3>2
  <2>4. \A u \in Uploads : /\ sent[u] \in 0 .. (size[u] + 1)
                          /\ received[u] \in 0 .. size[u]
    BY <2>1 DEF Counts
  <2>5. \A u \in Uploads :
          /\ \A i \in DOMAIN toServer[u] :
               toServer[u][i] \in {"name", "size", "chunk"}
          /\ \A i \in DOMAIN toClient[u] :
               toClient[u][i] \in {"Ready", "Success", "Failure"}
    BY <2>3 DEF Requests, Statuses
  <2>6. alive \in BOOLEAN /\ is_data_ended \in [Uploads -> BOOLEAN]
    BY <2>1 DEF Types
  <2> QED
    BY <2>1, <2>2, <2>4, <2>5, <2>6 DEF Types, Steps, TypeOK
<1> QED
  BY <1>1, Inductive, PTL

\* The step that ends the process finds a connection its client has left.
LEMMA EndedByLeaver ==
  ASSUME Faults \cap {"accept", "open", "newline"} = {},
         IInv, OnlyLeaversEndIt, [Next]_vars
  PROVE  OnlyLeaversEndIt'
<1> DEFINE Left(u) == client[u] = "left"
<1>1. Types
  BY DEF IInv
<1>2. ASSUME NEW u \in Uploads, Left(u) PROVE Left(u)'
  BY <1>1, <1>2
  DEF Next, Uploading, Speed, Client, vars, acceptConnection, startUpload,
      readName, readSize, receive, conclude, sendStatus, finish, speedCheck,
      printSpeedInfo, startSpeedChecking, refuse, connect, sendName, sendSize,
      awaitReady, sendChunk, endOfFile, awaitStatus, Leave, Sends, ClientGoes,
      Terminate, clientVars, connVars, Types
<1>3. ASSUME alive, ~ alive' PROVE \E u \in Uploads : Left(u)
  <2>1. PICK u \in Uploads : \/ readName(u) /\ ReadFails(u)
                             \/ readSize(u) /\ (ReadFails(u) \/ WriteFails(u))
                             \/ sendStatus(u) /\ WriteFails(u)
    BY <1>3
    DEF Next, Uploading, Speed, Client, vars, acceptConnection, startUpload,
        readName, readSize, receive, conclude, sendStatus, finish, speedCheck,
        printSpeedInfo, startSpeedChecking, refuse, connect, sendName,
        sendSize, awaitReady, sendChunk, endOfFile, awaitStatus, Leave,
        serverVars
  <2>2. conn[u] \in {"fin", "rst"}
    BY <2>1 DEF ReadFails, WriteFails
  <2>3. server[u] \in {"name", "size", "concluded"}
    BY <2>1 DEF readName, readSize, sendStatus
  <2>4. Protocol(u)
    BY DEF IInv
  <2>5. client[u] \notin Statuses
    BY <1>3, <2>3, <2>4 DEF Protocol, InStep, Asking, Receiving
  <2> QED
    BY <2>2, <2>4, <2>5 DEF Protocol, Closed
<1> QED
  BY <1>2, <1>3 DEF OnlyLeaversEndIt

\* For any number of uploads, of any names: if accepting and opening succeed
\* and no name has a newline, the server ends only when a client has left
\* before its answer.  ftpv2_server.cpp:42,109,116.
THEOREM LeaversEndIt ==
  ASSUME Faults \cap {"accept", "open", "newline"} = {}
  PROVE  Spec => []OnlyLeaversEndIt
<1>1. Init => OnlyLeaversEndIt
  BY DEF Init, OnlyLeaversEndIt
<1>2. IInv /\ OnlyLeaversEndIt /\ [Next]_vars => OnlyLeaversEndIt'
  BY EndedByLeaver
<1> QED
  BY <1>1, <1>2, Inductive, PTL DEF Spec

(***************************************************************************)
(* The promise of the uploads: each has a file of its own.                 *)
(***************************************************************************)
\* No two uploads have one name.
OneEach == \A u, v \in Uploads : NameOf[u] = NameOf[v] => u = v

\* How what is in the directory under the name of u follows from what u did.
Stored(u) ==
  /\ output_file[u] \in {NoFile, u}
  /\ output_file[u] = NoFile => /\ dir[NameOf[u]] = NoFile
                                /\ received[u] = 0 /\ read_status[u] = "none"
  /\ output_file[u] = u =>
       /\ content[u] = [i \in 1 .. received[u] |-> u]
       /\ dir[NameOf[u]] = IF read_status[u] = "Failure" THEN NoFile ELSE u
  /\ read_status[u] = "Success" => received[u] = size[u]
  /\ is_data_ended[u] => read_status[u] # "none"

\* How far the thread of u is, and what it has done so far.
Stage(u) ==
  /\ alive /\ server[u] \in {"none", "start", "name"} =>
       output_file[u] = NoFile
  /\ server[u] \in {"size", "receive", "received"} =>
       output_file[u] = u /\ read_status[u] = "none"
  /\ server[u] \in {"concluded", "join"} =>
       output_file[u] = u /\ read_status[u] # "none"
  /\ server[u] = "concluded" => ~ is_data_ended[u]

Own(u) == Stored(u) /\ Stage(u)

PInv == IInv /\ \A u \in Uploads : Own(u)

\* What Own is about.
Work(u) == <<output_file[u], dir[NameOf[u]], content[u], received[u], size[u],
             read_status[u], is_data_ended[u], server[u]>>

\* The whole file of upload u.
All(u) == [i \in 1 .. size[u] |-> u]

\* What leaves the work of an upload alone keeps what is known of it.
LEMMA OwnKept ==
  ASSUME NEW v \in Uploads, Own(v), UNCHANGED Work(v), alive' => alive
  PROVE  Own(v)'
<1>1. UNCHANGED <<output_file[v], dir[NameOf[v]], content[v], received[v],
                  size[v], read_status[v], is_data_ended[v], server[v]>>
  BY DEF Work
<1>2. Stored(v)'
  BY <1>1 DEF Own, Stored
<1>3. Stage(v)'
  BY <1>1 DEF Own, Stage
<1> QED
  BY <1>2, <1>3 DEF Own

\* A step of one upload among those that have names of their own.
LEMMA OneOwn ==
  ASSUME PInv, IInv', UNCHANGED alive, NEW u \in Uploads, Own(u)',
         \A v \in Uploads \ {u} : UNCHANGED Work(v)
  PROVE  PInv'
<1> SUFFICES ASSUME NEW v \in Uploads PROVE Own(v)'
  BY DEF PInv
<1>1. CASE v = u
  BY <1>1
<1>2. CASE v # u
  BY <1>2, OwnKept DEF PInv
<1> QED
  BY <1>1, <1>2

\* The file under the name of an upload is missing, whole or in part.
Known(u) ==
  Stored(u) => FileUnder(NameOf[u]) =
                 IF dir[NameOf[u]] = NoFile THEN "none"
                 ELSE IF content[u] = All(u) THEN u ELSE "partial"

\* What the abstract state has under a name is what the upload left there.
AllKnown == OneEach => \A u \in Uploads : Known(u)

LEMMA FileIs == AllKnown
<1> SUFFICES ASSUME OneEach, NEW u \in Uploads, Stored(u)
             PROVE  FileUnder(NameOf[u]) =
                      IF dir[NameOf[u]] = NoFile THEN "none"
                      ELSE IF content[u] = All(u) THEN u ELSE "partial"
  BY DEF Known, AllKnown
<1> DEFINE n == NameOf[u]
           Theirs(v) == NameOf[v] = n /\ Complete(v)
<1>1. CASE dir[n] = NoFile
  BY <1>1 DEF FileUnder
<1>2. CASE dir[n] # NoFile
  <2>1. dir[n] = u
    BY <1>2 DEF Stored
  <2>2. Complete(u) <=> content[u] = All(u)
    BY <1>2, <2>1 DEF Complete, All
  <2>3. \A v \in Uploads : Theirs(v) <=> v = u /\ content[u] = All(u)
    BY <2>2 DEF OneEach
  <2>4. CASE content[u] = All(u)
    <3>1. \A v \in Uploads : Theirs(v) <=> v = u
      BY <2>3, <2>4
    <3> HIDE DEF Theirs
    <3>2. (CHOOSE v \in Uploads : Theirs(v)) = u
      BY <3>1
    <3>3. \E v \in Uploads : Theirs(v)
      BY <3>1
    <3> QED
      BY <1>2, <2>4, <3>2, <3>3 DEF FileUnder, Theirs
  <2>5. CASE content[u] # All(u)
    <3>1. ~ \E v \in Uploads : Theirs(v)
      BY <2>3, <2>5
    <3> QED
      BY <1>2, <2>5, <3>1 DEF FileUnder
  <2> QED
    BY <2>4, <2>5
<1> QED
  BY <1>1, <1>2

\* The same after a step.
LEMMA FileIsThen == AllKnown'
BY FileIs, PTL

\* A step that changes no file, and reports nothing, is none of the promise.
LEMMA Stutters ==
  ASSUME OneEach, PInv, PInv',
         UNCHANGED <<dir, content, size, read_status, is_data_ended>>
  PROVE  UNCHANGED Promise!vars
<1> DEFINE F(n) == FileUnder(n)
<1>1. ASSUME NEW n \in Names PROVE F(n)' = F(n)
  <2>1. PICK u \in Uploads : n = NameOf[u]
    BY DEF Names
  <2>2. Known(u) /\ Known(u)' /\ Stored(u) /\ Stored(u)'
    BY FileIs, FileIsThen DEF AllKnown, OneEach, PInv, Own
  <2> QED
    BY <2>1, <2>2 DEF Known, All
<1> HIDE DEF F
<1>2. UNCHANGED [n \in Names |-> F(n)]
  BY <1>1
<1>3. UNCHANGED [u \in Uploads |-> IF is_data_ended[u] THEN read_status[u]
                                   ELSE "none"]
  OBVIOUS
<1> QED
  BY <1>2, <1>3 DEF Promise!vars, F

\* A step of an upload that has not been reported, on its own file, is one
\* the promise allows.
LEMMA Changes ==
  ASSUME OneEach, PInv, PInv', NEW u \in Uploads, ~ is_data_ended[u],
         UNCHANGED <<size, is_data_ended>>,
         \A v \in Uploads \ {u} :
           UNCHANGED <<dir[NameOf[v]], content[v], read_status[v]>>
  PROVE  Promise!Change(u)
<1> DEFINE F(n) == FileUnder(n)
           told == [v \in Uploads |-> IF is_data_ended[v] THEN read_status[v]
                                      ELSE "none"]
           file == [n \in Names |-> F(n)]
<1>0. ASSUME NEW v \in Uploads PROVE Known(v) /\ Known(v)' /\ Stored(v) /\ Stored(v)'
  BY FileIs, FileIsThen DEF AllKnown, OneEach, PInv, Own
<1>1. ASSUME NEW n \in Names, n # NameOf[u] PROVE F(n)' = F(n)
  <2>1. PICK v \in Uploads : n = NameOf[v]
    BY DEF Names
  <2>2. v # u
    BY <1>1, <2>1
  <2> QED
    BY <1>0, <2>1, <2>2 DEF Known, All
<1>2. F(NameOf[u])' \in {"none", "partial", u}
  BY <1>0 DEF Known
<1>3. UNCHANGED told
  <2>1. ASSUME NEW v \in Uploads
        PROVE  (IF is_data_ended[v] THEN read_status[v] ELSE "none")' =
                 IF is_data_ended[v] THEN read_status[v] ELSE "none"
    OBVIOUS
  <2> QED
    BY <2>1
<1>4. told[u] = "none" /\ NameOf[u] \in Names
  BY DEF Names
<1> HIDE DEF F
<1>5. file' = [file EXCEPT ![NameOf[u]] = F(NameOf[u])']
  BY <1>1, <1>4
<1> QED
  BY <1>2, <1>3, <1>4, <1>5 DEF Promise!Change, F

\* A step that only moves threads on.
LEMMA QuietKept ==
  ASSUME OneEach, PInv, IInv',
         UNCHANGED <<dir, content, size, output_file, received, read_status,
                     is_data_ended>>,
         \A v \in Uploads : Stage(v)'
  PROVE  PInv' /\ [Promise!Next]_(Promise!vars)
<1>1. ASSUME NEW v \in Uploads PROVE Stored(v)'
  BY DEF PInv, Own, Stored
<1>2. PInv'
  BY <1>1 DEF PInv, Own
<1> QED
  BY <1>2, Stutters

\* The steps of the threads that leave the files and their counts alone.
LEMMA MovesOn ==
  ASSUME PInv, NEW u \in Uploads, UNCHANGED <<alive, output_file, read_status,
                                              is_data_ended>>,
         NEW pc, Goes(u, pc),
         \/ alive /\ server[u] = "none" /\ pc = "start"
         \/ server[u] = "start" /\ pc \in {"name", "end"}
         \/ server[u] = "size" /\ pc = "receive"
         \/ server[u] = "receive" /\ pc = "received"
         \/ server[u] = "join" /\ pc = "end"
  PROVE  \A v \in Uploads : Stage(v)'
<1> SUFFICES ASSUME NEW v \in Uploads PROVE Stage(v)'
  OBVIOUS
<1>1. Stage(v) /\ Stage(u) /\ InStep(u)
  BY DEF PInv, Own, IInv, Protocol
<1>2. /\ server'[u] = pc
      /\ v # u => server'[v] = server[v]
  BY DEF Goes, PInv, IInv, Types
<1> QED
  BY <1>1, <1>2 DEF Stage, InStep

\* The end of the process stops every thread where it is.
LEMMA TerminateStages ==
  ASSUME PInv, Terminate PROVE \A v \in Uploads : Stage(v)'
<1> SUFFICES ASSUME NEW v \in Uploads PROVE Stage(v)'
  OBVIOUS
<1>1. ~ alive' /\ server'[v] = "none"
  BY DEF Terminate
<1> QED
  BY <1>1 DEF Stage

\* The end of the process leaves the directory as it is.
LEMMA TerminatePromise ==
  ASSUME OneEach, PInv, IInv', Terminate
  PROVE  PInv' /\ [Promise!Next]_(Promise!vars)
BY TerminateStages, QuietKept DEF Terminate, dirVars, clientVars

\* What the clients and the speed threads do is no part of the promise.
LEMMA AsidePromise ==
  ASSUME OneEach, PInv, IInv', UNCHANGED <<alive, dir, content, size, server,
           output_file, received, read_status, is_data_ended>>
  PROVE  PInv' /\ [Promise!Next]_(Promise!vars)
<1>1. \A v \in Uploads : Stage(v)'
  BY DEF PInv, Own, Stage
<1> QED
  BY <1>1, QuietKept

\* The name opens a file that is not there yet.
LEMMA readNamePromise ==
  ASSUME OneEach, PInv, IInv', NEW u \in Uploads, readName(u)
  PROVE  PInv' /\ [Promise!Next]_(Promise!vars)
<1>1. Types /\ Stored(u) /\ Stage(u) /\ InStep(u)
  BY DEF PInv, IInv, Own, Protocol
<1>2. alive /\ server[u] = "name"
  BY <1>1 DEF readName, InStep
<1>3. output_file[u] = NoFile /\ dir[NameOf[u]] = NoFile
  BY <1>1, <1>2 DEF Stage, Stored
<1>4. CASE ~ Terminate
  <2>1. /\ dir' = [dir EXCEPT ![NameOf[u]] = u]
        /\ content' = [content EXCEPT ![u] = <<>>]
        /\ output_file' = [output_file EXCEPT ![u] = u]
        /\ Goes(u, "size")
        /\ UNCHANGED <<alive, size, received, read_status, is_data_ended>>
    BY <1>3, <1>4 DEF readName, clientVars, speedVars
  <2>2. NameOf[u] \in Names
    BY DEF Names
  <2>3. /\ dir'[NameOf[u]] = u /\ content'[u] = <<>>
        /\ output_file'[u] = u /\ server'[u] = "size"
    BY <1>1, <2>1, <2>2 DEF Goes, Types
  <2>4. \A v \in Uploads \ {u} : UNCHANGED Work(v)
    BY <1>1, <2>1 DEF Goes, Types, Work, OneEach
  <2>5. received[u] = 0 /\ read_status[u] = "none" /\ ~ is_data_ended[u]
    BY <1>1, <1>3, ConstantsAssumption DEF Stored, Types
  <2>6. Own(u)'
    <3>1. [i \in 1 .. 0 |-> u] = <<>>
      OBVIOUS
    <3> QED
      BY <2>1, <2>3, <2>5, <3>1, ConstantsAssumption DEF Own, Stored, Stage
  <2>7. PInv'
    BY <2>1, <2>4, <2>6, OneOwn
  <2>8. Promise!Change(u)
    BY <2>1, <2>4, <2>5, <2>7, Changes DEF Work
  <2> QED
    BY <2>7, <2>8 DEF Promise!Next
<1> QED
  BY <1>4, TerminatePromise

\* The status follows from the count; a failed upload has its file deleted.
LEMMA concludePromise ==
  ASSUME OneEach, PInv, IInv', NEW u \in Uploads, conclude(u)
  PROVE  PInv' /\ [Promise!Next]_(Promise!vars)
<1>1. Types /\ Stored(u) /\ Stage(u)
  BY DEF PInv, IInv, Own, Protocol
<1>2. /\ server[u] = "received" /\ Goes(u, "concluded")
      /\ UNCHANGED <<alive, content, size, output_file, received,
                     is_data_ended>>
  BY DEF conclude, clientVars, speedVars
<1>3. /\ output_file[u] = u /\ read_status[u] = "none"
      /\ dir[NameOf[u]] = u /\ ~ is_data_ended[u]
  BY <1>1, <1>2 DEF Stage, Stored, Types
<1>4. server'[u] = "concluded" /\ NameOf[u] \in Names
  BY <1>1, <1>2 DEF Goes, Types, Names
<1>5. \/ /\ read_status'[u] = "Success" /\ received[u] = size[u]
         /\ dir'[NameOf[u]] = u
      \/ read_status'[u] = "Failure" /\ dir'[NameOf[u]] = NoFile
  BY <1>1, <1>3, <1>4 DEF conclude, Types
<1>6. \A v \in Uploads \ {u} : UNCHANGED Work(v)
  <2> SUFFICES ASSUME NEW v \in Uploads \ {u} PROVE UNCHANGED Work(v)
    OBVIOUS
  <2>1. NameOf[v] # NameOf[u] /\ NameOf[v] \in Names
    BY DEF OneEach, Names
  <2>2. UNCHANGED <<dir[NameOf[v]], read_status[v]>>
    BY <1>1, <2>1 DEF conclude, Types
  <2> QED
    BY <1>1, <1>2, <2>2 DEF Goes, Types, Work
<1>7. Own(u)'
  BY <1>1, <1>2, <1>3, <1>4, <1>5, ConstantsAssumption DEF Own, Stored, Stage
<1>8. PInv'
  BY <1>2, <1>6, <1>7, OneOwn
<1>9. Promise!Change(u)
  BY <1>2, <1>3, <1>6, <1>8, Changes DEF Work
<1> QED
  BY <1>8, <1>9 DEF Promise!Next

\* The next chunk is written behind the others.
LEMMA WrittenNext ==
  ASSUME NEW u \in Uploads, NEW k \in Nat, content[u] = [i \in 1 .. k |-> u]
  PROVE  Written(u, k + 1, u) = [i \in 1 .. k + 1 |-> u]
<1>1. Len(content[u]) = k
  BY LenProperties, EmptySeqs
<1>2. (IF Len(content[u]) > k + 1 THEN Len(content[u]) ELSE k + 1) = k + 1
  BY <1>1
<1>3. \A i \in 1 .. k + 1 :
        (IF i = k + 1 THEN u
         ELSE IF i <= Len(content[u]) THEN content[u][i] ELSE Hole) = u
  BY <1>1
<1> QED
  BY <1>2, <1>3 DEF Written

\* The loop writes chunk after chunk to the file of the upload.
LEMMA receivePromise ==
  ASSUME OneEach, "disk" \notin Faults, PInv, IInv', NEW u \in Uploads,
         receive(u)
  PROVE  PInv' /\ [Promise!Next]_(Promise!vars)
<1>1. Types /\ Stored(u) /\ Stage(u)
  BY DEF PInv, IInv, Own, Protocol
<1>2. /\ server[u] = "receive"
      /\ UNCHANGED <<alive, dir, size, read_status, is_data_ended>>
  BY DEF receive, clientVars, speedVars, dirVars
<1>3. /\ output_file[u] = u /\ read_status[u] = "none"
      /\ dir[NameOf[u]] = u /\ ~ is_data_ended[u]
      /\ content[u] = [i \in 1 .. received[u] |-> u]
  BY <1>1, <1>2, ConstantsAssumption DEF Stage, Stored, Types
<1>4. CASE /\ Goes(u, "received")
           /\ UNCHANGED <<dirVars, output_file, received>>
  <2>1. \A v \in Uploads : Stage(v)'
    BY <1>2, <1>4, MovesOn
  <2> QED
    BY <1>2, <1>4, <2>1, QuietKept DEF dirVars
<1>5. CASE /\ received' = [received EXCEPT ![u] = @ + 1]
           /\ content' = [content EXCEPT ![u] = Written(u, received[u] + 1, u)]
           /\ UNCHANGED <<output_file, server>>
  <2>1. content'[u] = [i \in 1 .. received[u] + 1 |-> u]
    BY <1>1, <1>3, <1>5, WrittenNext DEF Types
  <2>2. received'[u] = received[u] + 1
    BY <1>1, <1>5 DEF Types
  <2>3. content'[u] = [i \in 1 .. received'[u] |-> u]
    BY <2>1, <2>2
  <2>4. \A v \in Uploads \ {u} : UNCHANGED Work(v)
    BY <1>1, <1>2, <1>5 DEF Types, Work
  <2>5. Own(u)'
    BY <1>1, <1>2, <1>3, <1>5, <2>3, ConstantsAssumption DEF Own, Stored, Stage
  <2>6. PInv'
    BY <1>2, <2>4, <2>5, OneOwn
  <2>7. Promise!Change(u)
    BY <1>2, <1>3, <2>4, <2>6, Changes DEF Work
  <2> QED
    BY <2>6, <2>7 DEF Promise!Next
<1> QED
  <2>1. output_file[u] # NoFile
    BY <1>3, ConstantsAssumption
  <2> QED
    BY <1>3, <1>4, <1>5, <2>1 DEF receive

\* What is reported is what is in the directory.
LEMMA sendStatusPromise ==
  ASSUME OneEach, PInv, IInv', NEW u \in Uploads, sendStatus(u)
  PROVE  PInv' /\ [Promise!Next]_(Promise!vars)
<1>1. Types /\ Stored(u) /\ Stage(u)
  BY DEF PInv, IInv, Own, Protocol
<1>2. CASE ~ Terminate
  <2>1. /\ server[u] = "concluded" /\ Goes(u, "join")
        /\ is_data_ended' = [is_data_ended EXCEPT ![u] = TRUE]
        /\ UNCHANGED <<alive, dir, content, size, output_file, received,
                       read_status>>
    BY <1>2 DEF sendStatus, dirVars, clientVars
  <2>2. /\ output_file[u] = u /\ read_status[u] \in {"Success", "Failure"}
        /\ ~ is_data_ended[u]
    BY <1>1, <2>1 DEF Stage, Types
  <2>3. server'[u] = "join" /\ is_data_ended'[u]
    BY <1>1, <2>1 DEF Goes, Types
  <2>4. \A v \in Uploads \ {u} : UNCHANGED Work(v)
    BY <1>1, <2>1 DEF Goes, Types, Work
  <2>5. Own(u)'
    BY <1>1, <2>1, <2>2, <2>3, ConstantsAssumption DEF Own, Stored, Stage
  <2>6. PInv'
    BY <2>1, <2>4, <2>5, OneOwn
  <2> DEFINE F(n) == FileUnder(n)
             told == [v \in Uploads |-> IF is_data_ended[v] THEN read_status[v]
                                        ELSE "none"]
  <2>7. \/ read_status[u] = "Success" /\ F(NameOf[u]) = u
        \/ read_status[u] = "Failure" /\ F(NameOf[u]) = "none"
    <3>1. Known(u)
      BY FileIs DEF AllKnown, OneEach
    <3>2. CASE read_status[u] = "Success"
      <4>1. received[u] = size[u] /\ dir[NameOf[u]] = u
        BY <1>1, <2>2, <3>2 DEF Stored
      <4>2. content[u] = All(u)
        BY <1>1, <2>2, <4>1, ConstantsAssumption DEF Stored, All
      <4> QED
        BY <1>1, <3>1, <3>2, <4>1, <4>2, ConstantsAssumption DEF Known
    <3>3. CASE read_status[u] = "Failure"
      BY <1>1, <2>2, <3>1, <3>3, ConstantsAssumption DEF Stored, Known
    <3> QED
      BY <2>2, <3>2, <3>3
  <2>8. UNCHANGED [n \in Names |-> F(n)]
    <3>1. ASSUME NEW n \in Names PROVE F(n)' = F(n)
      <4>1. PICK v \in Uploads : n = NameOf[v]
        BY DEF Names
      <4>2. Known(v) /\ Known(v)' /\ Stored(v) /\ Stored(v)'
        BY <2>6, FileIs, FileIsThen DEF AllKnown, OneEach, PInv, Own
      <4> QED
        BY <2>1, <4>1, <4>2 DEF Known, All
    <3> HIDE DEF F
    <3> QED
      BY <3>1
  <2>9. told' = [told EXCEPT ![u] = read_status[u]] /\ told[u] = "none"
    BY <1>1, <2>1, <2>2 DEF Types
  <2>10. NameOf[u] \in Names
    BY DEF Names
  <2> HIDE DEF F
  <2>11. Promise!Report(u)
    <3>1. [n \in Names |-> F(n)][NameOf[u]] = F(NameOf[u])
      BY <2>10
    <3> QED
      BY <2>7, <2>8, <2>9, <3>1 DEF Promise!Report, F
  <2> QED
    BY <2>6, <2>11 DEF Promise!Next
<1> QED
  BY <1>2, TerminatePromise

\* The steps of the server's threads that touch no file.
LEMMA movesPromise ==
  ASSUME OneEach, PInv, IInv', NEW u \in Uploads,
         \/ acceptConnection(u) \/ startUpload(u) \/ readSize(u) \/ finish(u)
  PROVE  PInv' /\ [Promise!Next]_(Promise!vars)
<1>1. CASE Terminate
  BY <1>1, TerminatePromise
<1>2. CASE ~ Terminate
  <2>1. UNCHANGED <<alive, dir, content, size, output_file, received,
                    read_status, is_data_ended>>
    BY <1>2 DEF acceptConnection, startUpload, readSize, finish, dirVars,
                clientVars, speedVars
  <2>2. PICK pc \in {"start", "name", "end", "receive"} :
          /\ Goes(u, pc)
          /\ \/ alive /\ server[u] = "none" /\ pc = "start"
             \/ server[u] = "start" /\ pc \in {"name", "end"}
             \/ server[u] = "size" /\ pc = "receive"
             \/ server[u] = "join" /\ pc = "end"
    BY <1>2 DEF acceptConnection, startUpload, readSize, finish
  <2>3. \A v \in Uploads : Stage(v)'
    BY <2>1, <2>2, MovesOn
  <2> QED
    BY <2>1, <2>3, QuietKept
<1> QED
  BY <1>1, <1>2

\* Every step is one of the promise, or none of it.
LEMMA NextPromise ==
  ASSUME OneEach, "disk" \notin Faults, PInv, IInv', [Next]_vars
  PROVE  PInv' /\ [Promise!Next]_(Promise!vars)
<1>1. CASE UNCHANGED vars
  BY <1>1, AsidePromise DEF vars
<1>2. ASSUME NEW u \in Uploads, Uploading(u)
      PROVE  PInv' /\ [Promise!Next]_(Promise!vars)
  BY <1>2, movesPromise, readNamePromise, receivePromise, concludePromise,
     sendStatusPromise DEF Uploading
<1>3. ASSUME NEW u \in Uploads, Speed(u)
      PROVE  PInv' /\ [Promise!Next]_(Promise!vars)
  BY <1>3, AsidePromise DEF Speed, speedCheck, printSpeedInfo,
     startSpeedChecking, dirVars, clientVars, threadVars
<1>4. ASSUME NEW u \in Uploads, Client(u) \/ Leave(u)
      PROVE  PInv' /\ [Promise!Next]_(Promise!vars)
  BY <1>4, AsidePromise DEF Client, refuse, connect, sendName, sendSize,
     awaitReady, sendChunk, endOfFile, awaitStatus, Leave, serverVars,
     dirVars, threadVars, speedVars
<1> QED
  BY <1>1, <1>2, <1>3, <1>4, movesPromise DEF Next

\* Nothing is there and nothing is reported at the start.
LEMMA InitPromise ==
  ASSUME OneEach, Init PROVE PInv /\ Promise!Init
<1>1. ASSUME NEW u \in Uploads PROVE Own(u)
  <2>1. dir[NameOf[u]] = NoFile
    BY DEF Init, Names
  <2> QED
    BY <2>1, ConstantsAssumption DEF Init, Own, Stored, Stage
<1>2. PInv
  BY <1>1, InitInv DEF PInv
<1>3. ASSUME NEW n \in Names PROVE FileUnder(n) = "none"
  BY <1>3 DEF Init, FileUnder
<1>4. [n \in Names |-> FileUnder(n)] = [n \in Names |-> "none"]
  BY <1>3
<1>5. [u \in Uploads |-> IF is_data_ended[u] THEN read_status[u] ELSE "none"]
        = [u \in Uploads |-> "none"]
  BY DEF Init
<1> QED
  BY <1>2, <1>4, <1>5 DEF Promise!Init, Promise!Names, Names

\* For any number of uploads, each of a name of its own, and files of any
\* size: as long as the disk takes what is written, an upload is reported a
\* success only with all of its file under its name, a failure only with no
\* file there, and nothing happens to the file after that.
\* ftpv2_server.cpp:99-107, ftpv2_client/src/backend/main.cpp:75-79.
THEOREM PromiseKept ==
  ASSUME OneEach, "disk" \notin Faults
  PROVE  Spec => UploadsKeepPromise
<1>1. Init => PInv /\ Promise!Init
  BY InitPromise
<1>2. PInv /\ [Next]_vars => PInv' /\ [Promise!Next]_(Promise!vars)
  <2>1. PInv /\ [Next]_vars => IInv'
    BY NextInv DEF PInv
  <2> QED
    BY <2>1, NextPromise
<1> QED
  BY <1>1, <1>2, PTL DEF Spec, UploadsKeepPromise, Promise!Spec
=============================================================================
