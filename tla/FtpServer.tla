----------------------------- MODULE FtpServer -----------------------------
(***************************************************************************)
(* ftpv2: the upload server and its clients.  The server has one detached  *)
(* thread per upload (handleConnection) and each of these a thread that    *)
(* reports the speed (ClientInfo::speedCheck).  The uploads share nothing  *)
(* but the directory, where a file is opened, written and deleted by name. *)
(*                                                                         *)
(* Data is counted in chunks of 8192 bytes.  A step of a thread does at    *)
(* most one thing another upload can see.  handleConnection starts its     *)
(* speed thread as a local std::thread: wherever it is left before join(), *)
(* the destructor of a joinable thread ends the process.                   *)
(***************************************************************************)
EXTENDS Naturals, Sequences

CONSTANTS
  Uploads,    \* each is one run of the client
  NameOf,     \* the file name of each upload
  NoFile,     \* no entry in the directory, no file behind a stream
  MaxChunks,  \* bound on the size of a file
  Window,     \* what a TCP connection buffers
  Faults      \* what may go wrong, a subset of AllFaults

AllFaults == {"leave", "reset", "change", "accept", "directory", "open", "disk",
              "newline"}

ASSUME ConstantsAssumption ==
  /\ NoFile \notin Uploads
  /\ DOMAIN NameOf = Uploads
  /\ MaxChunks \in Nat /\ Window \in Nat \ {0}
  /\ Faults \subseteq AllFaults

VARIABLES
  alive,          \* the server process
  dir,            \* the file under each name, called after its creator
  content,        \* whose chunks each file holds
  size,           \* the file_size each client announces
  client,         \* where the main() of each client is, or its end
  sent,           \* the chunks each client has sent
  conn,           \* the TCP connection of each upload
  toServer,       \* what it carries to the server
  toClient,       \* and back
  server,         \* where each handleConnection is
  output_file,    \* the file behind its stream
  received,       \* total_bytes_received
  read_status,
  speed,          \* the speed_check_thread
  is_data_ended

vars == <<alive, dir, content, size, client, sent, conn, toServer, toClient,
          server, output_file, received, read_status, speed, is_data_ended>>

\* What belongs to the directory, to the clients, to the server's threads.
dirVars == <<dir, content>>
clientVars == <<size, client, sent>>
connVars == <<conn, toServer, toClient>>
threadVars == <<server, output_file, received, read_status>>
speedVars == <<speed, is_data_ended>>

Names == {NameOf[u] : u \in Uploads}
Hole == NoFile

\* The server thread, or the client, of upload u goes on to step pc.
Goes(u, pc) == server' = [server EXCEPT ![u] = pc]
ClientGoes(u, pc) == client' = [client EXCEPT ![u] = pc]

Init ==
  /\ alive = TRUE
  /\ dir = [n \in Names |-> NoFile]
  /\ content = [f \in Uploads |-> <<>>]
  /\ size \in [Uploads -> 0 .. MaxChunks]
  /\ client = [u \in Uploads |-> "idle"]
  /\ sent = [u \in Uploads |-> 0]
  /\ conn = [u \in Uploads |-> "none"]
  /\ toServer = [u \in Uploads |-> <<>>]
  /\ toClient = [u \in Uploads |-> <<>>]
  /\ server = [u \in Uploads |-> "none"]
  /\ output_file = [u \in Uploads |-> NoFile]
  /\ received = [u \in Uploads |-> 0]
  /\ read_status = [u \in Uploads |-> "none"]
  /\ speed = [u \in Uploads |-> "none"]
  /\ is_data_ended = [u \in Uploads |-> FALSE]

(***************************************************************************)
(* The connection.  A client that leaves closes it: "fin" lets the server  *)
(* read what was sent, "rst" does not.  "closed" is the server's side.     *)
(***************************************************************************)
Arrived(u, item) == /\ conn[u] \in {"up", "fin"}
                    /\ toServer[u] # <<>> /\ Head(toServer[u]) = item
                    /\ toServer' = [toServer EXCEPT ![u] = Tail(@)]

\* read() and read_until() report an error.
ReadFails(u) == \/ conn[u] = "rst"
                \/ conn[u] = "fin" /\ toServer[u] = <<>>

\* The server's write() of an answer succeeds, fails.
Answers(u, item) == /\ conn[u] \in {"up", "fin"}
                    /\ toClient' = [toClient EXCEPT ![u] = Append(@, item)]
WriteFails(u) == conn[u] \in {"fin", "rst"}

(***************************************************************************)
(* The server process ends, by std::terminate or because main() returns.   *)
(* The directory stays as it is.  A socket closed with data unread resets  *)
(* its connection, and the client may lose what it has not read yet.       *)
(***************************************************************************)
Terminate ==
  /\ alive' = FALSE
  /\ conn' = [u \in Uploads |-> IF conn[u] = "none" THEN "none" ELSE "closed"]
  /\ toServer' = [u \in Uploads |-> <<>>]
  /\ \E lost \in SUBSET {u \in Uploads : toServer[u] # <<>>} :
       toClient' = [u \in Uploads |-> IF u \in lost THEN <<>> ELSE toClient[u]]
  /\ server' = [u \in Uploads |-> "none"]
  /\ speed' = [u \in Uploads |-> "none"]
  /\ UNCHANGED <<dirVars, clientVars, output_file, received, read_status,
                 is_data_ended>>

\* The same for the socket of one upload.
closeSocket(u) ==
  /\ conn' = [conn EXCEPT ![u] = "closed"]
  /\ toServer' = [toServer EXCEPT ![u] = <<>>]
  /\ \/ UNCHANGED toClient
     \/ /\ toServer[u] # <<>>
        /\ toClient' = [toClient EXCEPT ![u] = <<>>]

(***************************************************************************)
(* FTPv2Server.                                                            *)
(***************************************************************************)

\* start(): a thread for every client; an exception ends the loop and main().
acceptConnection(u) ==
  /\ alive
  /\ conn[u] # "none" /\ server[u] = "none"
  /\ \/ /\ Goes(u, "start")
        /\ UNCHANGED <<alive, dirVars, clientVars, connVars, output_file,
                       received, read_status, speedVars>>
     \/ "accept" \in Faults /\ Terminate

\* handleConnection: remote_endpoint() throws for a client that has reset, and
\* create_directory() may; no thread has been started yet, and the exception is
\* caught.
startUpload(u) ==
  /\ server[u] = "start"
  /\ \/ /\ conn[u] = "rst" \/ "directory" \in Faults
        /\ Goes(u, "end")
        /\ closeSocket(u)
        /\ UNCHANGED speedVars
     \/ /\ conn[u] # "rst"
        /\ Goes(u, "name")
        /\ speed' = [speed EXCEPT ![u] = "start"]
        /\ UNCHANGED <<connVars, is_data_ended>>
  /\ UNCHANGED <<alive, dirVars, clientVars, output_file, received,
                 read_status>>

\* The name is read and the file opened: created, or emptied if it is there.
readName(u) ==
  LET n == NameOf[u]
      f == IF dir[n] = NoFile THEN u ELSE dir[n]
  IN /\ server[u] = "name"
     /\ \/ /\ Arrived(u, "name")
           /\ dir' = [dir EXCEPT ![n] = f]
           /\ content' = [content EXCEPT ![f] = <<>>]
           /\ output_file' = [output_file EXCEPT ![u] = f]
           /\ Goes(u, "size")
           /\ UNCHANGED <<alive, clientVars, conn, toClient, received,
                          read_status, speedVars>>
        \/ ReadFails(u) /\ Terminate
        \/ "open" \in Faults /\ toServer[u] # <<>> /\ Terminate

\* The size is read and "Ready" written.  Behind a name with a newline in it
\* comes no number, and stoull throws.
readSize(u) ==
  /\ server[u] = "size"
  /\ \/ /\ Arrived(u, "size")
        /\ Answers(u, "Ready")
        /\ Goes(u, "receive")
        /\ UNCHANGED <<alive, dirVars, clientVars, conn, output_file, received,
                       read_status, speedVars>>
     \/ /\ \/ ReadFails(u)
           \/ toServer[u] # <<>> /\ (WriteFails(u) \/ "newline" \in Faults)
        /\ Terminate

\* File f with the chunk of upload u at position k.
Written(f, k, u) ==
  LET old == content[f]
  IN [i \in 1 .. (IF Len(old) > k THEN Len(old) ELSE k) |->
        IF i = k THEN u ELSE IF i <= Len(old) THEN old[i] ELSE Hole]

\* Variant with a bug: the loop goes round once more.
receiveTooMuch(u) ==
  /\ server[u] = "receive"
  /\ \/ /\ received[u] <= size[u]
        /\ Arrived(u, "chunk")
        /\ received' = [received EXCEPT ![u] = @ + 1]
        /\ content' = [content EXCEPT ![output_file[u]] =
                         Written(output_file[u], received[u] + 1, u)]
        /\ UNCHANGED <<dir, conn, toClient, server, output_file>>
     \/ /\ received[u] > size[u] \/ ReadFails(u)
        /\ Goes(u, "received")
        /\ UNCHANGED <<dirVars, connVars, output_file, received>>
  /\ UNCHANGED <<alive, clientVars, read_status, speedVars>>

\* One round of the loop, or its end.  A stream that could not write once
\* writes no more; nobody asks it.
receive(u) ==
  LET f == output_file[u] IN
  /\ server[u] = "receive"
  /\ \/ /\ received[u] < size[u]
        /\ Arrived(u, "chunk")
        /\ received' = [received EXCEPT ![u] = @ + 1]
        /\ \/ /\ f # NoFile
              /\ content' = [content EXCEPT ![f] =
                               Written(f, received[u] + 1, u)]
              /\ UNCHANGED output_file
           \/ /\ f = NoFile \/ "disk" \in Faults
              /\ output_file' = [output_file EXCEPT ![u] = NoFile]
              /\ UNCHANGED content
        /\ UNCHANGED <<dir, conn, toClient, server>>
     \/ /\ received[u] = size[u] \/ ReadFails(u)
        /\ Goes(u, "received")
        /\ UNCHANGED <<dirVars, connVars, output_file, received>>
  /\ UNCHANGED <<alive, clientVars, read_status, speedVars>>

\* Variant with a bug: the count is not compared.
concludeWell(u) ==
  /\ server[u] = "received"
  /\ read_status' = [read_status EXCEPT ![u] = "Success"]
  /\ Goes(u, "concluded")
  /\ UNCHANGED <<alive, dirVars, clientVars, connVars, output_file, received,
                 speedVars>>

\* The status; the name of a failed upload is deleted, whatever is there.
conclude(u) ==
  /\ server[u] = "received"
  /\ \/ /\ received[u] = size[u]
        /\ read_status' = [read_status EXCEPT ![u] = "Success"]
        /\ UNCHANGED dir
     \/ /\ received[u] # size[u]
        /\ read_status' = [read_status EXCEPT ![u] = "Failure"]
        /\ dir' = [dir EXCEPT ![NameOf[u]] = NoFile]
  /\ Goes(u, "concluded")
  /\ UNCHANGED <<alive, content, clientVars, connVars, output_file, received,
                 speedVars>>

\* The status is written, and stopTiming() called.
sendStatus(u) ==
  /\ server[u] = "concluded"
  /\ \/ /\ Answers(u, read_status[u])
        /\ is_data_ended' = [is_data_ended EXCEPT ![u] = TRUE]
        /\ Goes(u, "join")
        /\ UNCHANGED <<alive, dirVars, clientVars, conn, toServer, output_file,
                       received, read_status, speed>>
     \/ WriteFails(u) /\ Terminate

\* Variant with a bug: join() is left out.
finishUnjoined(u) ==
  /\ server[u] = "join"
  /\ IF speed[u] = "ended"
     THEN /\ Goes(u, "end")
          /\ closeSocket(u)
          /\ UNCHANGED <<alive, dirVars, clientVars, output_file, received,
                         read_status, speedVars>>
     ELSE Terminate

\* join() returns, ClientInfo is deleted and the socket closed.
finish(u) ==
  /\ server[u] = "join"
  /\ speed[u] = "ended"
  /\ Goes(u, "end")
  /\ closeSocket(u)
  /\ UNCHANGED <<alive, dirVars, clientVars, output_file, received,
                 read_status, speedVars>>

(***************************************************************************)
(* ClientInfo: the thread goes on as long as a timer is set, and a timer   *)
(* is set as long as stopTiming() has not been called.                     *)
(***************************************************************************)
startSpeedChecking(u) ==
  /\ speed' = [speed EXCEPT ![u] = IF is_data_ended[u] THEN "ended"
                                                       ELSE "waiting"]
  /\ UNCHANGED <<alive, dirVars, clientVars, connVars, threadVars,
                 is_data_ended>>

speedCheck(u) == speed[u] = "start" /\ startSpeedChecking(u)

\* Variant with a bug: the timer is set again without a look at the flag.
printSpeedInfoForever(u) == speed[u] = "waiting" /\ UNCHANGED vars

printSpeedInfo(u) == speed[u] = "waiting" /\ startSpeedChecking(u)

(***************************************************************************)
(* The client.                                                             *)
(***************************************************************************)
serverVars == <<alive, dirVars, threadVars, speedVars>>

\* The file is looked at before anything else: it cannot be opened, its name
\* is too long or it is too big, and main() returns.
refuse(u) ==
  /\ client[u] = "idle"
  /\ ClientGoes(u, "refused")
  /\ UNCHANGED <<serverVars, size, sent, connVars>>

\* connect() throws when there is no server.
connect(u) ==
  /\ client[u] = "idle"
  /\ \/ /\ alive
        /\ ClientGoes(u, "connected")
        /\ conn' = [conn EXCEPT ![u] = "up"]
     \/ /\ ~alive
        /\ ClientGoes(u, "failed")
        /\ UNCHANGED conn
  /\ UNCHANGED <<serverVars, size, sent, toServer, toClient>>

\* The client's write: what is sent to a closed socket is lost, or the write
\* fails and the exception ends the client.
Sends(u, item, pc) ==
  \/ /\ conn[u] = "up"
     /\ toServer' = [toServer EXCEPT ![u] = Append(@, item)]
     /\ ClientGoes(u, pc)
     /\ UNCHANGED <<conn, toClient>>
  \/ /\ conn[u] = "closed"
     /\ ClientGoes(u, pc) \/ ClientGoes(u, "failed")
     /\ UNCHANGED connVars

sendName(u) == /\ client[u] = "connected"
               /\ Sends(u, "name", "named")
               /\ UNCHANGED <<serverVars, size, sent>>

sendSize(u) == /\ client[u] = "named"
               /\ Sends(u, "size", "sized")
               /\ UNCHANGED <<serverVars, size, sent>>

\* read_until returns an answer, or throws when there will be none.
awaitReady(u) ==
  /\ client[u] = "sized"
  /\ \/ /\ toClient[u] # <<>>
        /\ toClient' = [toClient EXCEPT ![u] = Tail(@)]
        /\ ClientGoes(u, "sending")
     \/ /\ conn[u] = "closed" /\ toClient[u] = <<>>
        /\ ClientGoes(u, "failed")
        /\ UNCHANGED toClient
  /\ UNCHANGED <<serverVars, size, sent, conn, toServer>>

\* A round of the loop, or its end; the file may have changed since its size
\* was taken.
sendChunk(u) ==
  /\ client[u] = "sending"
  /\ \/ sent[u] < size[u]
     \/ "change" \in Faults /\ sent[u] = size[u]
  /\ Len(toServer[u]) < Window
  /\ Sends(u, "chunk", "sending")
  /\ sent' = [sent EXCEPT ![u] = @ + 1]
  /\ UNCHANGED <<serverVars, size>>

endOfFile(u) ==
  /\ client[u] = "sending"
  /\ sent[u] >= size[u] \/ "change" \in Faults
  /\ ClientGoes(u, "waiting")
  /\ UNCHANGED <<serverVars, size, sent, connVars>>

awaitStatus(u) ==
  /\ client[u] = "waiting"
  /\ \/ /\ toClient[u] # <<>>
        /\ ClientGoes(u, Head(toClient[u]))
        /\ toClient' = [toClient EXCEPT ![u] = Tail(@)]
        /\ conn' = [conn EXCEPT ![u] = IF @ = "up" THEN "fin" ELSE @]
     \/ /\ conn[u] = "closed" /\ toClient[u] = <<>>
        /\ ClientGoes(u, "failed")
        /\ UNCHANGED <<conn, toClient>>
  /\ UNCHANGED <<serverVars, size, sent, toServer>>

\* A client is killed; the kernel resets a connection with data unread.
Leave(u) ==
  /\ "leave" \in Faults
  /\ client[u] \in {"connected", "named", "sized", "sending", "waiting"}
  /\ ClientGoes(u, "left")
  /\ \E c \in {"fin", "rst"} :
       /\ c = "rst" => "reset" \in Faults \/ toClient[u] # <<>>
       /\ c = "fin" => toClient[u] = <<>>
       /\ conn' = [conn EXCEPT ![u] = IF @ = "up" THEN c ELSE @]
       /\ toServer' = [toServer EXCEPT ![u] = IF c = "rst" THEN <<>> ELSE @]
  /\ UNCHANGED <<serverVars, size, sent, toClient>>

(***************************************************************************)
(* The specification.                                                      *)
(***************************************************************************)
Uploading(u) == \/ startUpload(u) \/ readName(u) \/ readSize(u) \/ receive(u)
                \/ conclude(u) \/ sendStatus(u) \/ finish(u)

Speed(u) == speedCheck(u) \/ printSpeedInfo(u)

Client(u) == \/ refuse(u) \/ connect(u) \/ sendName(u) \/ sendSize(u)
             \/ awaitReady(u) \/ sendChunk(u) \/ endOfFile(u) \/ awaitStatus(u)

Next == \E u \in Uploads : \/ acceptConnection(u) \/ Uploading(u) \/ Speed(u)
                           \/ Client(u) \/ Leave(u)

Spec == Init /\ [][Next]_vars

\* The operating system runs every thread of the server, whose accept loop
\* takes clients as they come.  A client may stop anywhere.
Fairness == \A u \in Uploads : /\ WF_vars(acceptConnection(u))
                               /\ WF_vars(Uploading(u))
                               /\ WF_vars(Speed(u))

FairSpec == Spec /\ Fairness
-----------------------------------------------------------------------------
\* Every variable keeps its type; no upload counts more than was announced.
\* ftpv2_server.cpp:77-90.
TypeOK ==
  /\ alive \in BOOLEAN
  /\ dir \in [Names -> Uploads \cup {NoFile}]
  /\ \A f \in Uploads : \A i \in DOMAIN content[f] :
       content[f][i] \in Uploads \cup {Hole}
  /\ size \in [Uploads -> 0 .. MaxChunks]
  /\ client \in [Uploads -> {"idle", "refused", "connected", "named", "sized",
                             "sending", "waiting", "Success", "Failure",
                             "failed", "left"}]
  /\ \A u \in Uploads : sent[u] \in 0 .. (size[u] + 1)
  /\ conn \in [Uploads -> {"none", "up", "fin", "rst", "closed"}]
  /\ \A u \in Uploads :
       /\ \A i \in DOMAIN toServer[u] : toServer[u][i] \in {"name", "size", "chunk"}
       /\ \A i \in DOMAIN toClient[u] : toClient[u][i] \in {"Ready", "Success", "Failure"}
  /\ server \in [Uploads -> {"none", "start", "name", "size", "receive",
                             "received", "concluded", "join", "end"}]
  /\ output_file \in [Uploads -> Uploads \cup {NoFile}]
  /\ \A u \in Uploads : received[u] \in 0 .. size[u]
  /\ read_status \in [Uploads -> {"none", "Success", "Failure"}]
  /\ speed \in [Uploads -> {"none", "start", "waiting", "ended"}]
  /\ is_data_ended \in [Uploads -> BOOLEAN]

\* The file under the name of upload u is the one u sent, and all of it.
Complete(u) ==
  LET f == dir[NameOf[u]]
  IN f # NoFile /\ content[f] = [i \in 1 .. size[u] |-> u]

\* When an upload is reported a success its file is there: the client prints
\* "The file has been successfully transferred to the server."
\* ftpv2_server.cpp:84-107, ftpv2_client/src/backend/main.cpp:75-76.
SuccessMeansStored ==
  [][\A u \in Uploads :
       /\ is_data_ended'[u] # is_data_ended[u]
       /\ read_status[u] = "Success"
       => Complete(u)]_vars

FileUnder(n) ==
  IF dir[n] = NoFile THEN "none"
  ELSE IF \E u \in Uploads : NameOf[u] = n /\ Complete(u)
       THEN CHOOSE u \in Uploads : NameOf[u] = n /\ Complete(u)
       ELSE "partial"

Promise == INSTANCE Upload
             WITH file <- [n \in Names |-> FileUnder(n)],
                  told <- [u \in Uploads |-> IF is_data_ended[u]
                                             THEN read_status[u] ELSE "none"]

\* An upload is reported a success only with all of its file under its name,
\* a failure only with no file there, and nothing happens to the file after
\* that: what the client prints is true.  ftpv2_server.cpp:99-107,
\* ftpv2_client/src/backend/main.cpp:75-79.
UploadsKeepPromise == Promise!Spec

\* The server process ends only when some client has left before its answer:
\* uploads that are not interrupted do not disturb each other, and no speed
\* thread is left joinable.  ftpv2_server.cpp:42,109,116.
OnlyLeaversEndIt == alive \/ \E u \in Uploads : client[u] = "left"

\* A client that goes on with its program is answered, or finds the connection
\* closed, unless it is killed or its file has shrunk since it announced the
\* size: but for that nobody waits for data the other will not send.
\* ftpv2_server.cpp:77-107, ftpv2_client/src/backend/main.cpp:51-79.
ClientAnswered ==
  \A u \in Uploads : WF_vars(Client(u)) =>
    (client[u] = "named" ~>
       \/ client[u] \in {"Success", "Failure", "failed", "left"}
       \/ client[u] = "waiting" /\ sent[u] < size[u])

\* Nothing upload u has still to do waits for its client: that one is gone, or
\* all of the file has been read.
Unhindered(u) ==
  \/ conn[u] \in {"fin", "rst"}
  \/ server[u] = "receive" /\ received[u] = size[u]
  \/ server[u] \in {"received", "concluded", "join"}

\* Whatever other clients do or leave undone, once the thread of an upload does
\* not wait for its client any more it ends, and so does its speed thread: the
\* timer is not set again once stopTiming() has been called, and join() does
\* not wait for ever.  client_info.cpp:29-34,77-79, ftpv2_server.cpp:77-114.
ThreadsEnd ==
  \A u \in Uploads : speed[u] # "none" /\ Unhindered(u) ~>
    ~alive \/ (server[u] = "end" /\ speed[u] = "ended")
=============================================================================
