--------------------------------- MODULE Tftp ---------------------------------
(***************************************************************************)
(* A file transfer: the kernel's TFTP client (attos/net/tftp.cpp, classes  *)
(* tftp_base, tftp_reader, tftp_writer, tftp_op), the server that goes     *)
(* with it (exp/tftp/tftps.cpp) and the network between them.              *)
(*                                                                         *)
(* A client runs one transfer at a time, and every transfer has the same   *)
(* local port (udp_open takes the first free one), so a datagram may meet  *)
(* a later transfer than the one it was meant for.  There is no recovery   *)
(* from a failed REQUIRE: it stops the client's machine or the server.     *)
(***************************************************************************)
EXTENDS TftpBlocks, FiniteSets

CONSTANTS
    Clients,
    Files,          \* file names, valid for the server
    FileSizes,      \* sizes of the files the server starts with
    WriteSizes,     \* sizes of the files the clients write
    MaxOps,         \* transfers in all
    \* What the network may do, and how often:
    MaxLoss, MaxDup,
    LoseAny,        \* TRUE: any datagram; FALSE: only those a retry replaces
    Reorder,        \* TRUE: datagrams may overtake each other
    MaxEarly,       \* timeouts while a datagram is still on its way
    MaxAbort,       \* transfers given up by the user (should_quit)
    NoFile, NoSession

ASSUME FaultAssumption ==
    /\ {MaxOps, MaxLoss, MaxDup, MaxEarly, MaxAbort} \subseteq Nat
    /\ {LoseAny, Reorder} \subseteq BOOLEAN
    /\ FileSizes \cup WriteSizes \subseteq {n \in Nat : legal_size(n)}

\* tftp_server_session is a pointer: a session is not "no session".
ASSUME SessionAssumption ==
    NoSession \notin [read : BOOLEAN, file : Files,
                      data : Seq((Clients \cup {"server"}) \X Files \X Nat)]

VARIABLES
    client,      \* per client: the transfer it runs
    failed,      \* per client: the REQUIRE that stopped it, or "no"
    session,     \* per client: the server's session for its address and port
    files,       \* the server's files
    serverDown,  \* the REQUIRE that stopped the server, or "no"
    toServer,    \* per client: datagrams on their way
    toClient,
    faults       \* how often the network and the user have interfered

clientVars == <<client, failed>>
serverVars == <<session, files, serverDown>>
vars == <<client, failed, session, files, serverDown, toServer, toClient, faults>>

\* The content of a file: its maker tells files with the same name apart.
Content(maker, f, size) == [i \in 1 .. size |-> <<maker, f, i>>]

Idle == [op |-> "idle", file |-> NoFile, data |-> <<>>, last |-> 0, done |-> FALSE]

Init ==
    /\ client = [c \in Clients |-> Idle]
    /\ failed = [c \in Clients |-> "no"]
    /\ session = [c \in Clients |-> NoSession]
    /\ \E present \in SUBSET Files : \E size \in [present -> FileSizes] :
         files = [f \in Files |->
                    IF f \in present THEN Content("server", f, size[f]) ELSE NoFile]
    /\ serverDown = "no"
    /\ toServer = [c \in Clients |-> <<>>]
    /\ toClient = [c \in Clients |-> <<>>]
    /\ faults = [ops |-> 0, loss |-> 0, dup |-> 0, early |-> 0, abort |-> 0]

\* A budget of faults (or transfers) that is not used up, and one of it used.
Spend(kind, max) ==
    /\ faults[kind] < max
    /\ faults' = [faults EXCEPT ![kind] = @ + 1]

Deliverable(channel) == IF Reorder THEN DOMAIN channel ELSE DOMAIN channel \cap {1}

-------------------------------------------------------------------------------
(* The client.                                                             *)

\* udp_socket::sendto to the server
ClientSends(c, m) == toServer' = [toServer EXCEPT ![c] = Append(@, m)]

ClientFails(c, why) ==
    /\ failed' = [failed EXCEPT ![c] = why]
    /\ UNCHANGED <<client, toServer>>

send_rrq(c, f) ==
    /\ client' = [client EXCEPT ![c] =
                    [op |-> "read", file |-> f, data |-> <<>>, last |-> 0, done |-> FALSE]]
    /\ ClientSends(c, Rrq(f))
    /\ UNCHANGED failed

\* Mutant: -1 is not converted to uint16_t.
NoAcksUnconverted == Uint16

no_acks == UINT16_MAX

send_wrq(c, f, data) ==
    /\ client' = [client EXCEPT ![c] =
                    [op |-> "write", file |-> f, data |-> data, last |-> no_acks, done |-> FALSE]]
    /\ ClientSends(c, Wrq(f))
    /\ UNCHANGED failed

Count(c) == block_count(Len(client[c].data))

\* Mutant: the block carries the number of the acknowledged one.
SendAckedNumber(c, last) == ClientSends(c, Data(last, BlockOf(client[c].data, last + 1)))

\* send_data(last + 1)
SendDataAfter(c, last) ==
    ClientSends(c, Data(last + 1, BlockOf(client[c].data, last + 1)))

is_done(c) ==
    \/ client[c].op = "read" /\ client[c].done
    \/ client[c].op = "write" /\ client[c].last = Count(c)

Active(c) == failed[c] = "no" /\ client[c].op # "idle"

\* tftp::read and tftp::write
StartRead(c, f) ==
    /\ failed[c] = "no" /\ client[c].op = "idle"
    /\ Spend("ops", MaxOps)
    /\ send_rrq(c, f)
    /\ UNCHANGED <<serverVars, toClient>>

StartWrite(c, f, size) ==
    /\ failed[c] = "no" /\ client[c].op = "idle"
    /\ Spend("ops", MaxOps)
    /\ send_wrq(c, f, Content(c, f, size))
    /\ UNCHANGED <<serverVars, toClient>>

\* Mutant: the reader does not compare block numbers.
AnyBlock(c, m) == TRUE

NextBlock(c, m) == m.block = client[c].last + 1

\* tftp_reader::on_packet, and tftp_in for the rest
ReaderIn(c, m) ==
    \/ /\ m.op = "data" /\ NextBlock(c, m)
       /\ client' = [client EXCEPT ![c].data = @ \o m.bytes,
                                   ![c].last = m.block,
                                   ![c].done = @ \/ Len(m.bytes) # BlockSize]
       /\ ClientSends(c, Ack(m.block))
       /\ UNCHANGED failed
    \/ m.op = "data" /\ ~NextBlock(c, m) /\ ClientFails(c, "block order")
    \/ m.op = "error" /\ ClientFails(c, "error reply")
    \/ m.op = "ack" /\ ClientFails(c, "opcode")

\* tftp_writer::on_packet, and tftp_in for the rest
WriterIn(c, m) ==
    \/ /\ m.op = "ack" /\ m.block <= Count(c)
       /\ client' = [client EXCEPT ![c].last = m.block]
       /\ IF m.block < Count(c) THEN SendDataAfter(c, m.block) ELSE UNCHANGED toServer
       /\ UNCHANGED failed
    \/ m.op = "ack" /\ m.block > Count(c) /\ ClientFails(c, "ack range")
    \/ m.op = "error" /\ ClientFails(c, "error reply")
    \/ m.op = "data" /\ ClientFails(c, "opcode")

\* process_packets: one datagram.  Without an open socket it is ignored.
ClientReceive(c) ==
    \E i \in Deliverable(toClient[c]) :
        /\ failed[c] = "no"
        /\ toClient' = [toClient EXCEPT ![c] = RemoveAt(@, i)]
        /\ \/ client[c].op = "idle" /\ UNCHANGED <<clientVars, toServer>>
           \/ client[c].op = "read" /\ ReaderIn(c, toClient[c][i])
           \/ client[c].op = "write" /\ WriterIn(c, toClient[c][i])
        /\ UNCHANGED <<serverVars, faults>>

\* Mutant: the reader's timeout sends nothing.
RrqNotRepeated(c) == UNCHANGED <<clientVars, toServer>>

\* tftp_reader::on_timeout
ReaderTimeout(c) ==
    \/ client[c].last = 0 /\ send_rrq(c, client[c].file)
    \/ client[c].last # 0 /\ ClientFails(c, "timeout")

\* tftp_writer::on_timeout
WriterTimeout(c) ==
    \/ client[c].last = no_acks /\ send_wrq(c, client[c].file, client[c].data)
    \/ /\ client[c].last # no_acks /\ client[c].last < Count(c)
       /\ SendDataAfter(c, client[c].last)
       /\ UNCHANGED clientVars

\* default_timeout ticks since the last send: long enough for an answer,
\* unless the network is slow (MaxEarly).
Quiet(c) == toServer[c] = <<>> /\ toClient[c] = <<>>

Timeout(c) ==
    /\ Active(c) /\ ~is_done(c)
    /\ IF Quiet(c) THEN UNCHANGED faults ELSE Spend("early", MaxEarly)
    /\ \/ client[c].op = "read" /\ ReaderTimeout(c)
       \/ client[c].op = "write" /\ WriterTimeout(c)
    /\ UNCHANGED <<serverVars, toClient>>

\* do_op returns true; the destructor closes the socket.
Finish(c) ==
    /\ Active(c) /\ is_done(c)
    /\ client' = [client EXCEPT ![c] = Idle]
    /\ UNCHANGED <<failed, serverVars, toServer, toClient, faults>>

\* should_quit: do_op returns false.
Abort(c) ==
    /\ Active(c)
    /\ Spend("abort", MaxAbort)
    /\ client' = [client EXCEPT ![c] = Idle]
    /\ UNCHANGED <<failed, serverVars, toServer, toClient>>

-------------------------------------------------------------------------------
(* The server: one iteration of its loop.                                  *)

ServerReplies(c, m) == toClient' = [toClient EXCEPT ![c] = Append(@, m)]

ServerFails(why) ==
    /\ serverDown' = why
    /\ UNCHANGED <<session, files, toClient>>

OnRrq(c, f) ==
    /\ IF files[f] = NoFile
       THEN /\ session' = [session EXCEPT ![c] = NoSession]
            /\ ServerReplies(c, Error)
       ELSE /\ session' = [session EXCEPT ![c] = [read |-> TRUE, file |-> f, data |-> files[f]]]
            /\ ServerReplies(c, Data(1, BlockOf(files[f], 1)))
    /\ UNCHANGED <<files, serverDown>>

OnWrq(c, f) ==
    /\ IF files[f] # NoFile
       THEN /\ session' = [session EXCEPT ![c] = NoSession]
            /\ ServerReplies(c, Error)
       ELSE /\ session' = [session EXCEPT ![c] = [read |-> FALSE, file |-> f, data |-> <<>>]]
            /\ ServerReplies(c, Ack(0))
    /\ UNCHANGED <<files, serverDown>>

SessionCount(c) == block_count(Len(session[c].data))

OnAck(c, n) ==
    \/ session[c] = NoSession /\ ServerFails("no session")
    \/ /\ session[c] # NoSession
       /\ \/ n \notin 1 .. SessionCount(c) /\ ServerFails("ack range")
          \/ /\ n = SessionCount(c)
             /\ session' = [session EXCEPT ![c] = NoSession]
             /\ UNCHANGED <<files, serverDown, toClient>>
          \/ /\ n \in 1 .. SessionCount(c) - 1
             /\ IF session[c].read
                THEN /\ ServerReplies(c, Data(n + 1, BlockOf(session[c].data, n + 1)))
                     /\ UNCHANGED <<session, files, serverDown>>
                ELSE ServerFails("not a read")

\* expected_block_number in got_data
Expected(data) == uint16_t(1 + Len(data) \div BlockSize)

\* Mutant: got_data does not compare block numbers.
AnyBlockExpected(data, n) == TRUE

IsExpected(data, n) == n = Expected(data)

\* The acknowledgement of the last block is sent even if the file exists by
\* now: the error reply is put behind it into the same datagram, where the
\* client does not look.
OnData(c, m) ==
    \/ session[c] = NoSession /\ ServerFails("no session")
    \/ /\ session[c] # NoSession
       /\ \/ session[c].read /\ ServerFails("not a write")
          \/ /\ ~session[c].read /\ ~IsExpected(session[c].data, m.block)
             /\ ServerFails("block order")
          \/ LET data == session[c].data \o m.bytes
                 f    == session[c].file
             IN /\ ~session[c].read /\ IsExpected(session[c].data, m.block)
                /\ ServerReplies(c, Ack(Expected(session[c].data)))
                /\ IF Len(m.bytes) < BlockSize
                   THEN /\ files' = IF files[f] = NoFile THEN [files EXCEPT ![f] = data] ELSE files
                        /\ session' = [session EXCEPT ![c] = NoSession]
                   ELSE /\ session' = [session EXCEPT ![c].data = data]
                        /\ UNCHANGED files
                /\ UNCHANGED serverDown

\* Nobody reads what is sent to a server that has stopped.
ServerReceive(c) ==
    \E i \in Deliverable(toServer[c]) :
        LET m == toServer[c][i] IN
        /\ toServer' = [toServer EXCEPT ![c] = RemoveAt(@, i)]
        /\ \/ serverDown # "no" /\ UNCHANGED <<serverVars, toClient>>
           \/ /\ serverDown = "no"
              /\ \/ m.op = "rrq" /\ OnRrq(c, m.file)
                 \/ m.op = "wrq" /\ OnWrq(c, m.file)
                 \/ m.op = "ack" /\ OnAck(c, m.block)
                 \/ m.op = "data" /\ OnData(c, m)
        /\ UNCHANGED <<clientVars, faults>>

-------------------------------------------------------------------------------
(* The network.                                                            *)

\* The datagrams whose loss a timeout of the client makes good: requests,
\* the first answer to them, what a writer sends, and the last
\* acknowledgement of a reader, which nobody waits for.
Replaceable(c, m) ==
    \/ m.op \in {"rrq", "wrq", "error"}
    \/ m.op = "data" /\ (client[c].op = "write" \/ m.block = 1)
    \/ m.op = "ack" /\ (m.block = 0 \/ client[c].op = "idle" \/ client[c].done)

Lose(c) ==
    /\ Spend("loss", MaxLoss)
    /\ \/ \E i \in DOMAIN toServer[c] :
            /\ LoseAny \/ Replaceable(c, toServer[c][i])
            /\ toServer' = [toServer EXCEPT ![c] = RemoveAt(@, i)]
            /\ UNCHANGED toClient
       \/ \E i \in DOMAIN toClient[c] :
            /\ LoseAny \/ Replaceable(c, toClient[c][i])
            /\ toClient' = [toClient EXCEPT ![c] = RemoveAt(@, i)]
            /\ UNCHANGED toServer
    /\ UNCHANGED <<clientVars, serverVars>>

Duplicate(c) ==
    /\ Spend("dup", MaxDup)
    /\ \/ \E m \in Range(toServer[c]) : ClientSends(c, m) /\ UNCHANGED toClient
       \/ \E m \in Range(toClient[c]) : ServerReplies(c, m) /\ UNCHANGED toServer
    /\ UNCHANGED <<clientVars, serverVars>>

-------------------------------------------------------------------------------
Next ==
    \E c \in Clients :
        \/ \E f \in Files : StartRead(c, f) \/ \E size \in WriteSizes : StartWrite(c, f, size)
        \/ ClientReceive(c) \/ Timeout(c) \/ Finish(c) \/ Abort(c)
        \/ ServerReceive(c)
        \/ Lose(c) \/ Duplicate(c)

\* The client polls in a loop and the server waits for datagrams: each goes
\* on as long as it has something to do.
Fairness ==
    \A c \in Clients :
        /\ WF_vars(ClientReceive(c)) /\ WF_vars(ServerReceive(c))
        /\ WF_vars(Timeout(c)) /\ WF_vars(Finish(c))

Spec == Init /\ [][Next]_vars
FairSpec == Spec /\ Fairness

-------------------------------------------------------------------------------
(* Properties.                                                             *)

Failures == {"no", "block order", "error reply", "opcode", "ack range", "timeout"}
ServerFailures == {"no", "no session", "ack range", "not a read", "not a write", "block order"}

\* The shape of the state (members of tftp_reader, tftp_writer and
\* tftp_server_session; block numbers are uint16_t).
TypeOK ==
    /\ \A c \in Clients :
         /\ client[c].op \in {"idle", "read", "write"}
         /\ client[c].file \in Files \cup {NoFile}
         /\ client[c].last \in 0 .. UINT16_MAX
         /\ client[c].done \in BOOLEAN
         /\ session[c] # NoSession => session[c].file \in Files /\ session[c].read \in BOOLEAN
    /\ failed \in [Clients -> Failures]
    /\ serverDown \in ServerFailures

\* Whatever the network loses, repeats or reorders, what a reader has is a
\* beginning of the file it asked for, and all of it when do_op returns true
\* (tftp_reader::on_packet, put_block).
ReadIntact ==
    \A c \in Clients : client[c].op = "read" =>
        LET file == files[client[c].file] IN
        IF file = NoFile THEN client[c].data = <<>> /\ ~client[c].done
        ELSE /\ IsPrefix(client[c].data, file)
             /\ client[c].done => client[c].data = file

\* A file on the server is the whole of what one writer sent under that
\* name, never a part or a mixture (got_data, and a second WRQ in the middle
\* of a transfer).
FilesWhole ==
    \A f \in Files :
        \/ files[f] = NoFile
        \/ \E n \in FileSizes : files[f] = Content("server", f, n)
        \/ \E c \in Clients, n \in WriteSizes : files[f] = Content(c, f, n)

\* When a write is done, the server's file is what was written
\* (tftp_writer::is_done).
DoneMeansWritten ==
    \A c \in Clients : client[c].op = "write" /\ is_done(c) =>
        files[client[c].file] = client[c].data

\* Neither end stops, except a client that gets an error reply.
NoProtocolFailure ==
    serverDown = "no" /\ \A c \in Clients : failed[c] \in {"no", "error reply"}

\* Every transfer ends (do_op), if only datagrams are lost that a timeout
\* replaces (tftp_reader::on_timeout, tftp_writer::on_timeout).
Completes ==
    \A c \in Clients :
        client[c].op # "idle" ~> client[c].op = "idle" \/ failed[c] = "error reply"

\* Whatever the network does, neither end ever holds a damaged file: what a
\* reader has is a beginning of the file (on_packet), and what the server has
\* stored under a name is the whole of one writer's data (got_data).
FilesIntact == TypeOK /\ ReadIntact /\ FilesWhole
===============================================================================
