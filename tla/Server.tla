------------------------------- MODULE Server -------------------------------
(***************************************************************************)
(* The network front end (src/observer/net, session_stage.cpp): clients,   *)
(* the event loop thread that accepts connections and reads requests, the  *)
(* service threads that answer them, and the communicator each connection  *)
(* shares between the loop and the threads.  The stage in between is the   *)
(* WorkQueue that the SEDA library implements (Seda.StageQueueSpec).       *)
(*                                                                         *)
(* A client keeps to the protocol: it sends a request, then waits for the  *)
(* answer.  It may hang up at any time.  Using a communicator after it was *)
(* deleted is undefined: the process crashes, or the thread goes on as if  *)
(* nothing had happened.                                                   *)
(***************************************************************************)
EXTENDS WorkQueue, OutputBuffer, SequencesExt

CONSTANTS Clients, Protocols,
          Outcomes,      \* what executing a query may come to
          Rows,          \* rows of a result before its end or its failure
          Fds,           \* descriptors, 1 .. n
          Quota          \* [Clients -> messages it may send]

ASSUME ServerAssumption ==
  /\ Quota \in [Clients -> Nat]
  /\ Items = UNION {{c} \X (1 .. Quota[c]) : c \in Clients}
  /\ Protocols \subseteq {"plain", "mysql"}
  /\ Outcomes \subseteq {"state", "rows", "rowsfail", "cellfail"}

VARIABLES
  proto,      \* server_param_.protocol
  client,     \* [Clients -> the client's end of the connection]
  comm,       \* [Clients -> its Communicator]
  fd,         \* [Fds -> whose the descriptor is: a client or "free"]
  loop,       \* the event loop thread: pc and the client it serves
  job,        \* [Items -> the service thread that handles the request]
  process,    \* "runs", or how it ended: "exited", "crashed" or "raced"
  stray       \* clients whose bytes were written to a descriptor of someone else

svars == <<proto, client, comm, fd, loop, job, process, stray>>

\* Bytes of the answer to message n of c; s is the packet's sequence id.
Byte(c, n, what, s) == [c |-> c, n |-> n, what |-> what, seq |-> s]

Communicator0 == [state |-> "none", ring |-> EmptyRing, fd |-> 0, current |-> 0,
                  authed |-> FALSE, seq |-> 0]
Job0 == [pc |-> "none", script |-> <<>>, due |-> 0, sent |-> 0]

Polling == [pc |-> "poll", c |-> CHOOSE c \in Clients : TRUE]

ServerInit ==
  /\ QInit
  /\ proto \in Protocols
  /\ client = [c \in Clients |-> [link |-> "out", asked |-> <<>>, inbox |-> "none",
                                  awaits |-> FALSE, outcome |-> "none", got |-> <<>>]]
  /\ comm = [c \in Clients |-> Communicator0]
  /\ fd = [f \in Fds |-> "free"]
  /\ loop = Polling
  /\ job = [i \in Items |-> Job0]
  /\ process = "runs"
  /\ stray = {}

Running == process = "runs"
Sent(c) == Len(client[c].asked)
FreeFds == {f \in Fds : fd[f] = "free"}

-----------------------------------------------------------------------------
(* The clients (external).                                                 *)

\* A message arrives in two pieces; the client begins one only when it waits for nothing.
SendHalf(c) ==
  /\ Running /\ client[c].link = "open" /\ ~client[c].awaits /\ client[c].inbox = "none"
  /\ Sent(c) < Quota[c]
  /\ client' = [client EXCEPT ![c].inbox = "half"]
  /\ UNCHANGED <<qvars, proto, comm, fd, loop, job, process, stray>>

SendRest(c) ==
  /\ Running /\ client[c].link = "open" /\ client[c].inbox = "half"
  /\ \E k \in IF proto = "plain" THEN {"query", "blank"}
              ELSE IF ~comm[c].authed THEN {"auth"} ELSE {"query", "command", "version"} :
       client' = [client EXCEPT ![c].inbox = "full", ![c].asked = Append(@, k), ![c].awaits = TRUE,
                                ![c].outcome = "none", ![c].got = <<>>]
  /\ UNCHANGED <<qvars, proto, comm, fd, loop, job, process, stray>>

HangUp(c) ==
  /\ Running /\ client[c].link = "open"
  /\ client' = [client EXCEPT ![c].link = "closed"]
  /\ UNCHANGED <<qvars, proto, comm, fd, loop, job, process, stray>>

-----------------------------------------------------------------------------
(* Writing to a descriptor.                                                *)

EndsAnswer(b) == b.what \in {"end", "eof", "ok"}

\* The client receives bytes; the end of an answer lets it go on.
Receive(rec, bytes) ==
  [rec EXCEPT !.got = @ \o bytes,
              !.awaits = @ /\ \A i \in 1 .. Len(bytes) : ~EndsAnswer(bytes[i])]

(* ::write of bytes that belong to c.  They reach whoever has the descriptor *)
(* now; a peer that has closed receives nothing.                           *)
Deliver(c, f, bytes) ==
  LET o == fd[f] IN
  IF bytes = <<>> \/ o = "free" THEN UNCHANGED <<client, stray>>
  ELSE /\ stray' = IF o = c THEN stray ELSE stray \cup {c}
       /\ client' = IF o \in Clients /\ client[o].link = "open"
                    THEN [client EXCEPT ![o] = Receive(@, bytes)] ELSE client

-----------------------------------------------------------------------------
(* Server::close_connection and ~Communicator: take the event out of the    *)
(* loop, close the descriptor, delete the session, and only then delete the *)
(* writer, which flushes what is left to the number the descriptor had.    *)
CloseFd(c) ==
  /\ fd' = [fd EXCEPT ![comm[c].fd] = "free"]
  /\ comm' = [comm EXCEPT ![c].state = "closing", ![c].current = 0]
  /\ client' = [client EXCEPT ![c].link = IF @ = "open" THEN "cut" ELSE @]

\* ~BufferedWriter flushes everything in the ring.
DeleteWriter(c) ==
  /\ Deliver(c, comm[c].fd, Content(comm[c].ring))
  /\ comm' = [comm EXCEPT ![c].state = "deleted", ![c].ring = EmptyRing]

\* The process is gone, and every connection and thread with it.
Ends(how) ==
  /\ process' = how
  /\ comm' = [c \in Clients |-> Communicator0]
  /\ job' = [i \in Items |-> Job0]
  /\ client' = [c \in Clients |-> [client[c] EXCEPT !.link = "cut", !.inbox = "none",
                                   !.asked = <<>>, !.awaits = FALSE, !.outcome = "none", !.got = <<>>]]
  /\ fd' = [f \in Fds |-> "free"]
  /\ loop' = Polling
  /\ waiting' = <<>> /\ running' = {} /\ finished' = {}
  /\ stray' = {}
  /\ UNCHANGED proto

\* A thread is not done with the buffer of c.
Writing(c, threads) == \E j \in threads : j[1] = c /\ job[j].pc = "write"

(* Two threads on one BufferedWriter: the client has its answer before       *)
(* flush() has taken it out of the ring, and sends the next message.  What  *)
(* the data race leads to (bytes sent twice, a wrong size) is not followed. *)
Race == Ends("raced")

-----------------------------------------------------------------------------
(* The event loop.                                                         *)

Accept(c) ==
  /\ Running /\ loop.pc = "poll" /\ client[c].link = "out"
  /\ FreeFds # {}
  /\ LET f == Min(FreeFds) IN
     /\ fd' = [fd EXCEPT ![f] = c]
     /\ comm' = [comm EXCEPT ![c] = [Communicator0 EXCEPT !.state = "live", !.fd = f]]
  /\ client' = [client EXCEPT ![c].link = "open",
                  ![c].got = IF proto = "mysql" THEN <<Byte(c, 0, "hello", 0)>> ELSE <<>>]
  /\ UNCHANGED <<qvars, proto, loop, job, process, stray>>

\* fcntl, setsockopt, the handshake or event_add fails: the connection is closed again.
AcceptFails(c) ==
  /\ Running /\ loop.pc = "poll" /\ client[c].link = "out"
  /\ client' = [client EXCEPT ![c].link = "cut"]
  /\ UNCHANGED <<qvars, proto, comm, fd, loop, job, process, stray>>

\* recv: the socket is readable; read_event does not return before a whole message.
BeginRead(c) ==
  /\ Running /\ loop.pc = "poll" /\ comm[c].state = "live"
  /\ client[c].inbox # "none" \/ client[c].link = "closed"
  /\ loop' = [pc |-> "read", c |-> c]
  /\ UNCHANGED <<qvars, proto, client, comm, fd, job, process, stray>>

\* A query becomes an event of SessionStage.
ReadQuery ==
  LET c == loop.c IN
  /\ Running /\ loop.pc = "read"
  /\ client[c].inbox = "full" /\ Last(client[c].asked) \in {"query", "blank"}
  /\ client' = [client EXCEPT ![c].inbox = "none"]
  /\ comm' = [comm EXCEPT ![c].seq = IF proto = "mysql" THEN 1 ELSE 0]
  /\ Add(<<c, Sent(c)>>)
  /\ loop' = Polling
  /\ UNCHANGED <<proto, fd, job, process, stray>>

(* MysqlCommunicator::read_event answers by itself, in the event loop: the  *)
(* handshake response (sequence id 1, so the reply has 2), commands other   *)
(* than COM_QUERY, and the result set of select @@version_comment.  It      *)
(* returns when all of the answer is written.                              *)
ReadOther ==
  LET c     == loop.c
      asked == Last(client[c].asked)
      parts == IF asked = "version" THEN <<"head", "cell", "eof">> ELSE <<"ok">>
      first == IF asked = "auth" THEN 2 ELSE 1
      bytes == [k \in DOMAIN parts |-> Byte(c, Sent(c), parts[k], first + k - 1)] IN
  /\ Running /\ loop.pc = "read"
  /\ client[c].inbox = "full" /\ asked \in {"auth", "command", "version"}
  /\ IF Writing(c, running) THEN Race
     ELSE /\ comm' = [comm EXCEPT ![c].authed = TRUE, ![c].seq = Last(bytes).seq]
          /\ client' = [client EXCEPT ![c] = LET read == [@ EXCEPT !.inbox = "none"] IN
                          IF @.link = "open" THEN Receive(read, bytes) ELSE read]
          /\ loop' = Polling
          /\ UNCHANGED <<qvars, proto, fd, job, process, stray>>

\* read returns 0: the loop thread deletes the communicator, whoever uses it.
ReadEof ==
  LET c == loop.c IN
  /\ Running /\ loop.pc = "read"
  /\ client[c].link = "closed" /\ client[c].inbox # "full"
  /\ CloseFd(c)
  /\ loop' = [loop EXCEPT !.pc = "delete"]
  /\ UNCHANGED <<qvars, proto, job, process, stray>>

LoopDeletes ==
  /\ Running /\ loop.pc = "delete"
  /\ DeleteWriter(loop.c)
  /\ loop' = Polling
  /\ UNCHANGED <<qvars, proto, fd, job, process>>

LoopRuns == ReadQuery \/ ReadOther \/ ReadEof \/ LoopDeletes
              \/ \E c \in Clients : Accept(c) \/ BeginRead(c)

-----------------------------------------------------------------------------
(* SessionStage::handle_request and write_result, on a service thread.      *)

Write(data) == [op |-> "write", data |-> data]
Op(name)    == [op |-> name, data |-> <<>>]

\* The column names, or MySQL's column count and definition packets.
HeadBytes == <<"head">>

\* The cells of a row; in MySQL's protocol one packet.
RowBytes == <<"cell", "cell">>

HeadAndRows == <<Write(HeadBytes)>> \o [i \in 1 .. Rows |-> Write(RowBytes)]

\* Mutant of PlainScript: a state without a flush after it.
PlainScriptUnflushed(o) ==
  CASE o = "state"    -> <<Write(<<"state">>), Write(<<"end">>)>>
    [] o = "rows"     -> HeadAndRows \o <<Write(<<"end">>), Op("flush")>>
    [] o = "rowsfail" -> HeadAndRows \o <<Op("clear"), Write(<<"state">>), Write(<<"end">>), Op("flush")>>
    [] o = "cellfail" -> HeadAndRows \o <<Write(<<"cell">>), Op("flush"), Op("disconnect")>>

(* What write_result does for an outcome.  "state": no operator, or open()  *)
(* fails; "rows": a result set to its end; "rowsfail": next_tuple fails     *)
(* after Rows rows; "cellfail": a cell of the row after them cannot be read.*)
PlainScript(o) ==
  CASE o = "state"    -> <<Write(<<"state">>), Write(<<"end">>), Op("flush")>>
    [] o = "rows"     -> HeadAndRows \o <<Write(<<"end">>), Op("flush")>>
    [] o = "rowsfail" -> HeadAndRows \o <<Op("clear"), Write(<<"state">>), Write(<<"end">>), Op("flush")>>
    [] o = "cellfail" -> HeadAndRows \o <<Write(<<"cell">>), Op("flush"), Op("disconnect")>>

(* MySQL sends an OK or error packet for a state, and ends every result set  *)
(* with an EOF packet, failed or not; a row with a bad cell is sent short.  *)
MysqlScript(o) ==
  CASE o = "state"    -> <<Write(<<"ok">>), Op("flush")>>
    [] o = "cellfail" -> HeadAndRows \o <<Write(<<"cell">>), Write(<<"eof">>), Op("flush")>>
    [] OTHER          -> HeadAndRows \o <<Write(<<"eof">>), Op("flush")>>

Script(o) == IF proto = "plain" THEN PlainScript(o) ELSE MysqlScript(o)

\* The thread takes the next event of the stage.
TakeEvent ==
  /\ Running
  /\ Start
  /\ job' = [job EXCEPT ![Head(waiting)].pc = "begin"]
  /\ UNCHANGED <<proto, client, comm, fd, loop, process, stray>>

(* Server::shutdown ends the event loop; cleanup() then deletes the          *)
(* databases and the buffer pool, and nobody stops the service threads: one *)
(* that still runs meets deleted objects, or the process exits before.     *)
Quit ==
  /\ Running /\ loop.pc = "poll"
  /\ \E how \in IF running = {} THEN {"exited"} ELSE {"exited", "crashed"} : Ends(how)

\* An access to a deleted communicator: the process ends, or the thread's work is lost.
Undefined(i) ==
  \/ Ends("crashed")
  \/ /\ job' = [job EXCEPT ![i].pc = "done"]
     /\ UNCHANGED <<qvars, proto, client, comm, fd, loop, process, stray>>

Alive(i) == comm[i[1]].state = "live"

\* is_blank: nothing is done and nothing answered.
SkipBlank(i) ==
  /\ Running /\ job[i].pc = "begin" /\ client[i[1]].asked[i[2]] = "blank"
  /\ job' = [job EXCEPT ![i].pc = "done"]
  /\ UNCHANGED <<qvars, proto, client, comm, fd, loop, process, stray>>

\* set_current_session and set_current_request.
BeginRequest(i) ==
  /\ Running /\ job[i].pc = "begin" /\ client[i[1]].asked[i[2]] # "blank"
  /\ IF ~Alive(i) THEN Undefined(i)
     ELSE /\ comm' = [comm EXCEPT ![i[1]].current = i[2]]
          /\ job' = [job EXCEPT ![i].pc = "sql"]
          /\ UNCHANGED <<qvars, proto, client, fd, loop, process, stray>>

\* handle_sql: the modules SqlStatement, MvccTrx and below.
HandleSql(i) ==
  /\ Running /\ job[i].pc = "sql"
  /\ IF ~Alive(i) THEN Undefined(i)
     ELSE IF Writing(i[1], running \ {i}) THEN Race
     ELSE /\ \E o \in Outcomes :
               /\ job' = [job EXCEPT ![i] = [Job0 EXCEPT !.pc = "write", !.script = Script(o)]]
               /\ client' = [client EXCEPT ![i[1]].outcome = o]
          /\ UNCHANGED <<qvars, proto, comm, fd, loop, process, stray>>

\* The script moves on: past an instruction, or past a part of its data.
Rest(s, n) == IF n < Len(s[1].data) THEN <<Write(SubSeq(s[1].data, n + 1, Len(s[1].data)))>> \o Tail(s)
              ELSE Tail(s)

\* BufferedWriter::writen when there is room: one copy into the ring.
CopyIn(i) ==
  LET c    == i[1]
      s    == job[i].script
      data == [k \in 1 .. Len(s[1].data) |-> Byte(c, i[2], s[1].data[k], comm[c].seq)]
      n    == PutSize(comm[c].ring, data)
      last == n = Len(data) IN
  /\ s # <<>> /\ s[1].op = "write" /\ job[i].due = 0
  /\ Remain(comm[c].ring) > 0
  /\ comm' = [comm EXCEPT ![c].ring = PutSome(@, data), ![c].seq = IF last /\ proto = "mysql" THEN @ + 1 ELSE @]
  /\ job' = [job EXCEPT ![i].script = Rest(@, n)]
  /\ UNCHANGED <<qvars, proto, client, fd, loop, process, stray>>

(* What flush_internal still has to write: the size of the data when the    *)
(* ring is full, everything for flush().                                   *)
Due(i) ==
  LET s == job[i].script IN
  IF job[i].due > 0 \/ s = <<>> THEN job[i].due
  ELSE CASE s[1].op = "write" /\ Remain(comm[i[1]].ring) = 0 -> Len(s[1].data)
         [] s[1].op = "flush" -> comm[i[1]].ring.size
         [] OTHER -> 0

\* Mutant of FlushSome: the bytes the socket did not take count as sent.
FlushSomeForgets(i) ==
  LET c == i[1]
      b == Span(comm[c].ring) IN
  /\ Due(i) > 0 /\ job[i].sent = 0 /\ b # <<>>
  /\ \E n \in {1, Len(b)} : Deliver(c, comm[c].fd, SubSeq(b, 1, n))
  /\ job' = [job EXCEPT ![i].sent = Len(b), ![i].due = Due(i)]
  /\ UNCHANGED <<qvars, proto, comm, fd, loop, process>>

\* One ::write of flush_internal; the socket may take less than it is given.
FlushSome(i) ==
  LET c == i[1]
      b == Span(comm[c].ring) IN
  /\ Due(i) > 0 /\ job[i].sent = 0 /\ b # <<>>
  /\ \E n \in {1, Len(b)} :
       /\ Deliver(c, comm[c].fd, SubSeq(b, 1, n))
       /\ job' = [job EXCEPT ![i].sent = n, ![i].due = Due(i)]
  /\ UNCHANGED <<qvars, proto, comm, fd, loop, process>>

\* Only then are the bytes taken out of the ring.
FlushForward(i) ==
  LET c == i[1]
      n == job[i].sent
      r == Forward(comm[c].ring, n) IN
  /\ n > 0
  /\ comm' = [comm EXCEPT ![c].ring = r]
  /\ job' = [job EXCEPT ![i].sent = 0, ![i].due = IF n >= @ \/ r.size = 0 THEN 0 ELSE @ - n]
  /\ UNCHANGED <<qvars, proto, client, fd, loop, process, stray>>

\* flush() has nothing left to write.
FlushDone(i) ==
  LET s == job[i].script IN
  /\ s # <<>> /\ s[1].op = "flush" /\ job[i].sent = 0 /\ comm[i[1]].ring.size = 0
  /\ job' = [job EXCEPT ![i].script = Tail(s), ![i].due = 0]
  /\ UNCHANGED <<qvars, proto, client, comm, fd, loop, process, stray>>

\* Mutant of FlushFails: EAGAIN counts as a failure too.
FlushFailsAgain(i) ==
  LET s == job[i].script IN
  /\ Due(i) > 0 /\ job[i].sent = 0
  /\ job' = [job EXCEPT ![i].due = 0, ![i].script = <<Op("disconnect")>>]
  /\ UNCHANGED <<qvars, proto, client, comm, fd, loop, process, stray>>

(* The peer is gone and ::write fails.  A failing write of data asks for a   *)
(* disconnect, except that of MySQL's last packet; a failing flush() is      *)
(* ignored.                                                                *)
FlushFails(i) ==
  LET s == job[i].script IN
  /\ Due(i) > 0 /\ job[i].sent = 0 /\ client[i[1]].link = "closed"
  /\ job' = [job EXCEPT ![i].due = 0,
               ![i].script = IF s[1].op = "flush" THEN Tail(s)
                             ELSE IF s[1].data = <<"eof">> THEN <<>> ELSE <<Op("disconnect")>>]
  /\ UNCHANGED <<qvars, proto, client, comm, fd, loop, process, stray>>

\* BufferedWriter::clear: forget what has not been sent yet.
ClearRing(i) ==
  LET s == job[i].script IN
  /\ s # <<>> /\ s[1].op = "clear"
  /\ comm' = [comm EXCEPT ![i[1]].ring = EmptyRing]
  /\ job' = [job EXCEPT ![i].script = Tail(s)]
  /\ UNCHANGED <<qvars, proto, client, fd, loop, process, stray>>

(* need_disconnect: the service thread closes the connection itself.        *)
(* event_del waits for a callback of this connection that is running.      *)
Disconnect(i) ==
  LET s == job[i].script IN
  /\ s # <<>> /\ s[1].op = "disconnect"
  /\ ~(loop.pc \in {"read", "delete"} /\ loop.c = i[1])
  /\ CloseFd(i[1])
  /\ job' = [job EXCEPT ![i].pc = "delete", ![i].script = <<>>]
  /\ UNCHANGED <<qvars, proto, loop, process, stray>>

EndScript(i) ==
  /\ job[i].script = <<>>
  /\ job' = [job EXCEPT ![i].pc = "finish"]
  /\ UNCHANGED <<qvars, proto, client, comm, fd, loop, process, stray>>

WriteResult(i) ==
  /\ Running /\ job[i].pc = "write"
  /\ IF ~Alive(i) THEN Undefined(i)
     ELSE \/ CopyIn(i) \/ FlushSome(i) \/ FlushForward(i) \/ FlushDone(i) \/ FlushFails(i)
          \/ ClearRing(i) \/ Disconnect(i) \/ EndScript(i)

ThreadDeletes(i) ==
  /\ Running /\ job[i].pc = "delete"
  /\ DeleteWriter(i[1])
  /\ job' = [job EXCEPT ![i].pc = "finish"]
  /\ UNCHANGED <<qvars, proto, fd, loop, process>>

\* sev->session()->set_current_request(nullptr), whether or not there still is a session.
EndRequest(i) ==
  /\ Running /\ job[i].pc = "finish"
  /\ IF ~Alive(i) THEN Undefined(i)
     ELSE /\ comm' = [comm EXCEPT ![i[1]].current = 0]
          /\ job' = [job EXCEPT ![i].pc = "done"]
          /\ UNCHANGED <<qvars, proto, client, fd, loop, process, stray>>

\* done_immediate deletes the event; the thread is free again.
DoneImmediate(i) ==
  /\ Running /\ job[i].pc = "done"
  /\ Finish(i)
  /\ job' = [job EXCEPT ![i] = Job0]
  /\ UNCHANGED <<proto, client, comm, fd, loop, process, stray>>

Handle(i) ==
  \/ SkipBlank(i) \/ BeginRequest(i) \/ HandleSql(i) \/ WriteResult(i)
  \/ ThreadDeletes(i) \/ EndRequest(i) \/ DoneImmediate(i)

ServerNext ==
  \/ LoopRuns \/ Quit \/ TakeEvent
  \/ \E c \in Clients : SendHalf(c) \/ SendRest(c) \/ HangUp(c) \/ AcceptFails(c)
  \/ \E i \in Items : Handle(i)

ServerSpec == ServerInit /\ [][ServerNext]_<<qvars, svars>>

(* The threads run; a client that has begun a message finishes it or hangs  *)
(* up.  (While it does neither, read_event spins and nobody is served.)    *)
ServerFairness ==
  /\ WF_<<qvars, svars>>(LoopRuns)
  /\ WF_<<qvars, svars>>(TakeEvent)
  /\ \A i \in Items : WF_<<qvars, svars>>(Handle(i))
  /\ \A c \in Clients : WF_<<qvars, svars>>(SendRest(c))

ServerFairSpec == ServerSpec /\ ServerFairness
-----------------------------------------------------------------------------
(* Properties.                                                             *)

(* What the answer to a query with outcome o consists of, packet by packet.  *)
(* Plain protocol: after a failure the rows are taken back and FAILURE is   *)
(* all there is; a cell that cannot be read breaks the answer off.  MySQL:  *)
(* a failed scan looks like a complete one, and a row with a bad cell is    *)
(* sent short.                                                             *)
Packets(o) ==
  LET rows == [k \in 1 .. Rows |-> <<"cell", "cell">>]
      head == <<<<"head">>>> \o rows IN
  CASE o = "rows"     /\ proto = "plain" -> head \o <<<<"end">>>>
    [] o = "cellfail" /\ proto = "plain" -> head \o <<<<"cell">>>>
    [] o \in {"state", "rowsfail"} /\ proto = "plain" -> <<<<"state">>, <<"end">>>>
    [] o = "state"    /\ proto = "mysql" -> <<<<"ok">>>>
    [] o = "cellfail" /\ proto = "mysql" -> head \o <<<<"cell">>, <<"eof">>>>
    [] OTHER -> head \o <<<<"eof">>>>

\* The packets as bytes with sequence ids that count from s (MySQL), or without.
Numbered(packets, s) ==
  FlattenSeq([k \in 1 .. Len(packets) |-> [j \in 1 .. Len(packets[k]) |->
    [what |-> packets[k][j], seq |-> IF proto = "mysql" THEN s + k - 1 ELSE 0]]])

\* The answer to the last message of c.
Answer(c) ==
  CASE Last(client[c].asked) = "query" ->
         IF client[c].outcome = "none" THEN <<>> ELSE Numbered(Packets(client[c].outcome), 1)
    [] client[c].asked = <<"auth">>           -> Numbered(<<<<"ok">>>>, 2)
    [] Last(client[c].asked) = "command"      -> Numbered(<<<<"ok">>>>, 1)
    [] Last(client[c].asked) = "version"      -> Numbered(<<<<"head">>, <<"cell">>, <<"eof">>>>, 1)
    [] OTHER                                  -> <<>>

\* Rows of a failing query that had left the ring before it could be cleared.
Unretracted(c) ==
  LET rows == Numbered(Front(Packets("rows")), 1) IN
  IF proto = "plain" /\ client[c].outcome = "rowsfail" /\ Len(rows) > Capacity
  THEN {SubSeq(rows, 1, k) : k \in 0 .. Len(rows) - 1} ELSE {<<>>}

(* The bytes a client reads are the answer to its last message and nothing  *)
(* of earlier ones, complete before it goes on, with MySQL sequence ids     *)
(* that count on from the client's: whatever the wrap-arounds of the ring,  *)
(* partial writes and flushes in the middle of an answer.  One departure:   *)
(* when the rows do not fit into the ring, BufferedWriter::clear comes too  *)
(* late for those already sent, and FAILURE follows them (the case the      *)
(* comment in write_result_internal means to avoid).  Bytes of another      *)
(* client come only from one that hung up.  Nothing is said of what a       *)
(* client reads after two threads have met on its BufferedWriter: there the *)
(* behaviour ends (Race).                                                  *)
AnswersInOrder ==
  \A c \in Clients :
    LET got  == client[c].got
        own  == SelectSeq(got, LAMBDA b : b.c = c /\ b.n > 0)
        read == [j \in 1 .. Len(own) |-> [what |-> own[j].what, seq |-> own[j].seq]]
    IN /\ \A j \in 1 .. Len(own) : own[j].n = Sent(c)
       /\ Sent(c) > 0 => \E shown \in Unretracted(c) :
            IF client[c].awaits THEN IsPrefix(read, shown \o Answer(c)) ELSE read = shown \o Answer(c)
       /\ \A j \in 1 .. Len(got) : got[j].c \in {c} \cup stray

\* The client hung up before it had its answer.
LeftEarly(c) == client[c].link = "closed" /\ client[c].awaits

(* A service thread has its connection as long as its client waits for the  *)
(* answer, and bytes go to the client they are meant for, unless that       *)
(* client hung up: then the event loop deletes the communicator under the   *)
(* thread (even when the client had its answer: the thread still has to     *)
(* take it out of the ring and to reset current_request_), and what is left *)
(* in the ring is flushed to a descriptor number that may belong to another *)
(* connection (or to a table file) by then.                                *)
SafeWhileWaited ==
  /\ \A i \in running : /\ job[i].pc \in {"begin", "sql", "write"} /\ ~Alive(i)
                         /\ i[2] = Sent(i[1]) /\ client[i[1]].awaits
                         => LeftEarly(i[1])
  /\ \A c \in stray : client[c].link = "closed"

(* Session::current_request_ points to a request that still exists.  While  *)
(* a statement runs it is that statement's request, or null: the thread of  *)
(* the previous request resets it when the client has its answer already.  *)
CurrentRequestLive ==
  \A c \in Clients : comm[c].state = "live" =>
    /\ comm[c].current # 0 => <<c, comm[c].current>> \in running
    /\ \A i \in running : i[1] = c /\ job[i].pc = "sql" => comm[c].current \in {0, i[2]}

(* Unless the server stops, no client waits for ever: every message but a   *)
(* blank query is answered, or the connection is closed.                   *)
ServerProgress ==
  []<>( \/ ~Running
        \/ \A c \in Clients : client[c].awaits /\ client[c].link = "open" => Last(client[c].asked) = "blank")

Lengths == {0, 250, 251, 65535, 65536, 131071, 131072, 16777215, 16777216, 33554431, 33554432}

(* A length or count reaches a MySQL client as it is, except that the two   *)
(* limits of store_lenenc_int are twice what the protocol has: from 2^16 to *)
(* 2^17 - 1 and from 2^24 to 2^25 - 1 the encoded value loses its top bit.  *)
LenencReadable ==
  proto = "mysql" => \A v \in Lengths : LET r == ReadLenenc(store_lenenc_int(v)) IN
    CASE v \in 2^16 .. 2^17 - 1 -> r = v - 2^16
      [] v \in 2^24 .. 2^25 - 1 -> r = v - 2^24
      [] OTHER                  -> r = v

(* A request, its connection and its session live as long as its client     *)
(* waits for the answer.                                                    *)
RequestsLive == SafeWhileWaited /\ CurrentRequestLive
=============================================================================
