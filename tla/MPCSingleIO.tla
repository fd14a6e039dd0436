---------------------------- MODULE MPCSingleIO ----------------------------
(***************************************************************************)
(* One direction of one MPCSingleIO connection (mpcio.hpp:77-172,          *)
(* mpcio.cpp:9-171), built with SEND_LAMPORT_CLOCKS: the work thread of    *)
(* the sending party calls queue() and send(), the io_context thread runs  *)
(* the completion handlers of async_write, and the work thread of the      *)
(* receiving party calls recv().                                           *)
(*                                                                         *)
(* A byte is identified by its place in the stream: the n-th byte ever     *)
(* passed to queue() is byte n-1.  Every buffer then holds an interval of  *)
(* bytes, first .. past - 1, and nothing about the payload is lost that    *)
(* the properties below tell apart.  History variables say what the stamps *)
(* should be: open and clocks record, without looking at message_lamport,  *)
(* which message a queue() belongs to and what the clock was at its first  *)
(* queue(), and byteclocks that clock for every byte.                      *)
(*                                                                         *)
(* queue() and send() touch messagequeue in one critical section of        *)
(* messagequeuelock, and everything else they touch belongs to the calling *)
(* thread, so each call is one step; so is each completion handler.        *)
(***************************************************************************)
EXTENDS Naturals, Sequences

CONSTANTS
    Lens,       \* the lengths passed to queue() and recv()
    FullPacket, \* dataqueue is flushed when it holds more than this (28800)
    MaxBytes,   \* bound: total bytes the sender queues
    MaxClock,   \* bound: the sender's Lamport clock
    None        \* message_lamport is nullopt

ASSUME LensAssumption == Lens \subseteq Nat \ {0}
ASSUME BoundsAssumption == FullPacket \in Nat /\ MaxBytes \in Nat /\ MaxClock \in Nat
ASSUME NoneAssumption == None \notin Nat

VARIABLES
    send_lamport,    \* the sending thread's clock, passed to queue()
    dataqueue,       \* bytes accumulated by queue()
    message_lamport, \* clock of the first queue() since the last explicit send
    msgs_sent,       \* number of messages started, the statistic of the stream
    messagequeue,    \* chunks handed over by send(), the front one being written
    writing,         \* async_writes whose bytes are not all in the socket yet
    written,         \* async_writes that completed, their handlers still to run
    wire,            \* chunks in the TCP connection
    recvdata,        \* the unread rest of the chunk last read by recv()
    recv_lamport,    \* the receiving thread's clock
    want,            \* bytes the current recv() call still has to copy
    delivered,       \* bytes copied out by recv() so far
    open,            \* history: queue() was called since the last explicit send
    clocks,          \* history: clock at the first queue() of each message
    byteclocks       \* history: that clock, of the message of each byte

history  == <<open, clocks, byteclocks>>
sendvars == <<send_lamport, dataqueue, message_lamport, msgs_sent, history>>
iovars   == <<messagequeue, writing, written, wire>>
recvvars == <<recvdata, recv_lamport, want, delivered>>
vars     == <<sendvars, iovars, recvvars>>

Interval == [first : Nat, past : Nat]
Chunk    == [first : Nat, past : Nat, lamport : Nat, msg : Nat]

Size(b) == b.past - b.first

Init ==
    /\ send_lamport = 0
    /\ dataqueue = [first |-> 0, past |-> 0]
    /\ message_lamport = None
    /\ msgs_sent = 0
    /\ messagequeue = <<>>
    /\ writing = <<>>
    /\ written = 0
    /\ wire = <<>>
    /\ recvdata = [first |-> 0, past |-> 0]
    /\ recv_lamport = 0
    /\ want = 0
    /\ delivered = 0
    /\ open = FALSE
    /\ clocks = <<>>
    /\ byteclocks = <<>>

-----------------------------------------------------------------------------
(* The sending work thread.                                                *)

\* async_send_from_msgqueue(): one more async_write, of the front of `queue`.
Launch(queue) == Append(writing, Head(queue))

\* Faulty variant: an async_write for every emplaced chunk.
EmplaceAlwaysLaunches(chunk) ==
    /\ messagequeue' = Append(messagequeue, chunk)
    /\ writing' = Launch(messagequeue')
    /\ UNCHANGED <<written, wire>>

\* The part of send() under the lock: emplace the chunk, and launch an
\* async_write when it is now alone in messagequeue.
Emplace(chunk) ==
    /\ messagequeue' = Append(messagequeue, chunk)
    /\ writing' = IF Len(messagequeue') = 1 THEN Launch(messagequeue') ELSE writing
    /\ UNCHANGED <<written, wire>>

\* Faulty variant: the chunk is copied, not moved, out of dataqueue.
FlushCopies(data, stamp, implicit_send) ==
    /\ Emplace([first |-> data.first, past |-> data.past,
                lamport |-> stamp, msg |-> Len(clocks')])
    /\ dataqueue' = data
    /\ message_lamport' = IF implicit_send THEN stamp ELSE None

\* send(implicit_send) of a nonempty `data` with the clock `stamp`.  Only an
\* explicit send forgets the stamp.
Flush(data, stamp, implicit_send) ==
    /\ Emplace([first |-> data.first, past |-> data.past,
                lamport |-> stamp, msg |-> Len(clocks')])
    /\ dataqueue' = [first |-> data.past, past |-> data.past]
    /\ message_lamport' = IF implicit_send THEN stamp ELSE None

\* queue(data, len, lamport).
Queue(len) ==
    LET data   == [dataqueue EXCEPT !.past = @ + len]
        newmsg == IF message_lamport = None THEN 1 ELSE 0
        stamp  == IF message_lamport = None THEN send_lamport ELSE message_lamport
    IN  /\ dataqueue.past + len <= MaxBytes
        /\ msgs_sent' = msgs_sent + newmsg
        /\ open' = TRUE
        /\ clocks' = IF open THEN clocks ELSE Append(clocks, send_lamport)
        /\ byteclocks' = byteclocks \o [i \in 1 .. len |-> clocks'[Len(clocks')]]
        /\ \/ /\ Size(data) > FullPacket
              /\ Flush(data, stamp, TRUE)
           \/ /\ Size(data) <= FullPacket
              /\ dataqueue' = data
              /\ message_lamport' = stamp
              /\ UNCHANGED iovars
        /\ UNCHANGED <<send_lamport, recvvars>>

\* An explicit send() of a nonempty dataqueue.
Send ==
    /\ Size(dataqueue) > 0
    /\ open' = FALSE
    /\ UNCHANGED <<clocks, byteclocks>>
    /\ Flush(dataqueue, message_lamport, FALSE)
    /\ UNCHANGED <<send_lamport, msgs_sent, recvvars>>

\* Faulty variant: every call with an empty dataqueue is ignored.
SpuriousSendIgnored ==
    /\ Size(dataqueue) = 0
    /\ open' = FALSE
    /\ UNCHANGED <<send_lamport, dataqueue, message_lamport, msgs_sent, clocks,
                   byteclocks, iovars, recvvars>>

\* An explicit send() with nothing to send only resets the stamp, so that a
\* message whose last chunk went out implicitly still ends here.
SpuriousSend ==
    /\ Size(dataqueue) = 0
    /\ message_lamport' = None
    /\ open' = FALSE
    /\ UNCHANGED <<send_lamport, dataqueue, msgs_sent, clocks, byteclocks,
                   iovars, recvvars>>

\* The sending thread's clock advances between its calls: it received a
\* message on one of its connections.
Advance ==
    /\ send_lamport < MaxClock
    /\ send_lamport' = send_lamport + 1
    /\ UNCHANGED <<dataqueue, message_lamport, msgs_sent, history, iovars, recvvars>>

-----------------------------------------------------------------------------
(* The socket and the async_write completion handler.                      *)

\* An async_write has put its whole chunk in the socket; its handler is due.
Transmit ==
    /\ writing # <<>>
    /\ wire' = Append(wire, Head(writing))
    /\ writing' = Tail(writing)
    /\ written' = written + 1
    /\ UNCHANGED <<messagequeue, sendvars, recvvars>>

\* Faulty variant: the handler only pops.
WriteHandlerPops ==
    /\ written > 0
    /\ written' = written - 1
    /\ messagequeue' = Tail(messagequeue)
    /\ UNCHANGED <<writing, wire, sendvars, recvvars>>

\* The handler: pop the chunk just written, go on with the next one.
WriteHandler ==
    /\ written > 0
    /\ written' = written - 1
    /\ messagequeue' = Tail(messagequeue)
    /\ writing' = IF Len(messagequeue') > 0
                  THEN Launch(messagequeue') ELSE writing
    /\ UNCHANGED <<wire, sendvars, recvvars>>

-----------------------------------------------------------------------------
(* The receiving work thread.                                              *)

\* recv(data, len, lamport) is called; no other call is in progress.
RecvCall(len) ==
    /\ want = 0
    /\ want' = len
    /\ UNCHANGED <<recvdata, recv_lamport, delivered, sendvars, iovars>>

\* Faulty variant: a recv() that has used up its chunk reads one more.
RecvChunkAhead ==
    /\ Size(recvdata) = 0
    /\ wire # <<>>
    /\ recvdata' = [first |-> Head(wire).first, past |-> Head(wire).past]
    /\ recv_lamport' = IF recv_lamport < Head(wire).lamport + 1
                       THEN Head(wire).lamport + 1 ELSE recv_lamport
    /\ wire' = Tail(wire)
    /\ UNCHANGED <<want, delivered, messagequeue, writing, written, sendvars>>

\* recv() needs data and has none buffered: read the next header and chunk,
\* blocking until there is one, and take the sender's clock into account.
RecvChunk ==
    /\ want > 0
    /\ Size(recvdata) = 0
    /\ wire # <<>>
    /\ recvdata' = [first |-> Head(wire).first, past |-> Head(wire).past]
    /\ recv_lamport' = IF recv_lamport < Head(wire).lamport + 1
                       THEN Head(wire).lamport + 1 ELSE recv_lamport
    /\ wire' = Tail(wire)
    /\ UNCHANGED <<want, delivered, messagequeue, writing, written, sendvars>>

\* recv() copies what it can from the buffered chunk.
RecvCopy ==
    LET amttoread == IF want > Size(recvdata) THEN Size(recvdata) ELSE want
    IN  /\ want > 0
        /\ Size(recvdata) > 0
        /\ recvdata' = [recvdata EXCEPT !.first = @ + amttoread]
        /\ delivered' = delivered + amttoread
        /\ want' = want - amttoread
        /\ UNCHANGED <<recv_lamport, sendvars, iovars>>

-----------------------------------------------------------------------------
Next ==
    \/ \E len \in Lens : Queue(len)
    \/ Send
    \/ SpuriousSend
    \/ Advance
    \/ Transmit
    \/ WriteHandler
    \/ \E len \in Lens : RecvCall(len)
    \/ RecvChunk
    \/ RecvCopy

Spec == Init /\ [][Next]_vars

\* The io_context thread runs for the whole program (prac.cpp keeps a work
\* object posted), so started writes complete and their handlers run; the
\* receiving thread is inside blocking reads whenever the protocol expects
\* data.  The sending thread owes nothing.
FairSpec ==
    /\ Spec
    /\ WF_vars(Transmit)
    /\ WF_vars(WriteHandler)
    /\ WF_vars(\E len \in Lens : RecvCall(len))
    /\ WF_vars(RecvChunk)
    /\ WF_vars(RecvCopy)

-----------------------------------------------------------------------------
TypeOK ==
    /\ send_lamport \in Nat
    /\ dataqueue \in Interval
    /\ message_lamport \in Nat \cup {None}
    /\ msgs_sent \in Nat
    /\ messagequeue \in Seq(Chunk)
    /\ writing \in Seq(Chunk)
    /\ written \in Nat
    /\ wire \in Seq(Chunk)
    /\ recvdata \in Interval
    /\ recv_lamport \in Nat
    /\ want \in Nat
    /\ delivered \in Nat
    /\ open \in BOOLEAN
    /\ clocks \in Seq(Nat)
    /\ byteclocks \in Seq(Nat)

\* mpcio.hpp:102-109, "there is an async_write currently running iff
\* messagequeue is nonempty", and there is never more than one: two writes on
\* one socket would interleave their bytes.  An async_write runs until its
\* handler has run; what it writes is the front of messagequeue.
OneAsyncWrite ==
    /\ messagequeue = <<>> => writing = <<>> /\ written = 0
    /\ messagequeue # <<>> =>
          \/ writing = <<Head(messagequeue)>> /\ written = 0
          \/ writing = <<>> /\ written = 1

\* The stream is delivered in order, without loss or duplication: the byte
\* recv() copies next is the byte that was queued next (mpcio.cpp:112-171).
InOrder == Size(recvdata) > 0 => recvdata.first = delivered

\* The chunks between send() and recv(), oldest first.
InFlight == wire \o (IF written > 0 THEN Tail(messagequeue) ELSE messagequeue)

\* mpcio.hpp:116-123: every chunk of a message, sent explicitly or not, carries
\* the clock of the message's first queue(), and a message begins at the first
\* queue() after an explicit send(), which the statistic msgs_sent counts.
MessageClock ==
    /\ msgs_sent = Len(clocks)
    /\ \A i \in 1 .. Len(InFlight) : InFlight[i].lamport = clocks[InFlight[i].msg]

\* The receiver's clock and the sender's agree on what was received, however
\* the lengths of recv() and of the chunks differ (mpcio.cpp:126-155).  As far
\* as this stream moves it, the receiver's clock is past the clock at the first
\* queue() of every message of which recv() has copied out a byte, be it in a
\* chunk that an earlier call began; and when a call has returned, it is one
\* past the latest of them: a message of which nothing was asked for, although
\* its chunk has arrived, does not count yet.
ClockOfReceived ==
    /\ \A n \in 1 .. delivered : byteclocks[n] < recv_lamport
    /\ want = 0 /\ recv_lamport > 0 =>
          \E n \in 1 .. delivered : recv_lamport = byteclocks[n] + 1

\* Whatever has been handed over by send() is eventually delivered to a
\* receiver that keeps asking: no completion is forgotten by the handler.
SentIsDelivered ==
    \A n \in 1 .. MaxBytes : (dataqueue.first >= n) ~> (delivered >= n)
=============================================================================
