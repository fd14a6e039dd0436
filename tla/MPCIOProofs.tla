----------------------------- MODULE MPCIOProofs -----------------------------
(***************************************************************************)
(* Proofs about MPCSingleIO.tla and MPCTIO.tla.                            *)
(*                                                                         *)
(* About a stream, for every set of lengths, packet size and bound: its    *)
(* type invariant, that exactly one async_write runs while messagequeue is *)
(* nonempty, that recv() delivers the bytes in the order queue() was given *)
(* them, and that every chunk carries the clock of the first queue() of    *)
(* its message, and that the receiver's clock follows the clocks of what   *)
(* recv() has delivered.  The last three speak of the two ends of the      *)
(* connection; what connects them is InFlight, the chunks between send()   *)
(* and recv().  A step leaves InFlight alone, appends the chunk that       *)
(* send() emplaces, or takes its head, and the inductive invariant says    *)
(* that its chunks are adjacent intervals that lead from what recv() has   *)
(* read to what send() has sent.                                           *)
(*                                                                         *)
(* About the clocks, for every pair of parties, every set of threads and   *)
(* every number of messages: the types of the variables, the invariant of  *)
(* the loop of sync_lamport, the lockstep of the parties, the bounds of    *)
(* the final clock, and that the loop implements the atomic maximum of     *)
(* MasterClock.tla.                                                        *)
(***************************************************************************)
EXTENDS MPCSingleIO, MPCTIO, SequenceTheorems, FiniteSetTheorems, TLAPS

-----------------------------------------------------------------------------
(* Streams.                                                                *)

\* The chunks of q are nonempty intervals that lead from byte lo to byte hi.
Chain(q, lo, hi) ==
    /\ \A i \in 1 .. Len(q) : q[i].first < q[i].past
    /\ \A i \in 1 .. Len(q) - 1 : q[i].past = q[i+1].first
    /\ q = <<>> => lo = hi
    /\ q # <<>> => q[1].first = lo /\ q[Len(q)].past = hi

\* The chunks in flight fill the gap between recvdata and dataqueue, and what
\* recv() copies next is the next byte, also when nothing is buffered.
Adjacent ==
    /\ recvdata.first = delivered
    /\ recvdata.first <= recvdata.past
    /\ dataqueue.first <= dataqueue.past
    /\ Chain(InFlight, recvdata.past, dataqueue.first)

\* Every chunk of q belongs to a message that began, and has its clock.
Stamped(q, clk) ==
    \A i \in 1 .. Len(q) : q[i].msg \in 1 .. Len(clk) /\ q[i].lamport = clk[q[i].msg]

\* The stamp kept by the sender is the recorded clock of the open message.
Stamps ==
    /\ msgs_sent = Len(clocks)
    /\ open <=> message_lamport # None
    /\ Size(dataqueue) > 0 => open
    /\ open => Len(clocks) > 0 /\ message_lamport = clocks[Len(clocks)]
    /\ Stamped(InFlight, clocks)

IInv == TypeOK /\ OneAsyncWrite /\ Adjacent /\ Stamps

-----------------------------------------------------------------------------
(* Sequences.                                                              *)

\* Moving the head of the right part to the end of the left part.
LEMMA ShiftHead ==
    ASSUME NEW S, NEW u \in Seq(S), NEW v \in Seq(S), v # <<>>
    PROVE  Append(u, Head(v)) \o Tail(v) = u \o v
OBVIOUS

\* Appending to the right part appends to the whole.
LEMMA AppendRight ==
    ASSUME NEW S, NEW u \in Seq(S), NEW v \in Seq(S), NEW c \in S
    PROVE  u \o Append(v, c) = Append(u \o v, c)
OBVIOUS

\* A sequence extended by len times the same.
LEMMA Extended ==
    ASSUME NEW s \in Seq(Nat), NEW len \in Nat, NEW x \in Nat,
           NEW t, t = s \o [i \in 1 .. len |-> x]
    PROVE  /\ t \in Seq(Nat) /\ Len(t) = Len(s) + len
           /\ \A n \in 1 .. Len(s) : t[n] = s[n]
           /\ \A n \in Len(s) + 1 .. Len(s) + len : t[n] = x
<1>1. [i \in 1 .. len |-> x] \in Seq(Nat) /\ Len([i \in 1 .. len |-> x]) = len
  OBVIOUS
<1> QED BY <1>1

\* The tail of a concatenation with a nonempty left part.
LEMMA TailLeft ==
    ASSUME NEW S, NEW u \in Seq(S), NEW v \in Seq(S), u # <<>>
    PROVE  /\ Tail(u) \o v = Tail(u \o v)
           /\ Head(u) = (u \o v)[1]
           /\ u \o v # <<>>
OBVIOUS

-----------------------------------------------------------------------------
(* Chains and stamps under the two ways a sequence of chunks changes.      *)

LEMMA ChainAppend ==
    ASSUME NEW q \in Seq(Chunk), NEW lo \in Nat, NEW hi \in Nat, Chain(q, lo, hi),
           NEW c \in Chunk, c.first = hi, c.first < c.past
    PROVE  Chain(Append(q, c), lo, c.past)
<1>1. CASE q = <<>>
  BY <1>1 DEF Chain
<1>2. CASE q # <<>>
  <2> DEFINE r == Append(q, c)
  <2>1. Len(r) = Len(q) + 1 /\ Len(q) \in Nat \ {0}
    BY <1>2
  <2>2. /\ \A i \in 1 .. Len(q) : r[i] = q[i]
        /\ r[Len(q) + 1] = c
    OBVIOUS
  <2>3. \A i \in 1 .. Len(r) : r[i].first < r[i].past
    <3> TAKE i \in 1 .. Len(r)
    <3>1. i \in 1 .. Len(q) \/ i = Len(q) + 1
      BY <2>1
    <3> QED
      BY <3>1, <2>1, <2>2 DEF Chain
  <2>4. \A i \in 1 .. Len(r) - 1 : r[i].past = r[i+1].first
    <3> TAKE i \in 1 .. Len(r) - 1
    <3>1. CASE i = Len(q)
      BY <3>1, <1>2, <2>1, <2>2 DEF Chain
    <3>2. CASE i # Len(q)
      <4>1. i \in 1 .. Len(q) - 1 /\ i \in 1 .. Len(q) /\ i + 1 \in 1 .. Len(q)
        BY <3>2, <2>1
      <4>2. r[i] = q[i] /\ r[i+1] = q[i+1]
        BY <4>1, <2>2
      <4> QED
        BY <4>1, <4>2 DEF Chain
    <3> QED
      BY <3>1, <3>2
  <2>5. r # <<>> /\ r[1].first = lo /\ r[Len(r)].past = c.past
    <3>1. r[1] = q[1] /\ r[Len(r)] = c
      BY <2>1, <2>2
    <3>2. r # <<>>
      BY AppendProperties
    <3> QED
      BY <1>2, <3>1, <3>2 DEF Chain
  <2> QED
    BY <2>3, <2>4, <2>5 DEF Chain
<1> QED
  BY <1>1, <1>2

LEMMA ChainTail ==
    ASSUME NEW q \in Seq(Chunk), q # <<>>, NEW lo \in Nat, NEW hi \in Nat, Chain(q, lo, hi)
    PROVE  /\ q[1].first = lo
           /\ lo < q[1].past
           /\ Chain(Tail(q), q[1].past, hi)
<1> DEFINE t == Tail(q)
<1>1. /\ Len(t) = Len(q) - 1 /\ Len(q) \in Nat \ {0}
      /\ \A i \in 1 .. Len(t) : t[i] = q[i+1]
  OBVIOUS
<1>2. \A i \in 1 .. Len(t) : t[i].first < t[i].past
  BY <1>1 DEF Chain
<1>3. \A i \in 1 .. Len(t) - 1 : t[i].past = t[i+1].first
  BY <1>1 DEF Chain
<1>4. t = <<>> => q[1].past = hi
  <2>1. t = <<>> => Len(t) = 0
    BY EmptySeq
  <2>2. t = <<>> => Len(q) = 1
    BY <1>1, <2>1
  <2> QED
    BY <2>2 DEF Chain
<1>5. t # <<>> => t[1].first = q[1].past /\ t[Len(t)].past = hi
  <2>1. t # <<>> => Len(t) \in Nat \ {0}
    BY <1>1
  <2> QED
    BY <1>1, <2>1 DEF Chain
<1>6. q[1].first = lo /\ lo < q[1].past
  BY <1>1 DEF Chain
<1> QED
  BY <1>2, <1>3, <1>4, <1>5, <1>6 DEF Chain

LEMMA StampedAppend ==
    ASSUME NEW q \in Seq(Chunk), NEW clk \in Seq(Nat), Stamped(q, clk),
           NEW c \in Chunk, c.msg \in 1 .. Len(clk), c.lamport = clk[c.msg]
    PROVE  Stamped(Append(q, c), clk)
BY DEF Stamped

LEMMA StampedTail ==
    ASSUME NEW q \in Seq(Chunk), q # <<>>, NEW clk \in Seq(Nat), Stamped(q, clk)
    PROVE  Stamped(Tail(q), clk)
BY DEF Stamped

LEMMA StampedClocks ==
    ASSUME NEW q \in Seq(Chunk), NEW clk \in Seq(Nat), Stamped(q, clk), NEW n \in Nat
    PROVE  Stamped(q, Append(clk, n))
BY DEF Stamped

-----------------------------------------------------------------------------
(* What the steps that move chunks do to InFlight.                         *)

LEMMA InFlightType == TypeOK /\ OneAsyncWrite => InFlight \in Seq(Chunk)
BY DEF TypeOK, OneAsyncWrite, InFlight

\* send() puts one more chunk in flight and keeps one async_write running.
LEMMA EmplaceInFlight ==
    ASSUME TypeOK, OneAsyncWrite, NEW c \in Chunk, Emplace(c)
    PROVE  /\ messagequeue' \in Seq(Chunk) /\ writing' \in Seq(Chunk)
           /\ OneAsyncWrite'
           /\ InFlight' = Append(InFlight, c)
<1>1. messagequeue' = Append(messagequeue, c) /\ written' = written /\ wire' = wire
  BY DEF Emplace
<1>2. CASE messagequeue = <<>>
  <2>1. messagequeue' = <<c>> /\ writing = <<>> /\ written = 0
    BY <1>1, <1>2 DEF OneAsyncWrite
  <2>2. writing' = <<c>>
    BY <2>1 DEF Emplace, Launch
  <2>3. InFlight = wire /\ InFlight' = wire \o <<c>>
    BY <1>1, <1>2, <2>1 DEF InFlight, TypeOK
  <2>4. OneAsyncWrite'
    BY <1>1, <2>1, <2>2 DEF OneAsyncWrite
  <2> QED
    BY <2>1, <2>2, <2>3, <2>4 DEF TypeOK
<1>3. CASE messagequeue # <<>>
  <2>1. Len(messagequeue') # 1 /\ messagequeue' # <<>>
        /\ Head(messagequeue') = Head(messagequeue)
    BY <1>1, <1>3 DEF TypeOK
  <2>2. writing' = writing
    BY <2>1 DEF Emplace
  <2>3. OneAsyncWrite'
    BY <1>1, <1>3, <2>1, <2>2 DEF OneAsyncWrite
  <2>4. messagequeue' \in Seq(Chunk)
    BY <1>1 DEF TypeOK
  <2>5. Tail(messagequeue) \in Seq(Chunk) /\ Tail(messagequeue') = Append(Tail(messagequeue), c)
    BY <1>1, <1>3, HeadTailAppend, HeadTailProperties DEF TypeOK
  <2>6. InFlight' = Append(InFlight, c)
    <3> DEFINE rest == IF written > 0 THEN Tail(messagequeue) ELSE messagequeue
    <3>1. rest \in Seq(Chunk) /\ wire \in Seq(Chunk)
      BY <2>5 DEF TypeOK
    <3>2. rest' = Append(rest, c)
      BY <1>1, <2>5
    <3>3. wire \o Append(rest, c) = Append(wire \o rest, c)
      BY <3>1, AppendRight
    <3>4. InFlight = wire \o rest /\ InFlight' = wire \o rest'
      BY <1>1 DEF InFlight
    <3> QED
      BY <3>2, <3>3, <3>4
  <2> QED
    BY <2>2, <2>3, <2>4, <2>6 DEF TypeOK
<1> QED
  BY <1>2, <1>3

\* A completed async_write moves its chunk from messagequeue to the socket,
\* and its handler accounts for it: neither changes what is in flight.
LEMMA TransmitInFlight ==
    ASSUME TypeOK, OneAsyncWrite, Transmit
    PROVE  /\ writing' \in Seq(Chunk) /\ wire' \in Seq(Chunk) /\ written' \in Nat
           /\ OneAsyncWrite'
           /\ InFlight' = InFlight
<1>1. messagequeue # <<>> /\ writing = <<Head(messagequeue)>> /\ written = 0
  BY DEF OneAsyncWrite, Transmit, TypeOK
<1>2. /\ wire' = Append(wire, Head(messagequeue)) /\ writing' = <<>> /\ written' = 1
      /\ messagequeue' = messagequeue
  BY <1>1 DEF Transmit
<1>3. InFlight' = InFlight
  BY <1>1, <1>2, ShiftHead DEF InFlight, TypeOK
<1> QED
  BY <1>1, <1>2, <1>3 DEF OneAsyncWrite, TypeOK

LEMMA HandlerInFlight ==
    ASSUME TypeOK, OneAsyncWrite, WriteHandler
    PROVE  /\ messagequeue' \in Seq(Chunk) /\ writing' \in Seq(Chunk) /\ written' \in Nat
           /\ OneAsyncWrite'
           /\ InFlight' = InFlight
<1>1. messagequeue # <<>> /\ writing = <<>> /\ written = 1
  BY DEF OneAsyncWrite, WriteHandler, TypeOK
<1>2. /\ messagequeue' = Tail(messagequeue) /\ written' = 0 /\ wire' = wire
      /\ messagequeue' \in Seq(Chunk)
  BY <1>1 DEF WriteHandler, TypeOK
<1>3. CASE messagequeue' = <<>>
  <2>1. Len(messagequeue') = 0
    BY <1>3, EmptySeq
  <2>2. writing' = <<>>
    BY <1>1, <2>1 DEF WriteHandler
  <2> QED
    BY <1>1, <1>2, <1>3, <2>2 DEF InFlight, OneAsyncWrite
<1>4. CASE messagequeue' # <<>>
  <2>1. Len(messagequeue') > 0 /\ Head(messagequeue') \in Chunk
    BY <1>2, <1>4
  <2>2. writing' = <<Head(messagequeue')>>
    BY <1>1, <2>1 DEF WriteHandler, Launch
  <2> QED
    BY <1>1, <1>2, <1>4, <2>1, <2>2 DEF InFlight, OneAsyncWrite
<1> QED
  BY <1>3, <1>4

\* recv() takes the oldest chunk in flight.
LEMMA RecvInFlight ==
    ASSUME TypeOK, OneAsyncWrite, RecvChunk
    PROVE  /\ wire' \in Seq(Chunk)
           /\ OneAsyncWrite'
           /\ InFlight # <<>> /\ Head(wire) = InFlight[1] /\ Head(wire) \in Chunk
           /\ InFlight' = Tail(InFlight)
<1> DEFINE rest == IF written > 0 THEN Tail(messagequeue) ELSE messagequeue
<1>1. rest \in Seq(Chunk)
  BY DEF TypeOK, OneAsyncWrite
<1>2. /\ wire # <<>> /\ wire' = Tail(wire) /\ messagequeue' = messagequeue
      /\ written' = written /\ writing' = writing
  BY DEF RecvChunk
<1>3. /\ Tail(wire) \o rest = Tail(wire \o rest) /\ Head(wire) = (wire \o rest)[1]
      /\ wire \o rest # <<>>
  BY <1>1, <1>2, TailLeft DEF TypeOK
<1>4. InFlight = wire \o rest /\ InFlight' = Tail(wire) \o rest
  BY <1>2 DEF InFlight
<1>5. OneAsyncWrite'
  BY <1>2 DEF OneAsyncWrite
<1>6. wire' \in Seq(Chunk) /\ Head(wire) \in Chunk
  BY <1>2, HeadTailProperties DEF TypeOK
<1> QED
  BY <1>2, <1>3, <1>4, <1>5, <1>6

-----------------------------------------------------------------------------
(* The inductive step, one lemma for each call that moves data.            *)

\* The stamp that queue() finds or makes is the clock of the open message.
Stamp == IF message_lamport = None THEN send_lamport ELSE message_lamport

LEMMA QueueStamp ==
    ASSUME IInv, NEW len \in Lens, Queue(len)
    PROVE  /\ clocks' \in Seq(Nat) /\ Len(clocks') \in Nat \ {0}
           /\ Stamp \in Nat /\ Stamp = clocks'[Len(clocks')]
           /\ byteclocks' = byteclocks \o [i \in 1 .. len |-> Stamp]
<1>1. /\ clocks' \in Seq(Nat) /\ Len(clocks') \in Nat \ {0}
      /\ Stamp \in Nat /\ Stamp = clocks'[Len(clocks')]
  BY NoneAssumption DEF Queue, IInv, TypeOK, Stamps, Stamp
<1> QED BY <1>1 DEF Queue

LEMMA QueueStep == ASSUME IInv, NEW len \in Lens, Queue(len) PROVE IInv'
<1> DEFINE data  == [dataqueue EXCEPT !.past = @ + len]
           stamp == IF message_lamport = None THEN send_lamport ELSE message_lamport
           chunk == [first |-> data.first, past |-> data.past,
                     lamport |-> stamp, msg |-> Len(clocks')]
<1>1. len \in Nat \ {0}
  BY LensAssumption
<1>2. /\ data \in Interval /\ data.first = dataqueue.first
      /\ data.first < data.past
  <2>1. dataqueue \in Interval /\ dataqueue.first <= dataqueue.past
    BY DEF IInv, TypeOK, Adjacent
  <2> QED
    BY <1>1, <2>1 DEF Interval
<1>3. /\ clocks' \in Seq(Nat) /\ Len(clocks') \in Nat \ {0}
      /\ stamp \in Nat /\ stamp = clocks'[Len(clocks')]
      /\ msgs_sent' = Len(clocks')
      /\ open' = TRUE
  BY NoneAssumption DEF Queue, IInv, TypeOK, Stamps
<1>8. byteclocks' \in Seq(Nat)
  <2>1. byteclocks \in Seq(Nat)
    BY DEF IInv, TypeOK
  <2> QED BY <1>1, <2>1, QueueStamp, Extended
<1>4. Stamped(InFlight, clocks')
  <2>1. InFlight \in Seq(Chunk) /\ Stamped(InFlight, clocks) /\ send_lamport \in Nat
        /\ clocks \in Seq(Nat)
    BY InFlightType DEF IInv, TypeOK, Stamps
  <2>2. clocks' = clocks \/ clocks' = Append(clocks, send_lamport)
    BY DEF Queue
  <2> QED
    BY <2>1, <2>2, StampedClocks
<1>5. /\ UNCHANGED <<send_lamport, recvdata, recv_lamport, want, delivered>>
  BY DEF Queue, recvvars
<1>6. CASE Size(data) <= FullPacket /\ dataqueue' = data /\ message_lamport' = stamp
           /\ UNCHANGED iovars
  <2>1. InFlight' = InFlight /\ OneAsyncWrite'
    BY <1>6 DEF iovars, InFlight, IInv, OneAsyncWrite
  <2>2. TypeOK'
    BY <1>2, <1>3, <1>5, <1>6, <1>8 DEF IInv, TypeOK, iovars
  <2>3. Adjacent'
    BY <1>2, <1>5, <1>6, <2>1 DEF IInv, Adjacent, TypeOK, Interval
  <2>4. Stamps'
    BY <1>3, <1>4, <1>6, <2>1, NoneAssumption DEF Stamps
  <2> QED
    BY <2>1, <2>2, <2>3, <2>4 DEF IInv
<1>7. CASE Size(data) > FullPacket /\ Flush(data, stamp, TRUE)
  <2>1. chunk \in Chunk
    BY <1>2, <1>3 DEF Chunk, Interval
  <2>2. Emplace(chunk) /\ dataqueue' = [first |-> data.past, past |-> data.past]
        /\ message_lamport' = stamp
    BY <1>7 DEF Flush
  <2>3. /\ messagequeue' \in Seq(Chunk) /\ writing' \in Seq(Chunk) /\ OneAsyncWrite'
        /\ InFlight' = Append(InFlight, chunk)
    BY <2>1, <2>2, EmplaceInFlight DEF IInv
  <2>4. TypeOK'
    BY <1>2, <1>3, <1>5, <1>8, <2>2, <2>3 DEF IInv, TypeOK, Emplace, Interval
  <2>5. Adjacent'
    <3>1. /\ Chain(InFlight, recvdata.past, dataqueue.first) /\ InFlight \in Seq(Chunk)
          /\ recvdata.past \in Nat /\ dataqueue.first \in Nat
          /\ recvdata.first = delivered /\ recvdata.first <= recvdata.past
      BY InFlightType DEF IInv, Adjacent, TypeOK, Interval
    <3>2. chunk.first = dataqueue.first /\ chunk.first < chunk.past /\ chunk.past = data.past
      BY <1>2
    <3>3. Chain(Append(InFlight, chunk), recvdata.past, data.past)
      BY <2>1, <3>1, <3>2, ChainAppend
    <3> QED
      BY <1>2, <1>5, <2>2, <2>3, <3>1, <3>3 DEF Adjacent, Interval
  <2>6. Stamps'
    <3>1. Stamped(InFlight', clocks')
      BY <1>3, <1>4, <2>1, <2>3, StampedAppend, InFlightType DEF IInv
    <3> QED
      BY <1>3, <2>2, <3>1, NoneAssumption DEF Stamps, Size
  <2> QED
    BY <2>3, <2>4, <2>5, <2>6 DEF IInv
<1> QED
  BY <1>6, <1>7 DEF Queue

LEMMA SendStep == ASSUME IInv, Send PROVE IInv'
<1> DEFINE chunk == [first |-> dataqueue.first, past |-> dataqueue.past,
                     lamport |-> message_lamport, msg |-> Len(clocks')]
<1>1. /\ dataqueue.first < dataqueue.past /\ dataqueue \in Interval
      /\ message_lamport \in Nat /\ message_lamport = clocks[Len(clocks)]
      /\ Len(clocks) \in Nat \ {0} /\ clocks \in Seq(Nat)
  BY DEF IInv, TypeOK, Stamps, Send, Size, Interval
<1>2. /\ UNCHANGED <<send_lamport, msgs_sent, clocks, byteclocks,
                     recvdata, recv_lamport, want, delivered>>
      /\ open' = FALSE
  BY DEF Send, recvvars
<1>3. /\ Emplace(chunk) /\ dataqueue' = [first |-> dataqueue.past, past |-> dataqueue.past]
      /\ message_lamport' = None
  BY DEF Send, Flush
<1>4. chunk \in Chunk
  BY <1>1, <1>2 DEF Chunk, Interval
<1>5. /\ messagequeue' \in Seq(Chunk) /\ writing' \in Seq(Chunk) /\ OneAsyncWrite'
      /\ InFlight' = Append(InFlight, chunk)
  BY <1>3, <1>4, EmplaceInFlight DEF IInv
<1>6. TypeOK'
  BY <1>1, <1>2, <1>3, <1>5 DEF IInv, TypeOK, Emplace, Interval
<1>7. Adjacent'
  <2>1. /\ Chain(InFlight, recvdata.past, dataqueue.first) /\ InFlight \in Seq(Chunk)
        /\ recvdata.past \in Nat /\ dataqueue.first \in Nat
        /\ recvdata.first = delivered /\ recvdata.first <= recvdata.past
    BY InFlightType DEF IInv, Adjacent, TypeOK, Interval
  <2>2. chunk.first = dataqueue.first /\ chunk.first < chunk.past
        /\ chunk.past = dataqueue.past
    BY <1>1
  <2>3. Chain(Append(InFlight, chunk), recvdata.past, dataqueue.past)
    BY <1>4, <2>1, <2>2, ChainAppend
  <2> QED
    BY <1>1, <1>2, <1>3, <1>5, <2>1, <2>3 DEF Adjacent, Interval
<1>8. Stamps'
  <2>0. Stamped(InFlight, clocks) /\ InFlight \in Seq(Chunk)
    BY InFlightType DEF IInv, Stamps
  <2>3. chunk.msg \in 1 .. Len(clocks) /\ chunk.lamport = clocks[chunk.msg]
    BY <1>1, <1>2
  <2>1. Stamped(InFlight', clocks')
    BY <1>1, <1>2, <1>4, <1>5, <2>0, <2>3, StampedAppend
  <2>2. Size(dataqueue') = 0
    BY <1>1, <1>3 DEF Size, Interval
  <2> QED
    BY <1>2, <1>3, <2>1, <2>2 DEF Stamps, IInv
<1> QED
  BY <1>5, <1>6, <1>7, <1>8 DEF IInv

LEMMA RecvChunkStep == ASSUME IInv, RecvChunk PROVE IInv'
<1>1. /\ wire' \in Seq(Chunk) /\ OneAsyncWrite'
      /\ InFlight # <<>> /\ Head(wire) = InFlight[1] /\ Head(wire) \in Chunk
      /\ InFlight' = Tail(InFlight)
  BY RecvInFlight DEF IInv
<1>2. /\ recvdata' = [first |-> Head(wire).first, past |-> Head(wire).past]
      /\ UNCHANGED <<want, delivered, messagequeue, writing, written, sendvars>>
      /\ recv_lamport' \in Nat
      /\ recvdata.first = recvdata.past
  <2>1. recvdata \in Interval /\ recv_lamport \in Nat /\ Head(wire).lamport \in Nat
    BY <1>1 DEF IInv, TypeOK, Chunk
  <2>2. recvdata.first = recvdata.past
    BY <2>1 DEF RecvChunk, Size, Interval
  <2> QED
    BY <2>1, <2>2 DEF RecvChunk
<1>3. InFlight \in Seq(Chunk) /\ clocks \in Seq(Nat) /\ recvdata \in Interval
      /\ dataqueue \in Interval
  BY InFlightType DEF IInv, TypeOK
<1>4. TypeOK'
  BY <1>1, <1>2 DEF IInv, TypeOK, sendvars, history, Chunk, Interval
<1>5. Adjacent'
  <2>1. /\ InFlight[1].first = recvdata.past /\ recvdata.past < InFlight[1].past
        /\ Chain(InFlight', InFlight[1].past, dataqueue.first)
    BY <1>1, <1>3, ChainTail DEF IInv, Adjacent, Interval
  <2>2. recvdata'.first = delivered' /\ recvdata'.first <= recvdata'.past
        /\ recvdata'.past = InFlight[1].past
    <3>1. recvdata.first = delivered
      BY DEF IInv, Adjacent
    <3>2. InFlight[1].first \in Nat /\ InFlight[1].past \in Nat
      BY <1>1 DEF Chunk
    <3> QED
      BY <1>1, <1>2, <2>1, <3>1, <3>2
  <2> QED
    BY <1>2, <2>1, <2>2 DEF Adjacent, IInv, sendvars
<1>6. Stamps'
  <2>1. Stamped(InFlight', clocks)
    BY <1>1, <1>3, StampedTail DEF IInv, Stamps
  <2> QED
    BY <1>2, <2>1 DEF IInv, Stamps, sendvars, history
<1> QED
  BY <1>1, <1>4, <1>5, <1>6 DEF IInv

LEMMA RecvCopyStep == ASSUME IInv, RecvCopy PROVE IInv'
<1> DEFINE amttoread == IF want > Size(recvdata) THEN Size(recvdata) ELSE want
<1>1. /\ amttoread \in Nat /\ amttoread <= want
      /\ amttoread <= recvdata.past - recvdata.first
      /\ recvdata \in Interval
  BY DEF RecvCopy, IInv, TypeOK, Interval, Size
<1>2. /\ recvdata' = [recvdata EXCEPT !.first = @ + amttoread]
      /\ delivered' = delivered + amttoread /\ want' = want - amttoread
      /\ UNCHANGED <<recv_lamport, sendvars, iovars>>
  BY DEF RecvCopy
<1>3. InFlight' = InFlight /\ OneAsyncWrite'
  BY <1>2 DEF iovars, InFlight, IInv, OneAsyncWrite
<1>4. TypeOK'
  <2>1. recvdata' \in Interval
    BY <1>1, <1>2 DEF Interval
  <2>2. want \in Nat /\ delivered \in Nat
    BY DEF IInv, TypeOK
  <2>3. delivered' \in Nat /\ want' \in Nat
    BY <1>1, <1>2, <2>2
  <2> QED
    BY <1>2, <2>1, <2>3 DEF IInv, TypeOK, sendvars, iovars, history
<1>5. Adjacent'
  BY <1>1, <1>2, <1>3 DEF IInv, Adjacent, TypeOK, Interval, sendvars
<1>6. Stamps'
  BY <1>2, <1>3 DEF IInv, Stamps, sendvars, history
<1> QED
  BY <1>3, <1>4, <1>5, <1>6 DEF IInv

LEMMA NextStep == ASSUME IInv, [Next]_vars PROVE IInv'
<1>1. ASSUME NEW len \in Lens, Queue(len) PROVE IInv'
  BY <1>1, QueueStep
<1>2. CASE Send
  BY <1>2, SendStep
<1>3. CASE SpuriousSend
  <2>1. /\ InFlight' = InFlight /\ OneAsyncWrite'
        /\ UNCHANGED <<send_lamport, dataqueue, msgs_sent, clocks, byteclocks,
                       iovars, recvvars>>
        /\ message_lamport' = None /\ open' = FALSE /\ Size(dataqueue) = 0
    BY <1>3 DEF SpuriousSend, iovars, InFlight, IInv, OneAsyncWrite
  <2>2. TypeOK'
    BY <2>1 DEF IInv, TypeOK, iovars, recvvars
  <2>3. Adjacent'
    BY <2>1 DEF IInv, Adjacent, recvvars
  <2>4. Stamps'
    <3>1. Size(dataqueue') = 0
      BY <2>1 DEF Size
    <3> QED
      BY <2>1, <3>1 DEF IInv, Stamps
  <2> QED
    BY <2>1, <2>2, <2>3, <2>4 DEF IInv
<1>4. CASE Advance
  <2>1. /\ InFlight' = InFlight /\ OneAsyncWrite'
        /\ UNCHANGED <<dataqueue, message_lamport, msgs_sent, history, iovars, recvvars>>
        /\ send_lamport' = send_lamport + 1
    BY <1>4 DEF Advance, iovars, InFlight, IInv, OneAsyncWrite
  <2>2. TypeOK'
    BY <2>1 DEF IInv, TypeOK, iovars, recvvars, history
  <2> QED
    BY <2>1, <2>2 DEF IInv, Adjacent, Stamps, recvvars, history
<1>5. CASE Transmit
  <2>1. /\ writing' \in Seq(Chunk) /\ wire' \in Seq(Chunk) /\ written' \in Nat
        /\ OneAsyncWrite' /\ InFlight' = InFlight
    BY <1>5, TransmitInFlight DEF IInv
  <2>2. UNCHANGED <<messagequeue, sendvars, recvvars>>
    BY <1>5 DEF Transmit
  <2> QED
    BY <2>1, <2>2 DEF IInv, TypeOK, Adjacent, Stamps, sendvars, recvvars, history
<1>6. CASE WriteHandler
  <2>1. /\ messagequeue' \in Seq(Chunk) /\ writing' \in Seq(Chunk) /\ written' \in Nat
        /\ OneAsyncWrite' /\ InFlight' = InFlight
    BY <1>6, HandlerInFlight DEF IInv
  <2>2. UNCHANGED <<wire, sendvars, recvvars>>
    BY <1>6 DEF WriteHandler
  <2> QED
    BY <2>1, <2>2 DEF IInv, TypeOK, Adjacent, Stamps, sendvars, recvvars, history
<1>7. ASSUME NEW len \in Lens, RecvCall(len) PROVE IInv'
  <2>1. /\ InFlight' = InFlight /\ OneAsyncWrite'
        /\ UNCHANGED <<recvdata, recv_lamport, delivered, sendvars, iovars>>
        /\ want' \in Nat
    BY <1>7, LensAssumption DEF RecvCall, iovars, InFlight, IInv, OneAsyncWrite
  <2> QED
    BY <2>1 DEF IInv, TypeOK, Adjacent, Stamps, sendvars, iovars, history
<1>8. CASE RecvChunk
  BY <1>8, RecvChunkStep
<1>9. CASE RecvCopy
  BY <1>9, RecvCopyStep
<1>10. CASE UNCHANGED vars
  BY <1>10 DEF vars, sendvars, iovars, recvvars, history, IInv, TypeOK, OneAsyncWrite,
               Adjacent, Stamps, InFlight
<1> QED
  BY <1>1, <1>2, <1>3, <1>4, <1>5, <1>6, <1>7, <1>8, <1>9, <1>10 DEF Next

LEMMA InitStep == Init => IInv
<1> SUFFICES ASSUME Init PROVE IInv
  OBVIOUS
<1>1. InFlight = <<>> /\ Len(InFlight) = 0 /\ Len(clocks) = 0
  BY DEF Init, InFlight
<1>2. TypeOK
  <2>1. <<>> \in Seq(Chunk) /\ <<>> \in Seq(Nat)
    BY EmptySeq
  <2>2. dataqueue \in Interval /\ recvdata \in Interval
    BY DEF Init, Interval
  <2> QED
    BY <2>1, <2>2 DEF Init, TypeOK
<1>5. OneAsyncWrite
  BY DEF Init, OneAsyncWrite
<1>3. Adjacent
  BY <1>1 DEF Init, Adjacent, Chain
<1>4. Stamps
  BY <1>1 DEF Init, Stamps, Stamped, Size
<1> QED
  BY <1>2, <1>3, <1>4, <1>5 DEF IInv

-----------------------------------------------------------------------------
THEOREM Invariance == Spec => []IInv
<1>1. Init => IInv
  BY InitStep
<1>2. IInv /\ [Next]_vars => IInv'
  BY NextStep
<1> QED
  BY <1>1, <1>2, PTL DEF Spec

\* Every variable keeps its type, whatever the lengths, packet size and bounds.
THEOREM TypeCorrect == Spec => []TypeOK
BY Invariance, PTL DEF IInv

\* mpcio.hpp:102-109 of every connection: one async_write, of the front of
\* messagequeue, while messagequeue is nonempty, and none while it is empty.
THEOREM AsyncWriteIffNonempty == Spec => []OneAsyncWrite
BY Invariance, PTL DEF IInv

\* recv() copies out the bytes in the order queue() was given them.
THEOREM DeliveredInOrder == Spec => []InOrder
<1>1. IInv => InOrder
  BY DEF IInv, Adjacent, InOrder
<1> QED
  BY <1>1, Invariance, PTL

\* Every chunk in flight carries the clock of its message's first queue().
THEOREM ChunksShareClock == Spec => []MessageClock
<1>1. IInv => MessageClock
  BY DEF IInv, Stamps, Stamped, MessageClock
<1> QED
  BY <1>1, Invariance, PTL

-----------------------------------------------------------------------------
(* The clock of the receiver.                                              *)

\* The bytes of the chunks of q have the stamps of their chunks as clocks.
Labelled(q, bc) ==
    \A i \in 1 .. Len(q) :
        /\ q[i].past <= Len(bc)
        /\ \A n \in q[i].first + 1 .. q[i].past : bc[n] = q[i].lamport

\* The latest message that the receiver's clock counts is one that recv() has
\* delivered a byte of, or the one it is about to.
Latest ==
    \/ \E n \in 1 .. delivered : recv_lamport = byteclocks[n] + 1
    \/ /\ want > 0 /\ recvdata.first < recvdata.past
       /\ recv_lamport = byteclocks[delivered + 1] + 1

\* What connects byteclocks with the stamps on the way, and the receiver's clock
\* with all that was read, delivered or not.
Labels ==
    /\ dataqueue.past = Len(byteclocks)
    /\ \A n \in dataqueue.first + 1 .. dataqueue.past : byteclocks[n] = message_lamport
    /\ Labelled(InFlight, byteclocks)
    /\ recvdata.past <= Len(byteclocks)
    /\ \A n \in 1 .. recvdata.past : byteclocks[n] < recv_lamport
    /\ recv_lamport > 0 => Latest

LEMMA LabelledExtended ==
    ASSUME NEW q \in Seq(Chunk), NEW bc \in Seq(Nat), Labelled(q, bc),
           NEW bd \in Seq(Nat), Len(bc) <= Len(bd),
           \A n \in 1 .. Len(bc) : bd[n] = bc[n]
    PROVE  Labelled(q, bd)
<1> SUFFICES ASSUME NEW i \in 1 .. Len(q)
             PROVE  /\ q[i].past <= Len(bd)
                    /\ \A n \in q[i].first + 1 .. q[i].past : bd[n] = q[i].lamport
  BY Zenon DEF Labelled
<1>1. /\ q[i].past <= Len(bc)
      /\ \A n \in q[i].first + 1 .. q[i].past : bc[n] = q[i].lamport
  BY Zenon DEF Labelled
<1>2. q[i] \in Chunk
  OBVIOUS
<1>3. /\ q[i].first \in Nat /\ q[i].past \in Nat
      /\ Len(bc) \in Nat /\ Len(bd) \in Nat
  BY <1>2 DEF Chunk
<1> QED BY <1>1, <1>3

LEMMA LabelledAppend ==
    ASSUME NEW q \in Seq(Chunk), NEW bc \in Seq(Nat), Labelled(q, bc),
           NEW c \in Chunk, c.past <= Len(bc),
           \A n \in c.first + 1 .. c.past : bc[n] = c.lamport
    PROVE  Labelled(Append(q, c), bc)
BY DEF Labelled

LEMMA LabelledTail ==
    ASSUME NEW q \in Seq(Chunk), q # <<>>, NEW bc \in Seq(Nat), Labelled(q, bc)
    PROVE  Labelled(Tail(q), bc)
BY DEF Labelled

\* queue() gives its bytes the stamp of the open message.
LEMMA QueueLabels == ASSUME IInv, IInv', Labels, NEW len \in Lens, Queue(len) PROVE Labels'
<1> DEFINE data  == [dataqueue EXCEPT !.past = @ + len]
           chunk == [first |-> data.first, past |-> data.past,
                     lamport |-> Stamp, msg |-> Len(clocks')]
<1>1. /\ len \in Nat \ {0}
      /\ dataqueue \in Interval /\ dataqueue.first <= dataqueue.past
      /\ dataqueue.first \in Nat /\ dataqueue.past \in Nat
      /\ data.first = dataqueue.first /\ data.past = dataqueue.past + len
      /\ byteclocks \in Seq(Nat) /\ InFlight \in Seq(Chunk)
      /\ recvdata.past \in Nat /\ recvdata.first \in Nat /\ delivered = recvdata.first
      /\ recvdata.first <= recvdata.past
  BY LensAssumption, InFlightType DEF IInv, TypeOK, Adjacent, Interval
<1>2. /\ Len(clocks') \in Nat /\ Stamp \in Nat
      /\ byteclocks' = byteclocks \o [i \in 1 .. len |-> Stamp]
  BY QueueStamp
<1>3. /\ byteclocks' \in Seq(Nat) /\ Len(byteclocks') = Len(byteclocks) + len
      /\ \A n \in 1 .. Len(byteclocks) : byteclocks'[n] = byteclocks[n]
      /\ \A n \in Len(byteclocks) + 1 .. Len(byteclocks) + len : byteclocks'[n] = Stamp
  <2>1. len \in Nat /\ byteclocks \in Seq(Nat)
    BY <1>1
  <2> QED BY <2>1, <1>2, Extended
<1>4. \A n \in data.first + 1 .. data.past : byteclocks'[n] = Stamp
  <2> SUFFICES ASSUME NEW n \in data.first + 1 .. data.past PROVE byteclocks'[n] = Stamp
    OBVIOUS
  <2>1. CASE n > dataqueue.past
    BY <1>1, <1>3, <2>1 DEF Labels
  <2>2. CASE n <= dataqueue.past
    <3>1. n \in dataqueue.first + 1 .. dataqueue.past /\ n \in 1 .. Len(byteclocks)
      BY <1>1, <2>2 DEF Labels
    <3>2. message_lamport # None
      BY <1>1, <3>1 DEF IInv, Stamps, Size
    <3> QED BY <1>3, <3>1, <3>2 DEF Labels, Stamp
  <2> QED BY <1>1, <2>1, <2>2
<1>5. Labelled(InFlight, byteclocks')
  BY <1>1, <1>3, LabelledExtended DEF Labels
<1>6. UNCHANGED <<recvdata, recv_lamport, want, delivered>>
  BY DEF Queue, recvvars
<1>7. /\ recvdata'.past <= Len(byteclocks')
      /\ \A n \in 1 .. recvdata'.past : byteclocks'[n] < recv_lamport'
      /\ recv_lamport' > 0 => Latest'
  <2>1. recvdata.past <= Len(byteclocks) /\ Len(byteclocks) \in Nat
    BY <1>1 DEF Labels
  <2>2. \A n \in 1 .. recvdata.past : byteclocks'[n] = byteclocks[n]
    BY <1>1, <1>3, <2>1
  <2>3. recv_lamport > 0 => Latest'
    <3> SUFFICES ASSUME Latest PROVE Latest'
      BY DEF Labels
    <3>1. ASSUME NEW n \in 1 .. delivered, recv_lamport = byteclocks[n] + 1 PROVE Latest'
      <4>1. n \in 1 .. recvdata.past
        BY <1>1
      <4> QED BY <1>6, <2>2, <3>1, <4>1 DEF Latest
    <3>2. CASE want > 0 /\ recvdata.first < recvdata.past
               /\ recv_lamport = byteclocks[delivered + 1] + 1
      <4>1. delivered + 1 \in 1 .. recvdata.past
        BY <1>1, <3>2
      <4> QED BY <1>6, <2>2, <3>2, <4>1 DEF Latest
    <3> QED BY <3>1, <3>2 DEF Latest
  <2>4. recvdata'.past <= Len(byteclocks')
    BY <1>1, <1>3, <1>6, <2>1
  <2>5. \A n \in 1 .. recvdata'.past : byteclocks'[n] < recv_lamport'
    BY <1>6, <2>2 DEF Labels
  <2> QED BY <1>6, <2>3, <2>4, <2>5
<1>8. CASE dataqueue' = data /\ message_lamport' = Stamp /\ UNCHANGED iovars
  <2>1. InFlight' = InFlight
    BY <1>8 DEF iovars, InFlight
  <2> QED BY <1>1, <1>3, <1>4, <1>5, <1>7, <1>8, <2>1 DEF Labels
<1>9. CASE Flush(data, Stamp, TRUE)
  <2>1. chunk \in Chunk
    BY <1>1, <1>2 DEF Chunk, Interval
  <2>2. /\ InFlight' = Append(InFlight, chunk)
        /\ dataqueue' = [first |-> data.past, past |-> data.past]
    BY <1>9, <2>1, EmplaceInFlight DEF Flush, IInv
  <2>3. data.past = Len(byteclocks')
    BY <1>1, <1>3 DEF Labels
  <2>4. Labelled(InFlight', byteclocks')
    <3>1. /\ chunk.first = data.first /\ chunk.past = data.past /\ chunk.lamport = Stamp
          /\ chunk.past <= Len(byteclocks')
      BY <1>1, <2>3
    <3> HIDE DEF chunk, data
    <3> QED BY <1>1, <1>3, <1>4, <1>5, <2>1, <2>2, <3>1, LabelledAppend
  <2>5. \A n \in dataqueue'.first + 1 .. dataqueue'.past : byteclocks'[n] = message_lamport'
    BY <1>1, <2>2
  <2> QED BY <1>7, <2>2, <2>3, <2>4, <2>5 DEF Labels
<1> QED BY <1>8, <1>9 DEF Queue, Stamp

\* send() stamps what is queued with the clock of its bytes.
LEMMA SendLabels == ASSUME IInv, IInv', Labels, Send PROVE Labels'
<1> DEFINE chunk == [first |-> dataqueue.first, past |-> dataqueue.past,
                     lamport |-> message_lamport, msg |-> Len(clocks')]
<1>1. /\ dataqueue.first < dataqueue.past /\ dataqueue \in Interval
      /\ dataqueue.first \in Nat /\ dataqueue.past \in Nat
      /\ message_lamport \in Nat /\ Len(clocks') \in Nat
      /\ byteclocks \in Seq(Nat) /\ InFlight \in Seq(Chunk)
  <2>1. dataqueue.first \in Nat /\ dataqueue.past \in Nat /\ dataqueue \in Interval
    BY DEF IInv, TypeOK, Interval
  <2>2. dataqueue.first < dataqueue.past
    BY <2>1 DEF Send, Size
  <2>3. message_lamport \in Nat
    BY DEF IInv, TypeOK, Stamps, Send
  <2>4. Len(clocks') \in Nat /\ byteclocks \in Seq(Nat) /\ InFlight \in Seq(Chunk)
    BY InFlightType DEF IInv, TypeOK, Send
  <2> QED BY <2>1, <2>2, <2>3, <2>4
<1>2. UNCHANGED <<byteclocks, recvdata, recv_lamport, want, delivered>>
  BY DEF Send, recvvars
<1>3. chunk \in Chunk
  BY <1>1 DEF Chunk
<1>4. /\ InFlight' = Append(InFlight, chunk)
      /\ dataqueue' = [first |-> dataqueue.past, past |-> dataqueue.past]
  BY <1>3, EmplaceInFlight DEF Send, Flush, IInv
<1>5. Labelled(InFlight', byteclocks')
  <2>1. /\ chunk.first = dataqueue.first /\ chunk.past = dataqueue.past
        /\ chunk.lamport = message_lamport /\ chunk.past <= Len(byteclocks)
    BY <1>1 DEF Labels
  <2> HIDE DEF chunk
  <2> QED BY <1>1, <1>2, <1>3, <1>4, <2>1, LabelledAppend DEF Labels
<1>6. \A n \in dataqueue'.first + 1 .. dataqueue'.past : byteclocks'[n] = message_lamport'
  BY <1>1, <1>4
<1> QED BY <1>1, <1>2, <1>4, <1>5, <1>6 DEF Labels, Latest

\* recv() reads a chunk whose first byte it is about to deliver: its clock is
\* from now on past that of the chunk, and nothing but that may have moved it.
LEMMA RecvChunkLabels == ASSUME IInv, IInv', Labels, RecvChunk PROVE Labels'
<1> DEFINE c == InFlight[1]
<1>1. /\ InFlight # <<>> /\ Head(wire) = c /\ c \in Chunk /\ InFlight \in Seq(Chunk)
      /\ InFlight' = Tail(InFlight)
  BY RecvInFlight, InFlightType DEF IInv
<1>2. /\ c.first = recvdata.past /\ c.first < c.past
      /\ c.first \in Nat /\ c.past \in Nat /\ c.lamport \in Nat
  <2>1. recvdata.past \in Nat /\ dataqueue.first \in Nat
    BY DEF IInv, TypeOK, Interval
  <2> QED BY <1>1, <2>1, ChainTail DEF IInv, Adjacent, Chunk
<1>3. /\ recvdata' = [first |-> c.first, past |-> c.past]
      /\ recv_lamport' = IF recv_lamport < c.lamport + 1 THEN c.lamport + 1 ELSE recv_lamport
      /\ want' = want /\ want > 0 /\ UNCHANGED <<delivered, sendvars>>
  BY <1>1 DEF RecvChunk
<1>4. /\ recvdata.first = recvdata.past /\ delivered = recvdata.past
      /\ recv_lamport \in Nat /\ delivered \in Nat
  BY DEF RecvChunk, Size, IInv, TypeOK, Interval, Adjacent
<1>5. /\ byteclocks \in Seq(Nat) /\ byteclocks' = byteclocks
      /\ dataqueue' = dataqueue /\ message_lamport' = message_lamport
  BY <1>3 DEF IInv, TypeOK, sendvars, history
<1>6. /\ c.past <= Len(byteclocks)
      /\ \A n \in c.first + 1 .. c.past : byteclocks[n] = c.lamport
  <2>1. 1 \in 1 .. Len(InFlight)
    BY <1>1
  <2> QED BY <2>1 DEF Labels, Labelled
<1>7. Labelled(InFlight', byteclocks')
  BY <1>1, <1>5, LabelledTail DEF Labels
<1> HIDE DEF c
<1>8. \A n \in 1 .. recvdata'.past : byteclocks'[n] < recv_lamport'
  <2> SUFFICES ASSUME NEW n \in 1 .. c.past PROVE byteclocks[n] < recv_lamport'
    BY <1>3, <1>5
  <2>1. byteclocks[n] \in Nat
    BY <1>2, <1>5, <1>6
  <2>2. CASE n \in 1 .. recvdata.past
    BY <1>2, <1>3, <1>4, <2>1, <2>2 DEF Labels
  <2>3. CASE n \in c.first + 1 .. c.past
    BY <1>2, <1>3, <1>4, <1>6, <2>1, <2>3
  <2> QED BY <1>2, <2>2, <2>3
<1>9. recv_lamport' > 0 => Latest'
  <2>1. CASE recv_lamport < c.lamport + 1
    <3>1. delivered + 1 \in c.first + 1 .. c.past
      BY <1>2, <1>4
    <3>2. recv_lamport' = byteclocks[delivered + 1] + 1
      BY <1>3, <1>6, <2>1, <3>1
    <3> QED BY <1>2, <1>3, <1>5, <3>2 DEF Latest
  <2>2. CASE ~ (recv_lamport < c.lamport + 1)
    <3>1. recv_lamport' = recv_lamport
      BY <1>3, <2>2
    <3>2. recv_lamport > 0 => \E n \in 1 .. delivered : recv_lamport = byteclocks[n] + 1
      BY <1>4 DEF Labels, Latest
    <3> QED BY <1>3, <1>5, <3>1, <3>2 DEF Latest
  <2> QED BY <2>1, <2>2
<1>10. recvdata'.past <= Len(byteclocks')
  BY <1>3, <1>5, <1>6
<1> QED BY <1>5, <1>7, <1>8, <1>9, <1>10 DEF Labels

\* recv() copies at least one byte of the chunk.
LEMMA RecvCopyLabels == ASSUME IInv, IInv', Labels, RecvCopy PROVE Labels'
<1> DEFINE amttoread == IF want > Size(recvdata) THEN Size(recvdata) ELSE want
<1>1. /\ recvdata.first \in Nat /\ recvdata.past \in Nat /\ delivered = recvdata.first
      /\ want \in Nat /\ want > 0 /\ recvdata.first < recvdata.past
  <2>1. /\ recvdata.first \in Nat /\ recvdata.past \in Nat /\ delivered = recvdata.first
        /\ want \in Nat
    BY DEF IInv, TypeOK, Interval, Adjacent
  <2>2. want > 0 /\ recvdata.first < recvdata.past
    BY <2>1 DEF RecvCopy, Size
  <2> QED BY <2>1, <2>2
<1>2. amttoread \in Nat \ {0} /\ amttoread <= recvdata.past - recvdata.first
  BY <1>1 DEF Size
<1>3. /\ recvdata'.past = recvdata.past
      /\ delivered' = delivered + amttoread
      /\ UNCHANGED <<recv_lamport, sendvars, iovars>>
  BY DEF RecvCopy, IInv, TypeOK, Interval
<1>4. /\ InFlight' = InFlight /\ byteclocks' = byteclocks
      /\ dataqueue' = dataqueue /\ message_lamport' = message_lamport
      /\ recv_lamport' = recv_lamport
  BY <1>3 DEF iovars, InFlight, sendvars, history
<1> HIDE DEF amttoread
<1>5. Latest => Latest'
  <2>1. ASSUME NEW n \in 1 .. delivered, recv_lamport = byteclocks[n] + 1 PROVE Latest'
    <3>1. n \in 1 .. delivered'
      BY <1>1, <1>2, <1>3
    <3> QED BY <1>4, <2>1, <3>1 DEF Latest
  <2>2. CASE recv_lamport = byteclocks[delivered + 1] + 1
    <3>1. delivered + 1 \in 1 .. delivered'
      BY <1>1, <1>2, <1>3
    <3> QED BY <1>4, <2>2, <3>1 DEF Latest
  <2> QED BY <2>1, <2>2 DEF Latest
<1> QED BY <1>3, <1>4, <1>5 DEF Labels

LEMMA NextLabels == ASSUME IInv, IInv', Labels, [Next]_vars PROVE Labels'
<1>1. ASSUME NEW len \in Lens, RecvCall(len) PROVE Labels'
  <2>1. /\ InFlight' = InFlight
        /\ UNCHANGED <<recvdata, recv_lamport, delivered, sendvars>>
        /\ want = 0 /\ want' = len
    BY <1>1 DEF RecvCall, iovars, InFlight
  <2>2. Latest => Latest'
    BY <2>1 DEF Latest, sendvars, history
  <2> QED BY <2>1, <2>2 DEF Labels, sendvars, history
<1>2. CASE SpuriousSend
  <2>1. /\ InFlight' = InFlight /\ Size(dataqueue) = 0
        /\ UNCHANGED <<dataqueue, byteclocks, recvvars>>
    BY <1>2 DEF SpuriousSend, iovars, InFlight
  <2>2. \A n \in dataqueue.first + 1 .. dataqueue.past : FALSE
    <3>1. dataqueue.first \in Nat /\ dataqueue.past \in Nat
      BY DEF IInv, TypeOK, Interval
    <3> QED BY <2>1, <3>1 DEF Size
  <2> QED BY <2>1, <2>2 DEF Labels, Latest, recvvars
<1>3. CASE \/ Advance \/ Transmit \/ WriteHandler \/ UNCHANGED vars
  <2>1. InFlight' = InFlight
    <3>1. CASE Advance \/ UNCHANGED vars
      BY <3>1 DEF Advance, vars, iovars, InFlight
    <3> QED BY <1>3, <3>1, TransmitInFlight, HandlerInFlight DEF IInv
  <2>2. UNCHANGED <<dataqueue, message_lamport, byteclocks, recvvars>>
    BY <1>3 DEF Advance, Transmit, WriteHandler, vars, sendvars, history
  <2> QED BY <2>1, <2>2 DEF Labels, Latest, recvvars
<1> QED BY <1>1, <1>2, <1>3, QueueLabels, SendLabels, RecvChunkLabels, RecvCopyLabels
        DEF Next

\* For any lengths of the calls at both ends and any packet size, the receiver's
\* clock is past the clock of every message that recv() has delivered a byte of
\* and, between calls, one past the latest of these (mpcio.cpp:32-68, 126-155).
THEOREM ClockFollowsReceived == Spec => []ClockOfReceived
<1>1. Init => Labels
  <2> SUFFICES ASSUME Init PROVE Labels
    OBVIOUS
  <2>1. InFlight = <<>> /\ Len(InFlight) = 0 /\ Len(byteclocks) = 0
    BY DEF Init, InFlight
  <2> QED BY <2>1 DEF Init, Labels, Labelled
<1>2. IInv /\ IInv' /\ Labels /\ [Next]_vars => Labels'
  BY NextLabels
<1>3. IInv /\ Labels => ClockOfReceived
  <2> SUFFICES ASSUME IInv, Labels PROVE ClockOfReceived
    OBVIOUS
  <2>1. /\ delivered \in Nat /\ recvdata.past \in Nat /\ delivered <= recvdata.past
        /\ want \in Nat
    BY DEF IInv, TypeOK, Adjacent, Interval
  <2>2. \A n \in 1 .. delivered : n \in 1 .. recvdata.past
    BY <2>1
  <2>3. \A n \in 1 .. delivered : byteclocks[n] < recv_lamport
    BY <2>2 DEF Labels
  <2>4. want = 0 /\ recv_lamport > 0 =>
            \E n \in 1 .. delivered : recv_lamport = byteclocks[n] + 1
    BY <2>1 DEF Labels, Latest
  <2> QED BY <2>3, <2>4 DEF ClockOfReceived
<1> QED BY <1>1, <1>2, <1>3, Invariance, PTL DEF Spec

-----------------------------------------------------------------------------
(* Clocks of the MPCTIOs.                                                  *)

\* The types, as far as the proofs about clocks need them.
ClockTypes ==
    /\ lamport \in [Parties -> Nat]
    /\ pc \in [Tio -> {"construct", "send", "recv", "load", "cas", "done"}]
    /\ iter \in [Tio -> Nat]
    /\ thread_lamport \in [Tio -> Nat]
    /\ old_lamport \in [Tio -> Nat]
    /\ new_lamport \in [Tio -> Nat]
    /\ channel \in [Tio -> Seq(Nat)]

\* What the refinement needs of a state.  NIters does not matter here: the
\* loop is an atomic maximum whatever the tasks exchange.
TIOInv == ClockTypes /\ LoopCovers

\* There is another party.
LEMMA OtherParty ==
    ASSUME NEW p
    PROVE  \E q \in Parties : q # p
<1>1. ~ (Parties \subseteq {p})
  <2>1. SUFFICES ASSUME Parties \subseteq {p} PROVE FALSE
    OBVIOUS
  <2>2. Cardinality({p}) = 1 /\ IsFiniteSet({p})
    BY FS_Singleton
  <2>3. Cardinality(Parties) <= 1
    BY <2>1, <2>2, FS_Subset
  <2> QED BY <2>3, PartiesAssumption
<1> QED BY <1>1

\* The other end of a connection exists and is another MPCTIO.
LEMMA PeerInTio ==
    ASSUME NEW w \in Tio
    PROVE  Peer(w) \in Tio
<1>1. PICK p \in Parties : p # w[1]
  BY OtherParty
<1> DEFINE other == CHOOSE q \in Parties : q # w[1]
<1>2. other \in Parties
  BY <1>1
<1>3. w[2] \in Threads
  BY DEF Tio
<1>4. Peer(w) = <<other, w[2]>>
  BY DEF Peer
<1> HIDE DEF other
<1> QED BY <1>2, <1>3, <1>4 DEF Tio

LEMMA InitInvariant == TIOInit => TIOInv
BY DEF TIOInit, TIOInv, ClockTypes, LoopCovers, Tio

LEMMA TypesPreserved ==
    ASSUME TIOInv, [TIONext]_tiovars
    PROVE  ClockTypes'
<1> USE DEF TIOInv, ClockTypes, Goto
<1>1. CASE UNCHANGED tiovars
  BY <1>1 DEF tiovars
<1>2. ASSUME NEW w \in Tio, Step(w) PROVE ClockTypes'
  <2>0. w[1] \in Parties /\ NIters \in Nat
    BY NItersAssumption DEF Tio
  <2>1. CASE Construct(w)
    BY <2>0, <2>1 DEF Construct
  <2>2. CASE SendMessage(w)
    <3>1. Peer(w) \in Tio
      BY PeerInTio
    <3>2. Append(channel[Peer(w)], thread_lamport[w]) \in Seq(Nat)
      BY <3>1
    <3>3. channel' \in [Tio -> Seq(Nat)]
      BY <2>2, <3>1, <3>2 DEF SendMessage
    <3> QED BY <2>2, <3>3 DEF SendMessage
  <2>3. CASE RecvMessage(w)
    <3>1. Head(channel[w]) \in Nat /\ Tail(channel[w]) \in Seq(Nat)
      BY <2>3 DEF RecvMessage
    <3>2. Larger(thread_lamport[w], Head(channel[w]) + 1) \in Nat
      BY <3>1 DEF Larger
    <3>3. thread_lamport' \in [Tio -> Nat] /\ channel' \in [Tio -> Seq(Nat)]
      BY <2>3, <3>1, <3>2 DEF RecvMessage
    <3>4. iter' \in [Tio -> Nat]
      BY <2>3 DEF RecvMessage
    <3>5. (IF iter'[w] < NIters THEN "send" ELSE "load") \in {"send", "load"}
      OBVIOUS
    <3>6. pc' \in [Tio -> {"construct", "send", "recv", "load", "cas", "done"}]
      BY <2>3, <3>5 DEF RecvMessage
    <3> QED BY <2>3, <3>3, <3>4, <3>6 DEF RecvMessage
  <2>4. CASE Load(w)
    BY <2>0, <2>4 DEF Load
  <2>5. CASE CompareExchange(w)
    BY <2>0, <2>5 DEF CompareExchange, Larger
  <2>6. CASE CompareExchangeFails(w)
    BY <2>0, <2>6 DEF CompareExchangeFails, Larger
  <2> QED BY <1>2, <2>1, <2>2, <2>3, <2>4, <2>5, <2>6 DEF Step
<1>3. CASE Joined
  BY <1>3 DEF Joined, tiovars
<1> QED BY <1>1, <1>2, <1>3 DEF TIONext

LEMMA LoopPreserved ==
    ASSUME TIOInv, [TIONext]_tiovars
    PROVE  LoopCovers'
<1>1. ClockTypes'
  BY TypesPreserved
<1> USE DEF TIOInv, ClockTypes, LoopCovers, Goto
<1>2. CASE UNCHANGED tiovars
  BY <1>2 DEF tiovars
<1>3. ASSUME NEW v \in Tio, Step(v), NEW w \in Tio, pc'[w] = "cas"
      PROVE  /\ thread_lamport'[w] <= Larger(new_lamport'[w], old_lamport'[w])
             /\ Larger(new_lamport'[w], old_lamport'[w])
                  = Larger(thread_lamport'[w], old_lamport'[w])
             /\ old_lamport'[w] <= lamport'[w[1]]
  <2>0. v[1] \in Parties /\ w[1] \in Parties
    BY DEF Tio
  <2>1. CASE Construct(v)
    BY <1>3, <2>0, <2>1 DEF Construct
  <2>2. CASE SendMessage(v)
    BY <1>3, <2>0, <2>2 DEF SendMessage
  <2>3. CASE RecvMessage(v)
    <3>1. w # v
      BY <1>3, <2>3 DEF RecvMessage
    <3> QED BY <1>3, <2>0, <2>3, <3>1 DEF RecvMessage
  <2>4. CASE Load(v)
    BY <1>3, <2>0, <2>4 DEF Load, Larger
  <2>5. CASE CompareExchange(v)
    <3>1. w # v
      BY <1>3, <2>5 DEF CompareExchange
    <3>2. lamport[w[1]] <= lamport'[w[1]]
      BY <2>0, <2>5 DEF CompareExchange, Larger
    <3> QED BY <1>3, <2>0, <2>5, <3>1, <3>2 DEF CompareExchange, Larger
  <2>6. CASE CompareExchangeFails(v)
    BY <1>3, <2>0, <2>6 DEF CompareExchangeFails, Larger
  <2> QED BY <1>3, <2>1, <2>2, <2>3, <2>4, <2>5, <2>6 DEF Step
<1>4. CASE Joined
  BY <1>4 DEF Joined, tiovars
<1> QED BY <1>2, <1>3, <1>4 DEF TIONext

THEOREM TIOInvariance == TIOSpec => []TIOInv
<1>1. TIOInv /\ [TIONext]_tiovars => TIOInv'
  BY TypesPreserved, LoopPreserved DEF TIOInv
<1> QED BY InitInvariant, <1>1, PTL DEF TIOSpec

\* While a thread is in the loop of sync_lamport (mpcio.cpp:500-518), what it
\* is about to store is the maximum of its own clock and of the value of the
\* master clock it compares with.
THEOREM LoopInvariant == TIOSpec => []LoopCovers
BY TIOInvariance, PTL DEF TIOInv

\* What makes lockstep inductive: only a task that has messages left to
\* exchange is at the exchange.
ToExchange == \A w \in Tio : pc[w] \in {"construct", "send", "recv"} => iter[w] < NIters

\* The parties are two.
LEMMA TwoParties ==
    ASSUME NEW a \in Parties, NEW b \in Parties, a # b
    PROVE  Parties = {a, b}
<1>1. SUFFICES ASSUME NEW r \in Parties, r # a, r # b PROVE FALSE
  OBVIOUS
<1>2. Cardinality({a}) = 1 /\ IsFiniteSet({a})
  BY FS_Singleton
<1>3. b \notin {a} /\ r \notin {a} \cup {b}
  BY <1>1
<1>4. Cardinality({a} \cup {b}) = Cardinality({a}) + 1 /\ IsFiniteSet({a} \cup {b})
  BY <1>2, <1>3, FS_AddElement
<1>5. Cardinality(({a} \cup {b}) \cup {r}) = Cardinality({a} \cup {b}) + 1
  BY <1>3, <1>4, FS_AddElement
<1>6. ({a} \cup {b}) \cup {r} \subseteq Parties
  BY <1>1
<1>7. Cardinality(({a} \cup {b}) \cup {r}) <= Cardinality(Parties)
  BY <1>6, FS_Subset, PartiesAssumption
<1> QED BY <1>2, <1>4, <1>5, <1>7, PartiesAssumption

\* The two ends of a connection are each other's peers.
LEMMA PeerOfPeer ==
    ASSUME NEW w \in Tio
    PROVE  Peer(Peer(w)) = w /\ Peer(w) # w
<1>1. PICK p, q : Parties = {p, q} /\ p # q
  <2>1. PICK p \in Parties : p # w[1]
    BY OtherParty
  <2> QED BY <2>1, TwoParties DEF Tio
<1>2. w = <<w[1], w[2]>> /\ w[1] \in {p, q}
  BY <1>1 DEF Tio
<1>3. \A r \in {p, q} : (CHOOSE o \in Parties : o # r) = IF r = p THEN q ELSE p
  BY <1>1
<1> QED BY <1>1, <1>2, <1>3 DEF Peer

LEMMA CountsPreserved ==
    ASSUME TIOTypeOK, ToExchange, [TIONext]_tiovars
    PROVE  (iter \in [Tio -> 0 .. NIters] /\ ToExchange)'
<1> USE DEF TIOTypeOK, ToExchange, Goto
<1>1. CASE UNCHANGED tiovars \/ Joined
  BY <1>1 DEF Joined, tiovars
<1>2. ASSUME NEW w \in Tio, Step(w) PROVE (iter \in [Tio -> 0 .. NIters] /\ ToExchange)'
  <2>0. NIters \in Nat
    BY NItersAssumption
  <2>1. CASE RecvMessage(w)
    <3>1. iter[w] + 1 \in 0 .. NIters
      BY <2>0, <2>1 DEF RecvMessage
    <3> QED BY <2>1, <3>1 DEF RecvMessage
  <2>2. CASE \/ Construct(w) \/ SendMessage(w) \/ Load(w)
             \/ CompareExchange(w) \/ CompareExchangeFails(w)
    BY <2>2 DEF Construct, SendMessage, Load, CompareExchange, CompareExchangeFails
  <2> QED BY <1>2, <2>1, <2>2 DEF Step
<1> QED BY <1>1, <1>2 DEF TIONext

\* A message is counted at its sender, and then at its receiver.
LEMMA LockstepPreserved ==
    ASSUME ClockTypes, ClockTypes', Lockstep, [TIONext]_tiovars
    PROVE  Lockstep'
<1> USE DEF ClockTypes, Goto
<1>1. CASE UNCHANGED tiovars \/ Joined
  BY <1>1 DEF Joined, tiovars, Lockstep, Sent
<1>2. ASSUME NEW w \in Tio, Step(w)
      PROVE  \A u \in Tio : Sent(Peer(u))' = iter'[u] + Len(channel'[u])
  <2> TAKE u \in Tio
  <2>0. /\ Peer(u) \in Tio /\ Peer(w) \in Tio
        /\ Peer(Peer(u)) = u /\ Peer(Peer(w)) = w /\ Peer(w) # w
        /\ Sent(Peer(u)) = iter[u] + Len(channel[u])
    BY PeerInTio, PeerOfPeer DEF Lockstep
  <2>1. CASE SendMessage(w)
    <3>1. CASE u = Peer(w)
      <4>1. Len(channel'[u]) = Len(channel[u]) + 1
        BY <2>0, <2>1, <3>1 DEF SendMessage
      <4>2. Sent(w)' = Sent(w) + 1 /\ iter' = iter
        BY <2>1 DEF SendMessage, Sent
      <4>3. Sent(Peer(u))' = Sent(w)' /\ Sent(Peer(u)) = Sent(w)
        BY <2>0, <3>1 DEF Sent
      <4>4. iter[u] \in Nat /\ Len(channel[u]) \in Nat
        OBVIOUS
      <4> QED BY <2>0, <4>1, <4>2, <4>3, <4>4
    <3>2. CASE u # Peer(w)
      <4>1. Peer(u) # w
        BY <2>0, <3>2
      <4> QED BY <2>0, <2>1, <3>2, <4>1 DEF SendMessage, Sent
    <3> QED BY <3>1, <3>2
  <2>2. CASE RecvMessage(w)
    <3>1. \A v \in Tio : Sent(v)' = Sent(v)
      <4> TAKE v \in Tio
      <4>1. CASE v = w
        <5>1. /\ pc'[w] # "recv" /\ pc[w] = "recv"
              /\ iter'[w] = iter[w] + 1 /\ iter[w] \in Nat
          BY <2>2 DEF RecvMessage
        <5> HIDE DEF ClockTypes
        <5> QED BY <4>1, <5>1 DEF Sent
      <4>2. CASE v # w
        BY <2>2, <4>2 DEF RecvMessage, Sent
      <4> QED BY <4>1, <4>2
    <3>2. iter'[u] + Len(channel'[u]) = iter[u] + Len(channel[u])
      <4>1. CASE u = w
        <5>1. Len(Tail(channel[w])) = Len(channel[w]) - 1 /\ Len(channel[w]) \in Nat
          BY <2>2 DEF RecvMessage
        <5>2. iter'[w] = iter[w] + 1 /\ iter[w] \in Nat
          BY <2>2 DEF RecvMessage
        <5>3. channel'[w] = Tail(channel[w])
          BY <2>2 DEF RecvMessage
        <5> HIDE DEF ClockTypes
        <5> QED BY <4>1, <5>1, <5>2, <5>3
      <4>2. CASE u # w
        BY <2>2, <4>2 DEF RecvMessage
      <4> QED BY <4>1, <4>2
    <3> QED BY <2>0, <3>1, <3>2
  <2>3. CASE \/ Construct(w) \/ Load(w) \/ CompareExchange(w) \/ CompareExchangeFails(w)
    <3>1. iter' = iter /\ channel' = channel
      BY <2>3 DEF Construct, Load, CompareExchange, CompareExchangeFails
    <3>2. (pc'[Peer(u)] = "recv") <=> (pc[Peer(u)] = "recv")
      BY <2>0, <2>3 DEF Construct, Load, CompareExchange, CompareExchangeFails
    <3> QED BY <2>0, <3>1, <3>2 DEF Sent
  <2> QED BY <1>2, <2>1, <2>2, <2>3 DEF Step
<1>3. ASSUME \A u \in Tio : Sent(Peer(u))' = iter'[u] + Len(channel'[u])
      PROVE  Lockstep'
  <2> SUFFICES ASSUME NEW u \in Tio PROVE Len(channel'[u]) <= 2
    BY <1>3 DEF Lockstep
  <2> DEFINE v == Peer(u)
  <2>1. v \in Tio /\ Peer(v) = u
    BY PeerInTio, PeerOfPeer
  <2>2. Sent(v)' = iter'[u] + Len(channel'[u])
    BY <1>3
  <2> HIDE DEF v
  <2>3. Sent(u)' = iter'[v] + Len(channel'[v])
    BY <1>3, <2>1
  <2>5. iter'[u] \in Nat /\ iter'[v] \in Nat
    BY <2>1
  <2>4. Sent(u)' <= iter'[u] + 1 /\ Sent(v)' <= iter'[v] + 1
    <3> HIDE DEF ClockTypes
    <3> QED BY <2>5 DEF Sent
  <2>6. Len(channel'[u]) \in Nat /\ Len(channel'[v]) \in Nat
    <3>1. channel'[u] \in Seq(Nat) /\ channel'[v] \in Seq(Nat)
      BY <2>1
    <3> HIDE DEF ClockTypes
    <3> QED BY <3>1
  <2> HIDE DEF ClockTypes
  <2> QED BY <2>2, <2>3, <2>4, <2>5, <2>6
<1> QED BY <1>1, <1>2, <1>3 DEF TIONext

\* The exchanges of lamport_test (online.cpp:193-209) stay in lockstep, no
\* message being lost, read twice or late, for any number of threads and of
\* messages, while the loop of sync_lamport covers what it replaces.
THEOREM LockstepInvariant == TIOSpec => []Inv
<1> DEFINE HInv == Inv /\ ToExchange
<1>1. TIOInit => HInv
  <2> SUFFICES ASSUME TIOInit PROVE HInv
    OBVIOUS
  <2>1. NIters \in Nat \ {0}
    BY NItersAssumption
  <2>2. TIOTypeOK /\ ToExchange
    BY <2>1 DEF TIOInit, TIOTypeOK, ToExchange, Tio
  <2>3. Lockstep
    BY PeerInTio DEF TIOInit, Lockstep, Sent
  <2> QED BY <2>2, <2>3, InitInvariant DEF Inv, TIOInv
<1>2. HInv /\ [TIONext]_tiovars => HInv'
  <2> SUFFICES ASSUME HInv, [TIONext]_tiovars PROVE HInv'
    OBVIOUS
  <2>0. \A w \in Tio : iter[w] \in Nat
    BY NItersAssumption DEF Inv, TIOTypeOK
  <2>1. TIOInv
    BY <2>0 DEF Inv, TIOInv, TIOTypeOK, ClockTypes
  <2>2. TIOTypeOK' /\ ToExchange'
    BY <2>1, TypesPreserved, CountsPreserved DEF Inv, TIOTypeOK, ClockTypes
  <2>3. LoopCovers'
    BY <2>1, LoopPreserved
  <2>4. Lockstep'
    BY <2>1, TypesPreserved, LockstepPreserved DEF Inv, TIOInv
  <2> QED BY <2>2, <2>3, <2>4 DEF Inv
<1> QED BY <1>1, <1>2, PTL DEF TIOSpec

-----------------------------------------------------------------------------
(* The final clock.                                                        *)

\* The threads of which a task has ended at one of the parties.
Ended == {t \in Threads : \E p \in Parties : pc[<<p, t>>] = "done"}

\* The most that the exchanges of the threads in S add to a clock.
Worth(S) == NIters * Cardinality(S)

\* A task knows how many messages it has read.
Counted ==
    \A w \in Tio : /\ pc[w] = "construct" => iter[w] = 0
                   /\ pc[w] \in {"load", "cas", "done"} => iter[w] = NIters

\* A task that exchanges messages has a clock of at least their number, and at
\* most that more than the tasks of other threads that ended before.
OpenBounds ==
    \A w \in Tio : pc[w] \in {"send", "recv", "load", "cas"} =>
        /\ iter[w] <= thread_lamport[w]
        /\ thread_lamport[w] <= Worth(Ended \ {w[2]}) + iter[w]

\* So has the stamp of each message on its way to it.
StampBounds ==
    \A w \in Tio : \A j \in 1 .. Len(channel[w]) :
        /\ iter[w] + j - 1 <= channel[w][j]
        /\ channel[w][j] <= Worth(Ended \ {w[2]}) + iter[w] + j - 1

MasterBounds ==
    /\ \A p \in Parties : lamport[p] <= Worth(Ended)
    /\ \A w \in Tio : pc[w] = "done" => NIters <= lamport[w[1]]

ClockBounds == OpenBounds /\ StampBounds /\ MasterBounds

LEMMA EndedFinite == IsFiniteSet(Ended) /\ Ended \subseteq Threads
BY FS_Subset, ThreadsAssumption DEF Ended

LEMMA WorthGrows ==
    ASSUME NEW S, NEW T, IsFiniteSet(T), S \subseteq T
    PROVE  /\ IsFiniteSet(S) /\ Worth(S) \in Nat /\ Worth(T) \in Nat
           /\ Worth(S) <= Worth(T)
<1>1. IsFiniteSet(S) /\ Cardinality(S) <= Cardinality(T)
  BY FS_Subset
<1>2. Cardinality(S) \in Nat /\ Cardinality(T) \in Nat /\ NIters \in Nat
  BY <1>1, FS_CardinalityType, NItersAssumption
<1>3. ASSUME NEW a \in Nat, NEW b \in Nat, NEW n \in Nat, a <= b
      PROVE  n * a \in Nat /\ n * b \in Nat /\ n * a <= n * b
  BY <1>3
<1> QED BY <1>1, <1>2, <1>3 DEF Worth

LEMMA WorthOfAnother ==
    ASSUME NEW S, NEW t, IsFiniteSet(S), t \notin S
    PROVE  Worth(S \cup {t}) = Worth(S) + NIters
<1>1. Cardinality(S \cup {t}) = Cardinality(S) + 1
  BY FS_AddElement
<1>2. Cardinality(S) \in Nat /\ NIters \in Nat
  BY FS_CardinalityType, NItersAssumption
<1>3. ASSUME NEW a \in Nat, NEW n \in Nat PROVE n * (a + 1) = n * a + n
  BY <1>3
<1> QED BY <1>1, <1>2, <1>3 DEF Worth

\* A party cannot end before the other has constructed its MPCTIO.
LEMMA NotEndedBefore ==
    ASSUME ClockTypes, Lockstep, Counted, NEW w \in Tio, pc[w] = "construct"
    PROVE  w[2] \notin Ended
<1>1. SUFFICES ASSUME NEW p \in Parties, pc[<<p, w[2]>>] = "done" PROVE FALSE
  BY DEF Ended
<1> DEFINE v == <<p, w[2]>>
<1>2. v \in Tio /\ w = <<w[1], w[2]>> /\ v[1] = p /\ v[2] = w[2]
  BY DEF Tio
<1>3. v # w
  BY <1>1
<1>4. Peer(v) = w
  <2>1. Parties = {p, w[1]} /\ p # w[1]
    BY <1>2, <1>3, TwoParties DEF Tio
  <2>2. (CHOOSE q \in Parties : q # p) = w[1]
    BY <2>1
  <2> QED BY <1>2, <2>2 DEF Peer
<1>5. Sent(w) = iter[v] + Len(channel[v]) /\ Len(channel[v]) \in Nat
  BY <1>2, <1>4 DEF Lockstep, ClockTypes
<1>6. Sent(w) = 0
  BY DEF Sent, Counted
<1>7. iter[v] = NIters
  BY <1>1, <1>2 DEF Counted
<1> QED BY <1>5, <1>6, <1>7, NItersAssumption

LEMMA CountedPreserved ==
    ASSUME TIOTypeOK, ToExchange, Counted, [TIONext]_tiovars
    PROVE  Counted'
<1> USE DEF TIOTypeOK, Counted, Goto
<1>1. CASE UNCHANGED tiovars \/ Joined
  BY <1>1 DEF Joined, tiovars
<1>2. ASSUME NEW w \in Tio, Step(w) PROVE Counted'
  <2>0. NIters \in Nat
    BY NItersAssumption
  <2>1. CASE RecvMessage(w)
    <3>1. /\ iter'[w] = iter[w] + 1 /\ iter[w] \in 0 .. NIters /\ iter[w] < NIters
          /\ pc'[w] = IF iter'[w] < NIters THEN "send" ELSE "load"
          /\ \A v \in Tio : v # w => pc'[v] = pc[v] /\ iter'[v] = iter[v]
      BY <2>1 DEF RecvMessage, ToExchange
    <3>2. pc'[w] = "send" \/ (pc'[w] = "load" /\ iter'[w] = NIters)
      BY <2>0, <3>1
    <3> QED BY <3>1, <3>2
  <2>2. CASE \/ Construct(w) \/ SendMessage(w) \/ Load(w)
             \/ CompareExchange(w) \/ CompareExchangeFails(w)
    BY <2>2 DEF Construct, SendMessage, Load, CompareExchange, CompareExchangeFails
  <2> QED BY <1>2, <2>1, <2>2 DEF Step
<1> QED BY <1>1, <1>2 DEF TIONext

\* The bounds only grow, as more tasks end.
LEMMA EndedGrows ==
    ASSUME ClockTypes, NEW w \in Tio, Step(w)
    PROVE  /\ \A t \in Threads : /\ Worth(Ended \ {t}) \in Nat
                                 /\ Worth(Ended' \ {t}) \in Nat
                                 /\ Worth(Ended \ {t}) <= Worth(Ended' \ {t})
           /\ Worth(Ended) \in Nat /\ Worth(Ended') \in Nat
           /\ Worth(Ended) <= Worth(Ended')
<1>1. Ended \subseteq Ended'
  <2>1. ASSUME NEW v \in Tio, pc[v] = "done" PROVE pc'[v] = "done"
    BY <2>1 DEF ClockTypes, Goto, Step, Construct, SendMessage, RecvMessage, Load,
                CompareExchange, CompareExchangeFails
  <2> QED BY <2>1 DEF Ended, Tio
<1>2. IsFiniteSet(Ended')
  <2>1. Ended' \subseteq Threads
    BY DEF Ended
  <2> QED BY <2>1, FS_Subset, ThreadsAssumption
<1>3. ASSUME NEW t \in Threads
      PROVE  /\ Worth(Ended \ {t}) \in Nat /\ Worth(Ended' \ {t}) \in Nat
             /\ Worth(Ended \ {t}) <= Worth(Ended' \ {t})
  <2>1. Ended \ {t} \subseteq Ended' \ {t} /\ Ended' \ {t} \subseteq Ended'
    BY <1>1
  <2>2. IsFiniteSet(Ended' \ {t})
    BY <1>2, <2>1, FS_Subset
  <2> QED BY <2>1, <2>2, WorthGrows
<1> QED BY <1>1, <1>2, <1>3, WorthGrows

\* A task takes part in the exchange from the master clock of its party, to
\* which tasks of other threads only have contributed.
LEMMA ConstructBounds ==
    ASSUME ClockTypes, Lockstep, Counted, OpenBounds, MasterBounds,
           NEW w \in Tio, Construct(w)
    PROVE  OpenBounds'
<1> SUFFICES ASSUME NEW v \in Tio, pc'[v] \in {"send", "recv", "load", "cas"}
             PROVE  /\ iter'[v] <= thread_lamport'[v]
                    /\ thread_lamport'[v] <= Worth(Ended' \ {v[2]}) + iter'[v]
  BY DEF OpenBounds
<1>0. w[1] \in Parties /\ w[2] \in Threads /\ v[2] \in Threads
  BY DEF Tio
<1>1. Worth(Ended \ {v[2]}) <= Worth(Ended' \ {v[2]})
  BY <1>0, EndedGrows DEF Step
<1>2. Worth(Ended \ {v[2]}) \in Nat /\ Worth(Ended' \ {v[2]}) \in Nat
  BY <1>0, EndedGrows DEF Step
<1>3. CASE v = w
  <2>1. w[2] \notin Ended
    BY NotEndedBefore DEF Construct
  <2>2. Ended \ {v[2]} = Ended
    BY <1>3, <2>1
  <2>3. iter'[v] = 0 /\ thread_lamport'[v] = lamport[w[1]]
    BY <1>3 DEF Construct, Counted, ClockTypes
  <2>4. lamport[w[1]] <= Worth(Ended) /\ lamport[w[1]] \in Nat
    BY <1>0 DEF MasterBounds, ClockTypes
  <2>5. Worth(Ended \ {v[2]}) = Worth(Ended)
    BY <2>2, Zenon
  <2> QED BY <1>1, <1>2, <2>3, <2>4, <2>5
<1>4. CASE v # w
  <2>1. /\ iter'[v] = iter[v] /\ thread_lamport'[v] = thread_lamport[v]
        /\ pc[v] = pc'[v]
        /\ iter[v] \in Nat /\ thread_lamport[v] \in Nat
    BY <1>4 DEF Construct, Goto, ClockTypes
  <2>2. /\ iter[v] <= thread_lamport[v]
        /\ thread_lamport[v] <= Worth(Ended \ {v[2]}) + iter[v]
    BY <2>1 DEF OpenBounds
  <2> QED BY <1>1, <1>2, <2>1, <2>2
<1> QED BY <1>3, <1>4

\* Reading a message adds one to what the sender's clock may have been.
LEMMA RecvBounds ==
    ASSUME ClockTypes, OpenBounds, StampBounds, NEW w \in Tio, RecvMessage(w)
    PROVE  OpenBounds'
<1> SUFFICES ASSUME NEW v \in Tio, pc'[v] \in {"send", "recv", "load", "cas"}
             PROVE  /\ iter'[v] <= thread_lamport'[v]
                    /\ thread_lamport'[v] <= Worth(Ended' \ {v[2]}) + iter'[v]
  BY DEF OpenBounds
<1>0. v[2] \in Threads
  BY DEF Tio
<1>1. /\ Worth(Ended \ {v[2]}) <= Worth(Ended' \ {v[2]})
      /\ Worth(Ended \ {v[2]}) \in Nat /\ Worth(Ended' \ {v[2]}) \in Nat
  BY <1>0, EndedGrows DEF Step
<1>2. CASE v = w
  <2>1. /\ channel[w] \in Seq(Nat) /\ channel[w] # <<>>
        /\ iter'[w] = iter[w] + 1 /\ iter[w] \in Nat /\ thread_lamport[w] \in Nat
        /\ thread_lamport'[w] = Larger(thread_lamport[w], Head(channel[w]) + 1)
        /\ pc[w] = "recv"
    BY DEF RecvMessage, ClockTypes
  <2>2. 1 \in 1 .. Len(channel[w]) /\ channel[w][1] = Head(channel[w]) /\ Head(channel[w]) \in Nat
    BY <2>1
  <2>3. iter[w] <= Head(channel[w]) /\ Head(channel[w]) <= Worth(Ended \ {w[2]}) + iter[w]
    <3>1. /\ iter[w] + 1 - 1 <= channel[w][1]
          /\ channel[w][1] <= Worth(Ended \ {w[2]}) + iter[w] + 1 - 1
      BY <2>2 DEF StampBounds
    <3> QED BY <1>1, <1>2, <2>1, <2>2, <3>1
  <2>4. thread_lamport[w] <= Worth(Ended \ {w[2]}) + iter[w]
    BY <2>1 DEF OpenBounds
  <2>5. Worth(Ended \ {v[2]}) = Worth(Ended \ {w[2]})
    BY <1>2
  <2>6. Larger(thread_lamport[w], Head(channel[w]) + 1) \in {thread_lamport[w], Head(channel[w]) + 1}
    BY DEF Larger
  <2>7. iter[w] + 1 <= Larger(thread_lamport[w], Head(channel[w]) + 1)
    BY <2>1, <2>2, <2>3 DEF Larger
  <2>8. /\ iter'[v] = iter[w] + 1
        /\ thread_lamport'[v] = Larger(thread_lamport[w], Head(channel[w]) + 1)
    BY <1>2, <2>1
  <2>9. thread_lamport'[v] <= Worth(Ended \ {v[2]}) + iter'[v]
    <3>1. Worth(Ended \ {w[2]}) \in Nat
      BY <1>1, <2>5
    <3>2. thread_lamport[w] <= Worth(Ended \ {w[2]}) + (iter[w] + 1)
      BY <2>1, <2>4, <3>1
    <3>3. Head(channel[w]) + 1 <= Worth(Ended \ {w[2]}) + (iter[w] + 1)
      BY <2>1, <2>2, <2>3, <3>1
    <3>4. thread_lamport'[v] <= Worth(Ended \ {w[2]}) + (iter[w] + 1)
      BY <2>6, <2>8, <3>2, <3>3
    <3> QED BY <2>5, <2>8, <3>4
  <2>10. iter'[v] \in Nat /\ thread_lamport'[v] \in Nat
    BY <2>1, <2>2, <2>6, <2>8
  <2> QED BY <1>1, <2>7, <2>8, <2>9, <2>10
<1>3. CASE v # w
  <2>1. /\ iter'[v] = iter[v] /\ thread_lamport'[v] = thread_lamport[v]
        /\ pc[v] = pc'[v]
        /\ iter[v] \in Nat /\ thread_lamport[v] \in Nat
    BY <1>3 DEF RecvMessage, Goto, ClockTypes
  <2>2. /\ iter[v] <= thread_lamport[v]
        /\ thread_lamport[v] <= Worth(Ended \ {v[2]}) + iter[v]
    BY <2>1 DEF OpenBounds
  <2> QED BY <1>1, <2>1, <2>2
<1> QED BY <1>2, <1>3

\* The other steps leave the clocks of open tasks alone.
LEMMA OpenBoundsPreserved ==
    ASSUME ClockTypes, Lockstep, Counted, ClockBounds, NEW w \in Tio, Step(w)
    PROVE  OpenBounds'
<1>1. CASE Construct(w)
  BY <1>1, ConstructBounds DEF ClockBounds
<1>2. CASE RecvMessage(w)
  BY <1>2, RecvBounds DEF ClockBounds
<1>3. CASE \/ SendMessage(w) \/ Load(w) \/ CompareExchange(w) \/ CompareExchangeFails(w)
  <2> SUFFICES ASSUME NEW v \in Tio, pc'[v] \in {"send", "recv", "load", "cas"}
               PROVE  /\ iter'[v] <= thread_lamport'[v]
                      /\ thread_lamport'[v] <= Worth(Ended' \ {v[2]}) + iter'[v]
    BY DEF OpenBounds
  <2>0. v[2] \in Threads
    BY DEF Tio
  <2>1. /\ Worth(Ended \ {v[2]}) <= Worth(Ended' \ {v[2]})
        /\ Worth(Ended \ {v[2]}) \in Nat /\ Worth(Ended' \ {v[2]}) \in Nat
    BY <2>0, EndedGrows
  <2>2. /\ iter'[v] = iter[v] /\ thread_lamport'[v] = thread_lamport[v]
        /\ pc[v] \in {"send", "recv", "load", "cas"}
        /\ iter[v] \in Nat /\ thread_lamport[v] \in Nat
    BY <1>3 DEF SendMessage, Load, CompareExchange, CompareExchangeFails, Goto, ClockTypes
  <2>3. /\ iter[v] <= thread_lamport[v]
        /\ thread_lamport[v] <= Worth(Ended \ {v[2]}) + iter[v]
    BY <2>2 DEF ClockBounds, OpenBounds
  <2> QED BY <2>1, <2>2, <2>3
<1> QED BY <1>1, <1>2, <1>3 DEF Step

\* A stamp is the sender's clock, which has read as many messages as the
\* receiver has read or has still to read.
LEMMA StampBoundsPreserved ==
    ASSUME ClockTypes, Lockstep, ClockBounds, NEW w \in Tio, Step(w)
    PROVE  StampBounds'
<1> SUFFICES ASSUME NEW u \in Tio, NEW j \in 1 .. Len(channel'[u])
             PROVE  /\ iter'[u] + j - 1 <= channel'[u][j]
                    /\ channel'[u][j] <= Worth(Ended' \ {u[2]}) + iter'[u] + j - 1
  BY DEF StampBounds
<1>0. u[2] \in Threads
  BY DEF Tio
<1>1. /\ Worth(Ended \ {u[2]}) <= Worth(Ended' \ {u[2]})
      /\ Worth(Ended \ {u[2]}) \in Nat /\ Worth(Ended' \ {u[2]}) \in Nat
  BY <1>0, EndedGrows
<1>2. iter[u] \in Nat /\ channel[u] \in Seq(Nat) /\ Len(channel[u]) \in Nat
  BY DEF ClockTypes
<1>3. \A k \in 1 .. Len(channel[u]) :
         /\ channel[u][k] \in Nat
         /\ iter[u] + k - 1 <= channel[u][k]
         /\ channel[u][k] <= Worth(Ended \ {u[2]}) + iter[u] + k - 1
  BY <1>2 DEF ClockBounds, StampBounds
\* What was so of the k-th message in a channel is so with the new bound.
<1>4. ASSUME NEW x \in Nat, NEW n \in Nat,
             n <= x, x <= Worth(Ended \ {u[2]}) + n
      PROVE  x <= Worth(Ended' \ {u[2]}) + n
  BY <1>1, <1>4
<1>5. ASSUME NEW k \in 1 .. Len(channel[u])
      PROVE  /\ channel[u][k] \in Nat /\ k \in Nat
             /\ iter[u] + k - 1 <= channel[u][k]
             /\ channel[u][k] <= Worth(Ended' \ {u[2]}) + iter[u] + k - 1
  <2>1. /\ channel[u][k] \in Nat
        /\ iter[u] + k - 1 <= channel[u][k]
        /\ channel[u][k] <= Worth(Ended \ {u[2]}) + iter[u] + k - 1
    BY <1>3
  <2>2. k \in Nat /\ iter[u] + k - 1 \in Nat
    BY <1>2
  <2> DEFINE n == iter[u] + k - 1
  <2>3. channel[u][k] <= Worth(Ended \ {u[2]}) + n
    BY <1>1, <1>2, <2>1, <2>2
  <2>4. channel[u][k] <= Worth(Ended' \ {u[2]}) + n
    <3> HIDE DEF n
    <3> QED BY <1>4, <2>1, <2>2, <2>3 DEF n
  <2> QED BY <1>1, <1>2, <2>1, <2>2, <2>4
<1>6. CASE iter'[u] = iter[u] /\ channel'[u] = channel[u]
  <2>1. j \in 1 .. Len(channel[u])
    BY <1>6
  <2> QED BY <1>6, <1>5, <2>1
<1>7. CASE SendMessage(w) /\ u = Peer(w)
  <2>1. /\ channel'[u] = Append(channel[u], thread_lamport[w])
        /\ iter'[u] = iter[u]
        /\ iter[w] \in Nat /\ thread_lamport[w] \in Nat
        /\ pc[w] = "send"
    BY <1>7 DEF SendMessage, ClockTypes
  <2>2. w[2] = u[2] /\ Peer(u) = w
    BY <1>7, PeerOfPeer DEF Peer
  <2>3. iter[w] = iter[u] + Len(channel[u])
    BY <2>1, <2>2 DEF Lockstep, Sent
  <2>4. /\ iter[w] <= thread_lamport[w]
        /\ thread_lamport[w] <= Worth(Ended \ {u[2]}) + iter[w]
    BY <2>1, <2>2 DEF ClockBounds, OpenBounds
  <2>5. CASE j = Len(channel[u]) + 1
    <3>1. channel'[u][j] = thread_lamport[w]
      BY <1>2, <2>1, <2>5
    <3> QED BY <1>1, <1>2, <2>1, <2>3, <2>4, <2>5, <3>1
  <2>6. CASE j # Len(channel[u]) + 1
    <3>1. j \in 1 .. Len(channel[u]) /\ channel'[u][j] = channel[u][j]
      BY <1>2, <2>1, <2>6
    <3> QED BY <1>5, <2>1, <3>1
  <2> QED BY <2>5, <2>6
<1>8. CASE RecvMessage(w) /\ u = w
  <2>1. channel'[u] = Tail(channel[u]) /\ channel[u] # <<>> /\ iter'[u] = iter[u] + 1
    BY <1>8 DEF RecvMessage, ClockTypes
  <2>2. j + 1 \in 1 .. Len(channel[u]) /\ channel'[u][j] = channel[u][j + 1] /\ j \in Nat
    BY <1>2, <2>1
  <2>3. /\ channel[u][j + 1] \in Nat
        /\ iter[u] + (j + 1) - 1 <= channel[u][j + 1]
        /\ channel[u][j + 1] <= Worth(Ended' \ {u[2]}) + iter[u] + (j + 1) - 1
    BY <1>5, <2>2
  <2>4. iter'[u] + j - 1 <= channel'[u][j]
    BY <1>2, <2>1, <2>2, <2>3
  <2> DEFINE base == Worth(Ended' \ {u[2]})
  <2>5. channel'[u][j] <= base + iter'[u] + j - 1
    <3>1. base \in Nat /\ channel[u][j + 1] <= base + iter[u] + (j + 1) - 1
      BY <1>1, <2>3
    <3> HIDE DEF base
    <3> QED BY <1>2, <2>1, <2>2, <3>1
  <2> QED BY <2>4, <2>5
<1> QED BY <1>6, <1>7, <1>8 DEF Step, Construct, SendMessage, RecvMessage, Load,
                            CompareExchange, CompareExchangeFails, ClockTypes

\* The exchange that ends a task adds its messages to the bound, once for the
\* two parties.
LEMMA MasterBoundsPreserved ==
    ASSUME ClockTypes, LoopCovers, Counted, ClockBounds, NEW w \in Tio, Step(w)
    PROVE  MasterBounds'
<1>0. w[1] \in Parties /\ w[2] \in Threads /\ NIters \in Nat
  BY NItersAssumption DEF Tio
<1>1. Worth(Ended) \in Nat /\ Worth(Ended') \in Nat /\ Worth(Ended) <= Worth(Ended')
  BY EndedGrows
<1>2. CASE CompareExchange(w)
  <2> DEFINE new == Larger(new_lamport[w], old_lamport[w])
  <2>1. /\ lamport' = [lamport EXCEPT ![w[1]] = new]
        /\ pc[w] = "cas" /\ pc' = [pc EXCEPT ![w] = "done"]
        /\ lamport[w[1]] = old_lamport[w]
    BY <1>2 DEF CompareExchange, Goto
  <2>2. /\ thread_lamport[w] \in Nat /\ old_lamport[w] \in Nat /\ new_lamport[w] \in Nat
        /\ iter[w] = NIters
    BY <2>1 DEF ClockTypes, Counted
  <2>3. thread_lamport[w] <= new /\ new = Larger(thread_lamport[w], lamport[w[1]])
    BY <2>1 DEF LoopCovers
  <2>4. /\ NIters <= thread_lamport[w]
        /\ thread_lamport[w] <= Worth(Ended \ {w[2]}) + NIters
    BY <2>1, <2>2 DEF ClockBounds, OpenBounds
  <2>5. w[2] \in Ended' /\ (Ended' \ {w[2]}) \cup {w[2]} = Ended'
    <3>1. pc'[<<w[1], w[2]>>] = "done"
      BY <2>1 DEF ClockTypes, Tio
    <3> QED BY <1>0, <3>1 DEF Ended
  <2>6. Worth(Ended') = Worth(Ended' \ {w[2]}) + NIters
    <3>1. IsFiniteSet(Ended' \ {w[2]})
      <4>1. Ended' \ {w[2]} \subseteq Threads
        BY DEF Ended
      <4> QED BY <4>1, FS_Subset, ThreadsAssumption
    <3>2. Worth((Ended' \ {w[2]}) \cup {w[2]}) = Worth(Ended' \ {w[2]}) + NIters
      BY <3>1, WorthOfAnother
    <3> QED BY <2>5, <3>2
  <2>7. /\ Worth(Ended \ {w[2]}) <= Worth(Ended' \ {w[2]})
        /\ Worth(Ended \ {w[2]}) \in Nat /\ Worth(Ended' \ {w[2]}) \in Nat
    BY <1>0, EndedGrows
  <2>8. \A p \in Parties : lamport[p] \in Nat /\ lamport[p] <= Worth(Ended)
    BY DEF ClockTypes, ClockBounds, MasterBounds
  <2>9. new \in Nat /\ NIters <= new /\ lamport[w[1]] <= new
    BY <1>0, <2>2, <2>3, <2>4, <2>8 DEF Larger
  <2>10. new <= Worth(Ended')
    <3>1. thread_lamport[w] <= Worth(Ended')
      BY <1>0, <1>1, <2>2, <2>4, <2>6, <2>7
    <3>2. lamport[w[1]] <= Worth(Ended')
      BY <1>0, <1>1, <2>8
    <3> QED BY <2>3, <3>1, <3>2 DEF Larger
  <2> HIDE DEF new
  <2>11. ASSUME NEW p \in Parties PROVE lamport'[p] <= Worth(Ended')
    <3>1. CASE p = w[1]
      BY <1>0, <2>1, <2>10, <3>1 DEF ClockTypes
    <3>2. CASE p # w[1]
      <4>1. lamport'[p] = lamport[p]
        BY <2>1, <3>2 DEF ClockTypes
      <4> QED BY <1>1, <2>8, <4>1
    <3> QED BY <3>1, <3>2
  <2>12. ASSUME NEW v \in Tio, pc'[v] = "done" PROVE NIters <= lamport'[v[1]]
    <3>0. v[1] \in Parties
      BY DEF Tio
    <3>1. CASE v[1] = w[1]
      BY <1>0, <2>1, <2>9, <3>1 DEF ClockTypes
    <3>2. CASE v[1] # w[1]
      <4>1. lamport'[v[1]] = lamport[v[1]] /\ pc[v] = "done"
        BY <2>1, <2>12, <3>0, <3>2 DEF ClockTypes
      <4> QED BY <4>1 DEF ClockBounds, MasterBounds
    <3> QED BY <3>1, <3>2
  <2> QED BY <2>11, <2>12 DEF MasterBounds
<1>3. CASE \/ Construct(w) \/ SendMessage(w) \/ RecvMessage(w)
           \/ Load(w) \/ CompareExchangeFails(w)
  <2>1. lamport' = lamport
    BY <1>3 DEF Construct, SendMessage, RecvMessage, Load, CompareExchangeFails
  <2>2. \A v \in Tio : pc'[v] = "done" => pc[v] = "done"
    BY <1>3 DEF Construct, SendMessage, RecvMessage, Load, CompareExchangeFails,
                Goto, ClockTypes
  <2>3. \A p \in Parties : lamport[p] \in Nat /\ lamport[p] <= Worth(Ended)
    BY DEF ClockTypes, ClockBounds, MasterBounds
  <2>4. \A p \in Parties : lamport'[p] <= Worth(Ended')
    BY <1>1, <2>1, <2>3
  <2>5. \A v \in Tio : pc'[v] = "done" => NIters <= lamport'[v[1]]
    BY <2>1, <2>2 DEF ClockBounds, MasterBounds
  <2> QED BY <2>4, <2>5 DEF MasterBounds
<1> QED BY <1>2, <1>3 DEF Step

LEMMA ClockBoundsInit == TIOInit => ClockBounds /\ Counted
<1> SUFFICES ASSUME TIOInit PROVE ClockBounds /\ Counted
  OBVIOUS
<1>1. Ended = {}
  BY DEF TIOInit, Ended, Tio
<1>2. Worth(Ended) = 0
  <2>1. Cardinality(Ended) = 0
    BY <1>1, FS_EmptySet
  <2> QED BY <2>1, NItersAssumption DEF Worth
<1>3. Counted /\ OpenBounds /\ StampBounds
  BY DEF TIOInit, Counted, OpenBounds, StampBounds
<1>4. MasterBounds
  BY <1>2 DEF TIOInit, MasterBounds, Tio
<1> QED BY <1>3, <1>4 DEF ClockBounds

\* The result of lamport_test (online.cpp:171, 211): for any number of threads
\* and of messages, and however the tasks are scheduled, the final clocks are
\* from the number of messages to that number times the number of threads.
THEOREM FinalClock == TIOSpec => []FinalClockBounds
<1> DEFINE FInv == Inv /\ ToExchange /\ Counted /\ ClockBounds
<1>1. TIOInit /\ Inv => FInv
  BY ClockBoundsInit, NItersAssumption DEF TIOInit, ToExchange
<1>2. FInv /\ Inv' /\ [TIONext]_tiovars => FInv'
  <2> SUFFICES ASSUME FInv, Inv', [TIONext]_tiovars PROVE FInv'
    OBVIOUS
  <2>1. ClockTypes
    <3>1. \A w \in Tio : iter[w] \in Nat
      BY NItersAssumption DEF Inv, TIOTypeOK
    <3> QED BY <3>1 DEF Inv, TIOTypeOK, ClockTypes
  <2>2. ToExchange' /\ Counted'
    BY CountsPreserved, CountedPreserved DEF Inv
  <2>3. ASSUME NEW w \in Tio, Step(w) PROVE ClockBounds'
    BY <2>1, <2>3, OpenBoundsPreserved, StampBoundsPreserved, MasterBoundsPreserved
       DEF Inv, ClockBounds
  <2>4. CASE UNCHANGED tiovars \/ Joined
    <3>1. UNCHANGED <<lamport, pc, iter, thread_lamport, channel>>
      BY <2>4 DEF Joined, tiovars
    <3>2. Ended' = Ended
      BY <3>1 DEF Ended
    <3>3. \A t : Worth(Ended' \ {t}) = Worth(Ended \ {t})
      BY <3>2, Zenon
    <3>4. Worth(Ended') = Worth(Ended)
      BY <3>2, Zenon
    <3>5. OpenBounds' /\ MasterBounds'
      BY <3>1, <3>3, <3>4 DEF ClockBounds, OpenBounds, MasterBounds
    <3>6. StampBounds'
      BY <3>1, <3>3 DEF ClockBounds, StampBounds
    <3> QED BY <2>2, <3>5, <3>6 DEF ClockBounds
  <2> QED BY <2>2, <2>3, <2>4 DEF TIONext
<1>3. FInv => FinalClockBounds
  <2> SUFFICES ASSUME FInv, AllDone, NEW p \in Parties
               PROVE  lamport[p] \in NIters .. (NIters * Cardinality(Threads))
    BY DEF FinalClockBounds
  <2>1. PICK t \in Threads : TRUE
    BY ThreadsAssumption
  <2>2. NIters <= lamport[p]
    <3>1. pc[<<p, t>>] = "done" /\ <<p, t>> \in Tio
      BY DEF AllDone, Tio
    <3> QED BY <3>1 DEF ClockBounds, MasterBounds
  <2>3. lamport[p] <= Worth(Ended)
    BY DEF ClockBounds, MasterBounds
  <2>4. /\ Worth(Ended) <= Worth(Threads)
        /\ Worth(Ended) \in Nat /\ Worth(Threads) \in Nat
    BY EndedFinite, WorthGrows, ThreadsAssumption
  <2>5. lamport[p] \in Nat /\ NIters \in Nat
    BY NItersAssumption DEF Inv, TIOTypeOK
  <2>6. lamport[p] \in NIters .. Worth(Threads)
    BY <2>2, <2>3, <2>4, <2>5
  <2> QED BY <2>6 DEF Worth
<1> QED BY <1>1, <1>2, <1>3, LockstepInvariant, PTL DEF TIOSpec

-----------------------------------------------------------------------------
(* The atomic maximum.                                                     *)

LEMMA InitRefines == TIOInit => Master!Init
BY DEF TIOInit, Master!Init, phaseOf, Tio, Master!Tio

\* Each step of a task is the step of the abstract clocks, or leaves them alone.
LEMMA StepRefines ==
    ASSUME TIOInv, NEW w \in Tio, Step(w)
    PROVE  [Master!Next]_(Master!vars)
<1> USE DEF TIOInv, ClockTypes, Goto, phaseOf, Master!vars
<1>0. /\ w \in Master!Tio
      /\ w[1] \in Parties
  BY DEF Tio, Master!Tio
<1>1. CASE Construct(w)
  <2>1. phaseOf[w] = "new" /\ phaseOf' = [phaseOf EXCEPT ![w] = "open"]
    BY <1>1 DEF Construct
  <2>2. Master!Open(w)
    BY <1>1, <2>1 DEF Construct, Master!Open
  <2> QED BY <1>0, <2>2 DEF Master!Next
<1>2. CASE SendMessage(w)
  <2>1. phaseOf' = phaseOf
    BY <1>2 DEF SendMessage
  <2> QED BY <1>2, <2>1 DEF SendMessage
<1>3. CASE RecvMessage(w)
  <2>1. phaseOf[w] = "open"
    BY <1>3 DEF RecvMessage
  <2>2. pc'[w] \in {"send", "load"} /\ \A v \in Tio : v # w => pc'[v] = pc[v]
    BY <1>3 DEF RecvMessage
  <2>3. phaseOf' = phaseOf
    BY <1>3, <2>2 DEF RecvMessage
  <2>4. Head(channel[w]) \in Nat
    BY <1>3 DEF RecvMessage
  <2>5. /\ thread_lamport' = [thread_lamport EXCEPT ![w] = thread_lamport'[w]]
        /\ thread_lamport[w] <= thread_lamport'[w]
        /\ thread_lamport'[w] \in Nat
    BY <1>3, <2>4 DEF RecvMessage, Larger
  <2>6. CASE thread_lamport'[w] = thread_lamport[w]
    <3>1. thread_lamport' = thread_lamport
      BY <2>5, <2>6
    <3> QED BY <1>3, <2>3, <3>1 DEF RecvMessage
  <2>7. CASE thread_lamport'[w] # thread_lamport[w]
    <3>1. thread_lamport'[w] > thread_lamport[w]
      BY <2>5, <2>7
    <3>2. Master!Tick(w)
      BY <1>3, <2>1, <2>3, <2>5, <3>1 DEF RecvMessage, Master!Tick
    <3> QED BY <1>0, <3>2 DEF Master!Next
  <2> QED BY <2>6, <2>7
<1>4. CASE Load(w)
  <2>1. phaseOf' = phaseOf
    BY <1>4 DEF Load
  <2> QED BY <1>4, <2>1 DEF Load
<1>5. CASE CompareExchange(w)
  <2>1. phaseOf[w] = "open" /\ phaseOf' = [phaseOf EXCEPT ![w] = "closed"]
    BY <1>5 DEF CompareExchange
  <2>2. Larger(new_lamport[w], old_lamport[w])
          = (IF lamport[w[1]] < thread_lamport[w] THEN thread_lamport[w]
             ELSE lamport[w[1]])
    BY <1>0, <1>5 DEF CompareExchange, LoopCovers, Larger
  <2>3. Master!Close(w)
    BY <1>5, <2>1, <2>2 DEF CompareExchange, Master!Close
  <2> QED BY <1>0, <2>3 DEF Master!Next
<1>6. CASE CompareExchangeFails(w)
  <2>1. phaseOf' = phaseOf
    BY <1>6 DEF CompareExchangeFails
  <2> QED BY <1>6, <2>1 DEF CompareExchangeFails
<1> QED BY <1>1, <1>2, <1>3, <1>4, <1>5, <1>6 DEF Step

LEMMA NextRefines ==
    ASSUME TIOInv, [TIONext]_tiovars
    PROVE  [Master!Next]_(Master!vars)
<1>1. CASE \E w \in Tio : Step(w)
  BY <1>1, StepRefines
<1>2. CASE Joined \/ UNCHANGED tiovars
  BY <1>2 DEF Joined, tiovars, Master!vars, phaseOf
<1> QED BY <1>1, <1>2 DEF TIONext

\* sync_lamport's compare-exchange loop (mpcio.cpp:498-520), with the threads
\* of a party interleaved in any way, is an atomic maximum of the clock of the
\* thread and the master clock.
THEOREM LoopIsAtomicMaximum == TIOSpec => ImplementsMaster
<1>1. TIOInit => Master!Init
  BY InitRefines
<1>2. TIOInv /\ [TIONext]_tiovars => [Master!Next]_(Master!vars)
  BY NextRefines
<1> QED BY <1>1, <1>2, TIOInvariance, PTL DEF TIOSpec, ImplementsMaster, Master!Spec
=============================================================================
