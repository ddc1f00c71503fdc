-------------------------------- MODULE Rpc --------------------------------
(***************************************************************************)
(* A client of the RPC framework and its connection to the server          *)
(* (RPCFramework/rpc.cc, rpcxx.h): calls are encoded into one buffer and   *)
(* flushed together, the server handles them as they arrive, and each      *)
(* reply is given to the oldest call that has none.  Only the order ties   *)
(* replies to calls: no transaction id is ever compared.                   *)
(*                                                                         *)
(* Streams are counted in bytes, not stored.  The network may cut them     *)
(* anywhere, at multiples of Segment.                                      *)
(***************************************************************************)
EXTENDS Integers, Sequences

CONSTANTS
  MaxPipeline,   \* kMaxPipelineRequests, 8
  MaxRequest,    \* kMaxRequestSize, 4096
  MaxResponse,   \* kMaxResponseSize, 128
  CallHeader,    \* sizeof(SunRpcCallBody), 40
  AcceptHeader,  \* sizeof(SunRpcAcceptHeader), 24
  MismatchSize,  \* sizeof(SunRpcAcceptMismatch), 32
  Functions,     \* the functions a client may call
  SocketBuffer,  \* bytes the kernel takes from the server ahead of the client
  Segment,       \* bound: streams are cut at multiples of it only
  MaxCalls,      \* bound: calls the client makes in all
  CanStop        \* whether the server may be stopped

\* kMaxInBuf, kMaxOutBuf, and the buffers Flush and BaseClient allocate.
InSize == 2 * MaxRequest
OutSize == 2 * MaxResponse
ReplyBufferSize == MaxPipeline * MaxResponse
CallBufferSize == MaxPipeline * MaxRequest

\* A text's length is a uint8_t, and so is the count of the bytes behind it.
LengthMod == 256

\* A value on the wire: its first byte, counted from the first argument's, and its bytes.
Field == [at : Nat, size : Nat, text : BOOLEAN]

\* "size": the bytes of the arguments.  A function the service does not export has id -1.
Function == [exported : BOOLEAN, args : SUBSET Field, size : Nat, res : Field]

ASSUME RpcAssumption ==
  /\ {MaxPipeline, MaxRequest, MaxResponse, CallHeader, AcceptHeader,
      MismatchSize, SocketBuffer, Segment} \subseteq Nat \ {0}
  /\ MaxCalls \in Nat
  /\ CanStop \in BOOLEAN
  /\ AcceptHeader <= MismatchSize
  /\ MismatchSize <= MaxResponse
  /\ \A f \in Functions :
       /\ f \in Function
       /\ \A a \in f.args : a.at + a.size <= f.size /\ (a.text => a.size \in 1..(LengthMod - 1))
       /\ f.size = 0 \/ \E a \in f.args : a.at + a.size = f.size
       /\ CallHeader + f.size <= MaxRequest
       /\ AcceptHeader + f.res.size <= MaxResponse
       /\ f.res.text => f.res.size \in 1..(LengthMod - 1)

VARIABLES
  \* The client.
  phase,       \* "idle", in Flush ("read" and "parse"), or "gone"
  fd_open,     \* its descriptor has not been closed
  error,       \* BaseClient::error
  calls,       \* every call ever sent: the function and its bytes in the stream
  results,     \* the result of each: Unset, Failed, or the number of the reply it got
  flushed,     \* calls before the pending ones
  nr_replied,  \* pending calls with a reply
  insz,        \* bytes in the buffer of Flush
  instart,     \* bytes of it that were parsed
  \* The streams, counted from the beginning of the connection.
  sent,        \* bytes the client wrote
  taken,       \* bytes the server read
  written,     \* bytes the server wrote
  got,         \* bytes the client read
  \* The server's end.
  conn,        \* "open" or "closed"
  stopped,     \* the server was stopped
  loop,        \* "wait" in epoll, or "pipeline" in the loop of OnConnectionEvent
  inbuf,       \* SlidingBuffers: start and end
  outbuf,
  has_error,   \* Connection::has_error
  replies,     \* every reply produced: its kind and its bytes in the stream
  log          \* history: the calls that were executed, in order

clientVars == <<phase, fd_open, error, calls, results, flushed, nr_replied, insz, instart>>
streamVars == <<sent, taken, written, got>>
serverVars == <<conn, stopped, loop, inbuf, outbuf, has_error, replies, log>>
vars == <<clientVars, streamVars, serverVars>>

\* BaseResult before its reply, and with its error flag set.  Replies are numbered from 1.
Unset == 0
Failed == -1

Least(a, b) == IF a <= b THEN a ELSE b

\* How much of n bytes may have arrived.
Pieces(n) == {k \in 1..n : k % Segment = 0 \/ k = n}

-----------------------------------------------------------------------------
(***************************************************************************)
(* Encoding and buffers.                                                   *)
(***************************************************************************)
\* Protocol::Decode on n bytes.  The bytes after a text's length are counted in a uint8_t.
DecodesExactly(n, field) == n = field.size
Decodes(n, field) ==
  IF field.text THEN n >= 1 /\ (n - 1) % LengthMod >= field.size - 1 ELSE n >= field.size

\* Protocol::Encode into n bytes.
Encodes(n, field) ==
  IF field.text THEN n >= field.size % LengthMod ELSE n >= field.size

\* SlidingBuffer::Slide: the data moves to the front when too little room is left behind it.
\* (Slip: not when just the reserve is left.)
SlidLate(buf, size, reserve) ==
  IF size - buf.end < reserve THEN [start |-> 0, end |-> buf.end - buf.start] ELSE buf
Slid(buf, size, reserve) ==
  IF size - buf.end <= reserve THEN [start |-> 0, end |-> buf.end - buf.start] ELSE buf

DataSize(buf) == buf.end - buf.start

-----------------------------------------------------------------------------
(***************************************************************************)
(* The client.                                                             *)
(***************************************************************************)
NrPending == Len(calls) - flushed

\* Where the stream of calls ends.
Encoded == IF calls = <<>> THEN 0 ELSE calls[Len(calls)].to

\* bufsz: the bytes of the pending calls.
BufSize == IF NrPending = 0 THEN 0 ELSE Encoded - calls[flushed + 1].from

\* BaseClient::Send; a client whose descriptor is closed sends like any other.
\* (Slip: one call too many.)
SendOneMore(f) ==
  /\ phase = "idle"
  /\ Len(calls) < MaxCalls
  /\ NrPending <= MaxPipeline
  /\ CallHeader + f.size <= CallBufferSize - BufSize
  /\ calls' = Append(calls, [fn |-> f, from |-> Encoded, to |-> Encoded + CallHeader + f.size])
  /\ results' = Append(results, Unset)
  /\ UNCHANGED <<phase, fd_open, error, flushed, nr_replied, insz, instart,
                 streamVars, serverVars>>
Send(f) ==
  /\ phase = "idle"
  /\ Len(calls) < MaxCalls
  /\ NrPending < MaxPipeline
  /\ CallHeader + f.size <= CallBufferSize - BufSize
  /\ calls' = Append(calls, [fn |-> f, from |-> Encoded, to |-> Encoded + CallHeader + f.size])
  /\ results' = Append(results, Unset)
  /\ UNCHANGED <<phase, fd_open, error, flushed, nr_replied, insz, instart,
                 streamVars, serverVars>>

\* fail: and finalize: of Flush.  (Slip: one result too many is left alone.)
FailButOne ==
  /\ phase' = "idle"
  /\ fd_open' = FALSE
  /\ error' = TRUE
  /\ results' = [i \in DOMAIN results |->
                   IF i > flushed + nr_replied + 1 THEN Failed ELSE results[i]]
  /\ flushed' = Len(calls)
  /\ nr_replied' = 0 /\ insz' = 0 /\ instart' = 0
  /\ UNCHANGED calls
Fail ==
  /\ phase' = "idle"
  /\ fd_open' = FALSE
  /\ error' = TRUE
  /\ results' = [i \in DOMAIN results |->
                   IF i > flushed + nr_replied THEN Failed ELSE results[i]]
  /\ flushed' = Len(calls)
  /\ nr_replied' = 0 /\ insz' = 0 /\ instart' = 0
  /\ UNCHANGED calls

\* Flush up to its second loop: the write blocks until the kernel has every byte, and fails
\* on a closed descriptor.
StartFlush ==
  /\ phase = "idle"
  /\ NrPending > 0
  /\ IF fd_open
     THEN /\ phase' = "read"
          /\ sent' = Encoded
          /\ UNCHANGED <<fd_open, error, calls, results, flushed, nr_replied, insz, instart>>
     ELSE Fail /\ UNCHANGED sent
  /\ UNCHANGED <<taken, written, got, serverVars>>

\* POLLIN: a read of nothing, because the buffer is full, looks like the end of the stream.
ReadReplies ==
  /\ phase = "read"
  /\ got < written
  /\ IF insz = ReplyBufferSize
     THEN Fail /\ UNCHANGED got
     ELSE \E n \in Pieces(Least(written - got, ReplyBufferSize - insz)) :
            /\ insz' = insz + n
            /\ got' = got + n
            /\ phase' = "parse"
            /\ UNCHANGED <<fd_open, error, calls, results, flushed, nr_replied, instart>>
  /\ UNCHANGED <<sent, taken, written, serverVars>>

\* The server is gone.  Calls it had not read turn its close into a reset, which can overtake
\* replies still unread.
ReadEnd ==
  /\ phase = "read"
  /\ conn = "closed"
  /\ got = written \/ taken < sent
  /\ Fail
  /\ UNCHANGED <<streamVars, serverVars>>

\* poll with a timeout of 0 finds nothing, again and again.
PollNothing ==
  /\ phase = "read"
  /\ got = written
  /\ conn = "open"
  /\ UNCHANGED vars

\* The reply that begins with the first byte not parsed, if one does.
Parsed == got - insz + instart
ReplyHere == {j \in DOMAIN replies : replies[j].from = Parsed}

\* ParseBuffer: a whole reply is here, to the oldest call that has none.
CompleteReply ==
  /\ nr_replied < NrPending
  /\ insz - instart >= AcceptHeader
  /\ (\A j \in ReplyHere : replies[j].kind = "ok") =>
       Decodes(insz - instart - AcceptHeader, calls[flushed + nr_replied + 1].fn.res)

\* One turn of the inner loop of Flush: it ends when no complete reply is left.
\* (Slip: the result goes to the last pending call.)
ParseReplyLast ==
  /\ phase = "parse"
  /\ CompleteReply
  /\ \E j \in ReplyHere :
        /\ replies[j].kind = "ok"
        /\ results' = [results EXCEPT ![Len(calls) - nr_replied] = j]
  /\ nr_replied' = nr_replied + 1
  /\ instart' = instart + AcceptHeader + calls[flushed + nr_replied + 1].fn.res.size
  /\ UNCHANGED <<phase, fd_open, error, calls, flushed, insz, streamVars, serverVars>>
ParseReply ==
  /\ phase = "parse"
  /\ CompleteReply
  /\ \E j \in ReplyHere :
        /\ replies[j].kind = "ok"
        /\ results' = [results EXCEPT ![flushed + nr_replied + 1] = j]
  /\ nr_replied' = nr_replied + 1
  /\ instart' = instart + AcceptHeader + calls[flushed + nr_replied + 1].fn.res.size
  /\ UNCHANGED <<phase, fd_open, error, calls, flushed, insz, streamVars, serverVars>>

\* A reply with an error code, or bytes that are no reply.
ParseError ==
  /\ phase = "parse"
  /\ CompleteReply
  /\ \A j \in ReplyHere : replies[j].kind # "ok"
  /\ Fail
  /\ UNCHANGED <<streamVars, serverVars>>

\* The inner loop is over; so is Flush when every pending call has its reply.
ParseDone ==
  /\ phase = "parse"
  /\ ~CompleteReply
  /\ IF nr_replied < NrPending
     THEN /\ phase' = "read"
          /\ UNCHANGED <<fd_open, error, calls, results, flushed, nr_replied, insz, instart>>
     ELSE IF instart < insz
     THEN Fail
     ELSE /\ phase' = "idle"
          /\ flushed' = Len(calls)
          /\ nr_replied' = 0 /\ insz' = 0 /\ instart' = 0
          /\ UNCHANGED <<fd_open, error, calls, results>>
  /\ UNCHANGED <<streamVars, serverVars>>

\* ~BaseClient between two flushes, or the end of the client's process at any time, also when
\* only some of the pending calls' bytes were written.
Leave ==
  /\ phase # "gone"
  /\ phase' = "gone"
  /\ fd_open' = FALSE
  /\ sent' \in {sent} \cup (IF fd_open THEN {sent + n : n \in Pieces(Encoded - sent)} ELSE {})
  /\ UNCHANGED <<error, calls, results, flushed, nr_replied, insz, instart,
                 taken, written, got, serverVars>>

FlushStep == ReadReplies \/ ReadEnd \/ PollNothing \/ ParseReply \/ ParseError \/ ParseDone

ClientStep == (\E f \in Functions : Send(f)) \/ StartFlush \/ FlushStep \/ Leave

-----------------------------------------------------------------------------
(***************************************************************************)
(* The server.  Its one thread waits in epoll, handles the events of the   *)
(* connection, and goes through the calls that have arrived.               *)
(***************************************************************************)
\* ConnectionPollMask.
WantsIn(ib) == ib.end < InSize \/ ib.start > 0
WantsOut(ob) == DataSize(ob) > 0

\* CloseConnection.
Close ==
  /\ conn' = "closed"
  /\ loop' = "wait"

\* A write to a client that is gone fails; the signal SIGPIPE, which nothing handles, may
\* come with it and end the server.
WriteFails == Close /\ stopped' \in {stopped, TRUE}

\* Back in MainLoop: a connection is closed that is done with an error or waits for nothing.
\* (Slip: it is closed on an error whatever it has still to write.)
BackToWaitAtOnce(ib, ob) ==
  /\ loop' = "wait"
  /\ conn' = IF has_error \/ (~WantsOut(ob) /\ ~WantsIn(ib)) THEN "closed" ELSE "open"
BackToWait(ib, ob) ==
  /\ loop' = "wait"
  /\ conn' = IF ~WantsOut(ob) /\ (has_error \/ ~WantsIn(ib)) THEN "closed" ELSE "open"

\* WriteConnectionBuffer: what may become of the bytes of ob, to a client that is there or gone.
Writes(ob) ==
  IF DataSize(ob) = 0 THEN {[ok |-> TRUE, n |-> 0]}
  ELSE IF fd_open
  THEN {[ok |-> TRUE, n |-> Least(DataSize(ob), SocketBuffer - (written - got))]}
  ELSE {[ok |-> TRUE, n |-> DataSize(ob)], [ok |-> FALSE, n |-> 0]}

Events ==
  (IF WantsIn(inbuf) /\ (taken < sent \/ ~fd_open) THEN {"in"} ELSE {})
  \cup (IF WantsOut(outbuf) /\ (written - got < SocketBuffer \/ ~fd_open) THEN {"out"} ELSE {})

\* The client closed its end with replies unread: EPOLLERR.
OnReset ==
  /\ conn = "open" /\ loop = "wait"
  /\ ~fd_open /\ got < written
  /\ Close
  /\ UNCHANGED <<stopped, inbuf, outbuf, has_error, replies, log, streamVars, clientVars>>

\* The EPOLLIN part of OnConnectionEvent up to its loop: Slide and ReadConnectionBuffer.
\* (Slip: the end of the stream is not noticed.)
ReadCallsOpen(ob) ==
  LET ib == Slid(inbuf, InSize, 0) IN
  IF ib.end = InSize \/ taken = sent
  THEN inbuf' = ib /\ BackToWait(ib, ob) /\ UNCHANGED taken
  ELSE \E n \in Pieces(Least(sent - taken, InSize - ib.end)) :
         /\ inbuf' = [ib EXCEPT !.end = @ + n]
         /\ taken' = taken + n
         /\ loop' = "pipeline"
         /\ UNCHANGED conn
ReadCalls(ob) ==
  LET ib == Slid(inbuf, InSize, 0) IN
  IF ib.end = InSize
  THEN inbuf' = ib /\ BackToWait(ib, ob) /\ UNCHANGED taken
  ELSE IF taken = sent
  THEN inbuf' = ib /\ Close /\ UNCHANGED taken
  ELSE \E n \in Pieces(Least(sent - taken, InSize - ib.end)) :
         /\ inbuf' = [ib EXCEPT !.end = @ + n]
         /\ taken' = taken + n
         /\ loop' = "pipeline"
         /\ UNCHANGED conn

\* OnConnectionEvent: what epoll_wait reported may be less than what is true by now.
OnConnectionEvent ==
  /\ conn = "open" /\ loop = "wait"
  /\ \E events \in (SUBSET Events) \ {{}} :
     \E w \in (IF "out" \in events THEN Writes(outbuf) ELSE {[ok |-> TRUE, n |-> 0]}) :
       IF ~w.ok THEN WriteFails /\ UNCHANGED <<inbuf, outbuf, taken, written>>
       ELSE LET ob == [outbuf EXCEPT !.start = @ + w.n] IN
            /\ outbuf' = ob
            /\ written' = written + w.n
            /\ IF "in" \in events THEN ReadCalls(ob)
               ELSE BackToWait(inbuf, ob) /\ UNCHANGED <<inbuf, taken>>
            /\ UNCHANGED stopped
  /\ UNCHANGED <<sent, got, has_error, replies, log, clientVars>>

\* The call whose bytes the input buffer begins with.
CallHere == {k \in DOMAIN calls : calls[k].from = taken - DataSize(inbuf)}

\* HandleRequest on what is in the input buffer, with room for a reply of that many bytes.
Arrived(f) ==
  /\ DataSize(inbuf) >= CallHeader
  /\ \A a \in f.args : Decodes(DataSize(inbuf) - CallHeader - a.at, a)

\* (A call with credentials would be rejected first; the framework's client writes none.)
\* (Slip: a call is decoded and executed whatever is exported.)
VerdictUnchecked(f, room) ==
  IF ~Arrived(f) THEN "incomplete"
  ELSE IF ~Encodes(room - AcceptHeader, f.res) THEN "garbage_args"
  ELSE "ok"
Verdict(f, room) ==
  IF ~f.exported THEN "mismatch"
  ELSE IF ~Arrived(f) THEN "incomplete"
  ELSE IF ~Encodes(room - AcceptHeader, f.res) THEN "garbage_args"
  ELSE "ok"

ReplySize(f, kind) ==
  CASE kind = "ok" -> AcceptHeader + f.res.size
    [] kind = "mismatch" -> MismatchSize
    [] kind = "garbage_args" -> AcceptHeader

Produced == IF replies = <<>> THEN 0 ELSE replies[Len(replies)].to

\* The loop goes on while there is room for a response and no error.
Room(ob) == OutSize - ob.end > MaxResponse

\* What HandleRequest answers for call k, if anything.
Answer(k, ob) ==
  IF has_error \/ ~Room(ob) \/ DataSize(inbuf) < CallHeader THEN "none"
  ELSE LET v == Verdict(calls[k].fn, OutSize - ob.end)
       IN  IF v = "incomplete" THEN "none" ELSE v

\* in_len: only a call that was answered with a result is taken off the buffer.
\* (Slip: nothing is.)
ConsumesNothing(f, kind) == 0
Consumed(f, kind) == IF kind = "ok" THEN CallHeader + f.size ELSE 0

\* One turn of the loop: a call is answered and WriteConnectionBuffer tries to send the reply.
HandleRequest ==
  /\ conn = "open" /\ loop = "pipeline"
  /\ LET slid == Slid(outbuf, OutSize, MaxResponse) IN
     \E k \in CallHere :
       LET f    == calls[k].fn
           kind == Answer(k, slid)
           size == ReplySize(f, kind)
           ob   == [slid EXCEPT !.end = @ + size]
       IN  /\ kind # "none"
           /\ replies' = Append(replies,
                [kind |-> kind, from |-> Produced, to |-> Produced + size])
           /\ log' = IF kind = "mismatch" THEN log ELSE Append(log, k)
           /\ has_error' = (kind # "ok")
           /\ inbuf' = [inbuf EXCEPT !.start = @ + Consumed(f, kind)]
           /\ \E w \in Writes(ob) :
                /\ outbuf' = [ob EXCEPT !.start = @ + w.n]
                /\ written' = written + w.n
                /\ IF w.ok THEN UNCHANGED <<conn, loop, stopped>> ELSE WriteFails
  /\ UNCHANGED <<sent, taken, got, clientVars>>

\* The loop ends: no room, an error, or no complete call.
EndPipeline ==
  /\ conn = "open" /\ loop = "pipeline"
  /\ LET slid == Slid(outbuf, OutSize, MaxResponse) IN
       /\ \A k \in CallHere : Answer(k, slid) = "none"
       /\ outbuf' = slid
       /\ BackToWait(inbuf, slid)
  /\ UNCHANGED <<inbuf, has_error, replies, log, stopped, streamVars, clientVars>>

\* SignalStop takes effect between two waits; ~Server closes the connection.
Stop ==
  /\ CanStop
  /\ ~stopped
  /\ loop = "wait"
  /\ stopped' = TRUE
  /\ conn' = "closed"
  /\ UNCHANGED <<loop, inbuf, outbuf, has_error, replies, log, streamVars, clientVars>>

\* epoll_wait with nothing to report.
Waiting ==
  /\ conn = "closed" \/ (loop = "wait" /\ Events = {})
  /\ UNCHANGED vars

ServerStep == OnReset \/ OnConnectionEvent \/ HandleRequest \/ EndPipeline

-----------------------------------------------------------------------------
Init ==
  /\ phase = "idle" /\ fd_open = TRUE /\ error = FALSE
  /\ calls = <<>> /\ results = <<>>
  /\ flushed = 0 /\ nr_replied = 0 /\ insz = 0 /\ instart = 0
  /\ sent = 0 /\ taken = 0 /\ written = 0 /\ got = 0
  /\ conn = "open" /\ stopped = FALSE /\ loop = "wait"
  /\ inbuf = [start |-> 0, end |-> 0]
  /\ outbuf = [start |-> 0, end |-> 0]
  /\ has_error = FALSE
  /\ replies = <<>>
  /\ log = <<>>

Next == ClientStep \/ ServerStep \/ Stop \/ Waiting

Spec == Init /\ [][Next]_vars

\* The server's thread and a client in Flush run.  Nobody has to call, flush or leave.
FairSpec == Spec /\ WF_vars(ServerStep) /\ WF_vars(FlushStep)

-----------------------------------------------------------------------------
(***************************************************************************)
(* Properties.                                                             *)
(***************************************************************************)
Buffer == [start : Nat, end : Nat]

\* No buffer is ever read or filled past its end: replies always fit.
TypeOK ==
  /\ phase \in {"idle", "read", "parse", "gone"}
  /\ fd_open \in BOOLEAN /\ error \in BOOLEAN /\ stopped \in BOOLEAN /\ has_error \in BOOLEAN
  /\ conn \in {"open", "closed"}
  /\ loop \in {"wait", "pipeline"}
  /\ calls \in Seq([fn : Functions, from : Nat, to : Nat])
  /\ results \in Seq({Unset, Failed} \cup Nat)
  /\ Len(results) = Len(calls)
  /\ flushed \in 0..Len(calls)
  /\ nr_replied \in 0..NrPending
  /\ NrPending <= MaxPipeline
  /\ insz \in 0..ReplyBufferSize
  /\ instart \in 0..insz
  /\ sent \in Nat /\ taken \in 0..sent /\ written \in Nat /\ got \in 0..written
  /\ inbuf \in Buffer /\ inbuf.start <= inbuf.end /\ inbuf.end <= InSize
  /\ outbuf \in Buffer /\ outbuf.start <= outbuf.end /\ outbuf.end <= OutSize
  /\ replies \in Seq([kind : {"ok", "mismatch", "garbage_args"}, from : Nat, to : Nat])
  /\ log \in Seq(Nat)

\* However streams are cut, the reply a result holds is the one to its own call: the i-th
\* reply of the connection answers the i-th call.
RepliesInOrder == \A i \in DOMAIN results : results[i] \in {Unset, Failed, i}

\* Every call is executed at most once, in the order the calls were made, and only when all
\* of it has arrived: a client that ends in the middle of a write leaves no half call behind.
ExecutedInOrder == \A i \in DOMAIN log : log[i] = i /\ calls[i].to <= taken

\* Outside Flush no result is left undecided: each got its reply, whose call was executed, or
\* is marked as failed.
AllSettled ==
  phase = "idle" =>
    \A i \in 1..flushed : results[i] = Failed \/ results[i] \in 1..Len(log)

\* However streams are cut and however full the buffers: a call fails only when the server was
\* stopped, or after one that is not exported.  A call before that one fails too when the server,
\* closing the connection, leaves calls unread: the reset overtakes the replies.
NoSpuriousError ==
  \A i \in DOMAIN results :
    results[i] = Failed =>
      stopped \/ \E k \in DOMAIN calls : ~calls[k].fn.exported /\ (k <= i \/ taken < sent)

\* The server never goes back to wait with a call at the front of its buffer that it could
\* answer: no event would wake it, and the client that waits for the reply sends nothing more.
NoCallWaits ==
  fd_open /\ conn = "open" /\ loop = "wait" /\ ~has_error =>
    \A k \in CallHere :
      DataSize(inbuf) < CallHeader \/ (calls[k].fn.exported /\ ~Arrived(calls[k].fn))

\* A flush comes back.
FlushReturns == phase \in {"read", "parse"} ~> phase \in {"idle", "gone"}

\* The server lets go of the connection of every client that has gone or failed.
ConnectionReaped == ~fd_open ~> conn = "closed"

\* Without any of the bytes, buffers and cuts, the connection is a queue of calls: whatever
\* happens to the streams is a call made, executed or answered in its turn, or the failure of
\* all that have no result yet, after which no call succeeds.
Queue == INSTANCE CallQueue WITH
  made <- [i \in DOMAIN calls |-> calls[i].fn], executed <- Len(log), failed <- error
CallsQueueUp == Queue!Spec

=============================================================================
