--------------------------- MODULE RpcErrorProofs ---------------------------
(***************************************************************************)
(* For any sizes and functions, and however streams are cut: the           *)
(* connection implements a queue of calls (module CallQueue), a call fails *)
(* only for a reason, and the server never sleeps on a call it could       *)
(* answer.  The last two need two hypotheses, each for a reason:           *)
(* SocketHolds and TextsCounted below.                                     *)
(*                                                                         *)
(* An error of the client has many possible sources: a buffer of Flush     *)
(* that is full, bytes left behind the last reply, a reply that is no      *)
(* result, a connection the server closed.  The invariant shows that the   *)
(* first two cannot happen, by counting the bytes of the replies since the *)
(* last flush, and what must have happened before the others.              *)
(***************************************************************************)
EXTENDS RpcProofs, WellFoundedInduction

\* The kernel takes at least the responses of a full pipeline but two.  The two others fit
\* into the buffer of the server.
SocketHolds == (MaxPipeline - 2) * MaxResponse < SocketBuffer

\* The count of the bytes behind a text's length, modulo 2^8, never hides a text that is there.
TextsCounted ==
  \A f \in Functions :
    /\ \A a \in f.args : \A n \in a.size..(InSize - CallHeader - a.at) : Decodes(n, a)
    /\ \A n \in f.res.size..(ReplyBufferSize - AcceptHeader) : Decodes(n, f.res)

-----------------------------------------------------------------------------
(***************************************************************************)
(* The invariant.                                                          *)
(***************************************************************************)
\* Every answer is a result, but for the last one after an error: the refusal of a call that
\* is not exported.  The server never runs out of room for a result.
AnswersInv ==
  /\ \A j \in 1..Len(log) : replies[j].kind = "ok"
  /\ IF has_error
     THEN /\ Len(replies) = Len(log) + 1
          /\ Len(replies) <= Len(calls)
          /\ ~calls[Len(replies)].fn.exported
     ELSE Len(replies) = Len(log)
  /\ \A j \in DOMAIN replies : /\ replies[j].from + AcceptHeader <= replies[j].to
                               /\ replies[j].to <= replies[j].from + MaxResponse

\* The buffer of Flush begins where the replies to the pending calls begin.
FlushInv ==
  /\ phase = "idle" => nr_replied = 0 /\ insz = 0 /\ instart = 0
  /\ fd_open => got - insz = UpTo(replies, flushed)

\* What the server still has to write did not fit into the kernel's buffer, behind the replies
\* of earlier flushes, which the client has read.
OutInv ==
  fd_open /\ DataSize(outbuf) > 0 => written >= UpTo(replies, flushed) + SocketBuffer

PipeInv == IInv /\ AnswersInv /\ FlushInv /\ OutInv

\* The call at the front of the server's buffer cannot be answered yet.
FrontWaits ==
  \A k \in CallHere :
    DataSize(inbuf) < CallHeader \/ (calls[k].fn.exported /\ ~Arrived(calls[k].fn))

\* The server closes the connection to a client that is there when it is stopped, or after the
\* answer to a call that is not exported, once all of it is written.
CloseInv ==
  fd_open /\ conn = "closed" => stopped \/ (has_error /\ DataSize(outbuf) = 0)

\* Flush reads again only if the next reply is not in its buffer.
ReadInv ==
  phase = "read" =>
    /\ NrDone < Len(calls)
    /\ NrDone < Len(replies) => got < replies[NrDone + 1].to

\* Why call i may have failed.
Reason(i) ==
  \/ stopped
  \/ \E k \in DOMAIN calls :
       ~calls[k].fn.exported /\ (k <= i \/ (conn = "closed" /\ taken < sent))

ReasonInv ==
  /\ \A i \in DOMAIN results : results[i] = Failed => Reason(i)
  /\ ~fd_open /\ phase # "gone" => flushed \in DOMAIN calls /\ Reason(flushed)

ErrorInv == PipeInv /\ NoCallWaits /\ CloseInv /\ ReadInv /\ ReasonInv

-----------------------------------------------------------------------------
(***************************************************************************)
(* Sums.                                                                   *)
(***************************************************************************)
\* Induction on numbers, for a set of them.
LEMMA AllNumbers ==
  ASSUME NEW P, 0 \in P, \A n \in Nat : n \in P => n + 1 \in P
  PROVE  Nat \subseteq P
<1> SUFFICES ASSUME NEW b \in Nat, b \notin P PROVE FALSE
  OBVIOUS
<1> DEFINE T == Nat \ P
<1>1. T \subseteq Nat /\ b \in T
  OBVIOUS
<1>2. PICK x \in T : \A y \in T : ~(<<y, x>> \in OpToRel(<, Nat))
  <2> HIDE DEF T
  <2> QED
    BY <1>1, NatLessThanWellFounded, WFMin
<1>3. x \in Nat /\ x # 0
  BY <1>2
<1>4. x - 1 \in Nat /\ x - 1 < x
  BY <1>3
<1>5. x - 1 \notin T
  BY <1>2, <1>3, <1>4 DEF OpToRel
<1>6. x - 1 \in P /\ (x - 1) + 1 = x
  BY <1>3, <1>4, <1>5
<1> QED
  BY <1>2, <1>4, <1>6

\* Later messages end later.
LEMMA UpToGrows ==
  ASSUME NEW S, NEW s \in Seq(S), Chain(s), NEW n \in 0..Len(s), NEW m \in 0..n
  PROVE  /\ UpTo(s, m) \in Nat /\ UpTo(s, n) \in Nat /\ UpTo(s, m) <= UpTo(s, n)
         /\ m < n => UpTo(s, m) < UpTo(s, n)
<1>1. Len(s) \in Nat /\ DOMAIN s = 1..Len(s)
  OBVIOUS
<1>2. \A i \in 1..Len(s) : s[i].from \in Nat /\ s[i].to \in Nat /\ s[i].from < s[i].to
  BY <1>1 DEF Chain
<1>3. n > 0 => UpTo(s, n) = s[n].to /\ n \in 1..Len(s)
  BY <1>1 DEF UpTo
<1>4. m > 0 => UpTo(s, m) = s[m].to /\ m \in 1..Len(s)
  BY <1>1 DEF UpTo
<1>5. UpTo(s, 0) = 0
  BY DEF UpTo
<1>6. UpTo(s, n) \in Nat
  BY <1>2, <1>3, <1>5
<1>7. UpTo(s, m) \in Nat
  BY <1>2, <1>4, <1>5
<1>8. ASSUME m < n PROVE UpTo(s, m) < UpTo(s, n)
  <2>1. UpTo(s, n) = s[n].to /\ n \in 1..Len(s)
    BY <1>1, <1>3, <1>8
  <2>2. CASE m = 0
    BY <1>2, <1>5, <2>1, <2>2
  <2>3. CASE m > 0
    <3>1. s[m].to <= s[n].from
      BY <1>1, <1>4, <1>8, <2>1, <2>3 DEF Chain
    <3> QED
      BY <1>2, <1>4, <2>1, <2>3, <3>1
  <2> QED
    BY <2>2, <2>3
<1> QED
  BY <1>1, <1>6, <1>7, <1>8

\* n - m messages of at most b bytes.
LEMMA UpToBounded ==
  ASSUME NEW S, NEW s \in Seq(S), Chain(s), NEW b \in Nat,
         \A i \in DOMAIN s : s[i].to <= s[i].from + b,
         NEW n \in 0..Len(s), NEW m \in 0..n
  PROVE  UpTo(s, n) <= UpTo(s, m) + (n - m) * b
<1>1. Len(s) \in Nat /\ DOMAIN s = 1..Len(s)
  OBVIOUS
<1> DEFINE P == {d \in Nat : m + d <= Len(s) => UpTo(s, m + d) <= UpTo(s, m) + d * b}
<1>2. \A d \in 0..Len(s) : UpTo(s, d) \in Nat
  BY <1>1, UpToGrows
<1>3. 0 \in P
  BY <1>1, <1>2
<1>4. ASSUME NEW d \in Nat, d \in P PROVE d + 1 \in P
  <2> SUFFICES ASSUME m + (d + 1) <= Len(s)
               PROVE  UpTo(s, m + (d + 1)) <= UpTo(s, m) + (d + 1) * b
    OBVIOUS
  <2>1. UpTo(s, m + d) <= UpTo(s, m) + d * b
    BY <1>1, <1>4
  <2> DEFINE e == m + d
  <2>2. e \in 0..Len(s) /\ e + 1 \in 1..Len(s) /\ m + (d + 1) = e + 1 /\ m \in 0..Len(s)
    BY <1>1
  <2> HIDE DEF e
  <2>3. s[e + 1].from = UpTo(s, e)
    <3>1. s[e + 1].from = IF e + 1 = 1 THEN 0 ELSE s[(e + 1) - 1].to
      BY <1>1, <2>2 DEF Chain
    <3>2. (e + 1) - 1 = e /\ (e + 1 = 1 <=> e = 0)
      BY <1>1, <2>2
    <3> QED
      BY <3>1, <3>2 DEF UpTo
  <2>4. UpTo(s, e + 1) = s[e + 1].to
    BY <1>1, <2>2 DEF UpTo
  <2>5. s[e + 1].to <= s[e + 1].from + b
    BY <1>1, <2>2
  <2>6. UpTo(s, e) \in Nat /\ UpTo(s, m) \in Nat /\ UpTo(s, e + 1) \in Nat
    BY <1>1, <1>2, <2>2
  <2>7. (d + 1) * b = d * b + b /\ d * b \in Nat
    OBVIOUS
  <2>8. UpTo(s, e) <= UpTo(s, m) + d * b
    BY <2>1 DEF e
  <2> QED
    BY <2>2, <2>3, <2>4, <2>5, <2>6, <2>7, <2>8
<1>5. Nat \subseteq P
  <2> HIDE DEF P
  <2> QED
    BY <1>3, <1>4, AllNumbers
<1>6. n - m \in Nat /\ m + (n - m) = n
  BY <1>1
<1>7. n - m \in P
  BY <1>5, <1>6
<1> QED
  BY <1>1, <1>6, <1>7

-----------------------------------------------------------------------------
(***************************************************************************)
(* What the steps leave alone.                                             *)
(***************************************************************************)
ClientMoves == StartFlush \/ FlushStep \/ Leave
ServerMoves ==
  OnReset \/ OnConnectionEvent \/ EndPipeline \/ Stop \/ Waiting \/ UNCHANGED vars

LEMMA Moves ==
  ASSUME [Next]_vars
  PROVE  (\E f \in Functions : Send(f)) \/ ClientMoves \/ ServerMoves \/ HandleRequest
BY DEF Next, ClientStep, ServerStep, ClientMoves, ServerMoves

LEMMA CallSets ==
  ASSUME IInv
  PROVE  /\ \A i \in 1..Len(calls) : calls[i].fn \in Functions
         /\ calls \in Seq([fn : Functions, from : Nat, to : Nat])
         /\ replies \in Seq([kind : {"ok", "mismatch", "garbage_args"}, from : Nat, to : Nat])
         /\ Chain(calls) /\ Chain(replies)
<1>1. calls \in Seq([fn : Functions, from : Nat, to : Nat])
  BY DEF IInv, ClientTypes
<1>2. replies \in Seq([kind : {"ok", "mismatch", "garbage_args"}, from : Nat, to : Nat])
  BY DEF IInv, ServerTypes
<1>3. Chain(calls) /\ Chain(replies)
  BY DEF IInv, CallsInv, RepliesInv
<1>4. ASSUME NEW i \in 1..Len(calls) PROVE calls[i].fn \in Functions
  <2> DEFINE S == [fn : Functions, from : Nat, to : Nat]
  <2>1. calls \in Seq(S)
    BY <1>1
  <2> HIDE DEF S
  <2>2. calls[i] \in S
    BY <2>1
  <2> QED
    BY <2>2 DEF S
<1> QED
  BY <1>1, <1>2, <1>3, <1>4

\* Where the replies end.
LEMMA ReplyEnds ==
  ASSUME IInv, NEW n \in 0..Len(replies), NEW m \in 0..n
  PROVE  /\ UpTo(replies, m) \in Nat /\ UpTo(replies, n) \in Nat
         /\ UpTo(replies, m) <= UpTo(replies, n)
         /\ m < n => UpTo(replies, m) < UpTo(replies, n)
<1> DEFINE S == [kind : {"ok", "mismatch", "garbage_args"}, from : Nat, to : Nat]
<1>1. replies \in Seq(S) /\ Chain(replies)
  BY CallSets
<1> HIDE DEF S
<1> QED
  BY <1>1, UpToGrows

LEMMA SendFrame ==
  ASSUME IInv, NEW f \in Functions, Send(f)
  PROVE  /\ UNCHANGED <<phase, fd_open, flushed, nr_replied, insz, instart, sent, taken, written,
                        got, conn, stopped, loop, inbuf, outbuf, has_error, replies, log>>
         /\ phase = "idle" /\ NrPending < MaxPipeline
         /\ Len(calls') = Len(calls) + 1 /\ Len(results') = Len(calls) + 1
         /\ \A i \in 1..Len(calls) : calls'[i] = calls[i] /\ results'[i] = results[i]
         /\ calls'[Len(calls) + 1].from = Encoded
         /\ results'[Len(calls) + 1] = Unset
<1> DEFINE e == [fn |-> f, from |-> Encoded, to |-> Encoded + CallHeader + f.size]
<1>1. /\ calls' = Append(calls, e) /\ results' = Append(results, Unset)
      /\ phase = "idle" /\ NrPending < MaxPipeline
      /\ UNCHANGED <<phase, fd_open, flushed, nr_replied, insz, instart, sent, taken, written,
                     got, conn, stopped, loop, inbuf, outbuf, has_error, replies, log>>
  BY DEF Send, streamVars, serverVars
<1>2. e.from = Encoded
  OBVIOUS
<1> HIDE DEF e
<1>3. calls \in Seq([fn : Functions, from : Nat, to : Nat])
      /\ results \in Seq({Unset, Failed} \cup Nat) /\ Len(results) = Len(calls)
  BY DEF IInv, ClientTypes
<1>4. Len(calls') = Len(calls) + 1 /\ calls'[Len(calls) + 1] = e
      /\ \A i \in 1..Len(calls) : calls'[i] = calls[i]
  BY <1>1, <1>3
<1>5. Len(results') = Len(calls) + 1 /\ results'[Len(calls) + 1] = Unset
      /\ \A i \in 1..Len(calls) : results'[i] = results[i]
  BY <1>1, <1>3
<1> QED
  BY <1>1, <1>2, <1>4, <1>5

\* The other steps of the client.
LEMMA ClientFrame ==
  ASSUME IInv, ClientMoves
  PROVE  /\ UNCHANGED <<calls, taken, written, conn, stopped, loop, inbuf, outbuf, has_error,
                        replies, log>>
         /\ fd_open' => fd_open
         /\ sent' \in Nat /\ sent <= sent'
         /\ phase = "gone" => phase' = "gone"
<1> USE DEF streamVars, serverVars, Fail
<1>1. sent \in Nat /\ Encoded \in Nat /\ sent <= Encoded /\ fd_open \in BOOLEAN
  BY StreamEnds DEF IInv, CallsInv, StreamTypes, ClientTypes
<1>2. CASE StartFlush
  BY <1>1, <1>2 DEF StartFlush
<1>3. CASE ReadReplies
  BY <1>1, <1>3 DEF ReadReplies
<1>4. CASE ReadEnd \/ ParseError
  BY <1>1, <1>4 DEF ReadEnd, ParseError
<1>5. CASE PollNothing
  BY <1>1, <1>5 DEF PollNothing, vars, clientVars
<1>6. CASE ParseReply
  BY <1>1, <1>6 DEF ParseReply
<1>7. CASE ParseDone
  BY <1>1, <1>7 DEF ParseDone
<1>8. CASE Leave
  <2>1. \A n \in Pieces(Encoded - sent) : n \in Nat
    BY <1>1, PieceRange
  <2> QED
    BY <1>1, <1>8, <2>1 DEF Leave
<1> QED
  BY <1>2, <1>3, <1>4, <1>5, <1>6, <1>7, <1>8 DEF ClientMoves, FlushStep

\* The steps of the server but HandleRequest.
LEMMA ServerFrame ==
  ASSUME IInv, ServerMoves
  PROVE  /\ UNCHANGED <<phase, fd_open, error, calls, results, flushed, nr_replied, insz, instart, sent,
                        got, has_error, replies, log>>
         /\ conn = "closed" => conn' = "closed" /\ taken' = taken /\ outbuf' = outbuf
         /\ stopped => stopped'
<1> USE DEF streamVars, clientVars
<1>1. CASE OnReset
  BY <1>1 DEF OnReset, Close
<1>2. CASE OnConnectionEvent
  <2>1. stopped => stopped'
    BY <1>2 DEF OnConnectionEvent, WriteFails, ServerTypes, IInv
  <2>2. conn = "open"
    BY <1>2 DEF OnConnectionEvent
  <2> QED
    BY <1>2, <2>1, <2>2 DEF OnConnectionEvent
<1>3. CASE EndPipeline
  BY <1>3 DEF EndPipeline
<1>4. CASE Stop
  BY <1>4 DEF Stop
<1>5. CASE Waiting \/ UNCHANGED vars
  BY <1>5 DEF Waiting, vars, serverVars
<1> QED
  BY <1>1, <1>2, <1>3, <1>4, <1>5 DEF ServerMoves

\* What a step of Flush does that leaves the descriptor open.
StartsReading ==
  /\ phase = "idle" /\ phase' = "read" /\ NrPending > 0
  /\ UNCHANGED <<flushed, nr_replied, insz, instart, got>>
ReadsSome ==
  /\ phase = "read" /\ phase' = "parse"
  /\ UNCHANGED <<flushed, nr_replied, instart>>
  /\ got' - insz' = got - insz
ParsesOne ==
  /\ phase = "parse" /\ phase' = "parse"
  /\ UNCHANGED <<flushed, insz, got>>
ReadsOn ==
  /\ phase = "parse" /\ phase' = "read" /\ ~CompleteReply /\ nr_replied < NrPending
  /\ UNCHANGED <<flushed, nr_replied, insz, instart, got>>
Returns ==
  /\ phase = "parse" /\ phase' = "idle"
  /\ NrDone = Len(calls) /\ insz = instart
  /\ flushed' = Len(calls) /\ nr_replied' = 0 /\ insz' = 0 /\ instart' = 0 /\ got' = got
FindsNothing == UNCHANGED <<phase, flushed, nr_replied, insz, instart, got>>

LEMMA FlushFrame ==
  ASSUME IInv, ClientMoves, fd_open'
  PROVE  /\ StartsReading \/ ReadsSome \/ ParsesOne \/ ReadsOn \/ Returns \/ FindsNothing
         /\ DOMAIN results' = DOMAIN results
         /\ \A i \in DOMAIN results : results'[i] = Failed => results[i] = Failed
<1>1. ~Fail
  BY DEF Fail
<1>2. /\ insz \in Nat /\ instart \in Nat /\ instart <= insz /\ got \in Nat /\ written \in Nat
      /\ flushed \in Nat /\ nr_replied \in Nat /\ NrDone <= Len(calls) /\ Len(calls) \in Nat
  BY Lengths DEF IInv, ClientTypes, StreamTypes
<1>3. CASE StartFlush
  BY <1>1, <1>3 DEF StartFlush, StartsReading
<1>4. CASE ReadReplies
  <2>1. PICK n \in Pieces(Least(written - got, ReplyBufferSize - insz)) :
          /\ insz' = insz + n /\ got' = got + n /\ phase' = "parse"
          /\ UNCHANGED <<fd_open, error, calls, results, flushed, nr_replied, instart>>
    BY <1>1, <1>4 DEF ReadReplies
  <2>2. Least(written - got, ReplyBufferSize - insz) \in Int
    BY <1>2, Sizes DEF Least
  <2>3. n \in Nat
    BY <2>2, PieceRange
  <2>4. got' - insz' = got - insz
    BY <1>2, <2>1, <2>3
  <2> QED
    BY <1>4, <2>1, <2>4 DEF ReadReplies, ReadsSome
<1>5. CASE ReadEnd \/ ParseError
  BY <1>1, <1>5 DEF ReadEnd, ParseError
<1>6. CASE PollNothing
  BY <1>6 DEF PollNothing, vars, clientVars, streamVars, FindsNothing
<1>7. CASE ParseReply
  <2>1. phase = "parse" /\ UNCHANGED <<phase, flushed, insz, got>>
    BY <1>7 DEF ParseReply, streamVars
  <2>2. PICK j \in ReplyHere : results' = [results EXCEPT ![flushed + nr_replied + 1] = j]
    BY <1>7 DEF ParseReply
  <2>3. j # Failed
    BY <2>2, Lengths DEF ReplyHere, Failed, IInv
  <2> QED
    BY <2>1, <2>2, <2>3 DEF ParsesOne
<1>8. CASE ParseDone
  <2>1. phase = "parse" /\ ~CompleteReply /\ got' = got
    BY <1>8 DEF ParseDone, streamVars
  <2>2. CASE nr_replied < NrPending
    BY <1>8, <2>1, <2>2 DEF ParseDone, ReadsOn
  <2>3. CASE ~(nr_replied < NrPending)
    <3>1. ~(instart < insz)
      BY <1>1, <1>8, <2>3 DEF ParseDone
    <3>2. NrDone = Len(calls)
      BY <1>2, <2>3 DEF NrDone, NrPending
    <3>3. insz = instart
      BY <1>2, <3>1
    <3>4. /\ phase' = "idle" /\ flushed' = Len(calls)
          /\ nr_replied' = 0 /\ insz' = 0 /\ instart' = 0 /\ UNCHANGED results
      BY <1>8, <2>3, <3>1 DEF ParseDone
    <3> QED
      BY <2>1, <3>2, <3>3, <3>4 DEF Returns
  <2> QED
    BY <2>2, <2>3
<1>9. CASE Leave
  BY <1>9 DEF Leave
<1> QED
  BY <1>3, <1>4, <1>5, <1>6, <1>7, <1>8, <1>9 DEF ClientMoves, FlushStep

\* A write leaves bytes behind only when the kernel's buffer is full.
LEMMA WritesMost ==
  ASSUME IInv, fd_open, NEW ob \in Buffer, ob.start <= ob.end, NEW w \in Writes(ob)
  PROVE  w.ok /\ (DataSize(ob) - w.n > 0 => written + w.n = got + SocketBuffer)
<1>1. DataSize(ob) \in Nat /\ SocketBuffer \in Nat /\ written \in Nat /\ got \in Nat
  BY Sizes DEF Buffer, DataSize, IInv, StreamTypes
<1>2. CASE DataSize(ob) = 0
  <2>1. w.n = 0 /\ w.ok
    BY <1>2 DEF Writes
  <2> QED
    BY <1>2, <2>1
<1>3. CASE DataSize(ob) # 0
  <2>1. w.n = Least(DataSize(ob), SocketBuffer - (written - got)) /\ w.ok
    BY <1>3 DEF Writes
  <2> QED
    BY <1>1, <2>1 DEF Least
<1> QED
  BY <1>2, <1>3

\* A call is answered: the one after the last that was executed, with a result or, if it is not
\* exported, with an error.
LEMMA AnswerFrame ==
  ASSUME IInv, HandleRequest
  PROVE  /\ conn = "open" /\ loop = "pipeline" /\ ~has_error
         /\ UNCHANGED <<phase, fd_open, error, calls, results, flushed, nr_replied, insz, instart,
                        sent, taken, got>>
         /\ Len(replies) = Len(log) /\ Len(log) + 1 <= Len(calls)
         /\ Len(replies') = Len(replies) + 1
         /\ \A j \in 1..Len(replies) : replies'[j] = replies[j]
         /\ replies'[Len(replies) + 1].from = UpTo(replies, Len(replies))
         /\ \E size \in AcceptHeader..MaxResponse :
              replies'[Len(replies) + 1].to = UpTo(replies, Len(replies)) + size
         /\ \/ /\ ~has_error' /\ replies'[Len(replies) + 1].kind = "ok"
               /\ Len(log') = Len(log) + 1 /\ calls[Len(log) + 1].fn.exported
            \/ /\ has_error' /\ log' = log
               /\ ~calls[Len(log) + 1].fn.exported
         /\ fd_open => UNCHANGED <<conn, loop, stopped>>
         /\ stopped => stopped'
         /\ fd_open /\ DataSize(outbuf)' > 0 => written' = got + SocketBuffer
<1> USE DEF IInv
<1> DEFINE slid == Slid(outbuf, OutSize, MaxResponse)
<1>1. PICK k \in CallHere :
        LET f    == calls[k].fn
            kind == Answer(k, slid)
            size == ReplySize(f, kind)
            ob   == [slid EXCEPT !.end = @ + size]
        IN  /\ kind # "none"
            /\ replies' = Append(replies,
                 [kind |-> kind, from |-> Produced, to |-> Produced + size])
            /\ log' = IF kind = "mismatch" THEN log ELSE Append(log, k)
            /\ has_error' = (kind # "ok")
            /\ \E w \in Writes(ob) :
                 /\ outbuf' = [ob EXCEPT !.start = @ + w.n]
                 /\ written' = written + w.n
                 /\ IF w.ok THEN UNCHANGED <<conn, loop, stopped>> ELSE WriteFails
  BY DEF HandleRequest
<1>2. /\ conn = "open" /\ loop = "pipeline"
      /\ UNCHANGED <<phase, fd_open, error, calls, results, flushed, nr_replied, insz, instart,
                     sent, taken, got>>
  BY DEF HandleRequest, clientVars
<1> DEFINE f == calls[k].fn
           kind == Answer(k, slid)
           size == ReplySize(f, kind)
           ob == [slid EXCEPT !.end = @ + size]
           rep == [kind |-> kind, from |-> Produced, to |-> Produced + size]
<1>3. PICK w \in Writes(ob) :
        /\ outbuf' = [ob EXCEPT !.start = @ + w.n]
        /\ written' = written + w.n
        /\ IF w.ok THEN UNCHANGED <<conn, loop, stopped>> ELSE WriteFails
  BY <1>1
<1>4. /\ kind # "none" /\ replies' = Append(replies, rep)
      /\ log' = (IF kind = "mismatch" THEN log ELSE Append(log, k))
      /\ has_error' = (kind # "ok")
  BY <1>1
<1>5. slid \in Buffer /\ slid.start <= slid.end /\ slid.end <= OutSize
  BY Sizes, SlidBuffer DEF ServerTypes
<1>6. /\ ~has_error /\ Room(slid)
      /\ kind = Verdict(f, OutSize - slid.end) /\ kind # "incomplete"
  <2>1. ~has_error /\ Room(slid) /\ ~(DataSize(inbuf) < CallHeader)
    BY <1>4 DEF Answer
  <2> QED
    BY <1>4, <2>1 DEF Answer
<1>7. \/ kind = "mismatch" /\ ~f.exported
      \/ kind = "garbage_args" /\ ~Encodes(OutSize - slid.end - AcceptHeader, f.res)
      \/ kind = "ok" /\ f.exported
  BY <1>6 DEF Verdict
<1> HIDE DEF slid, kind, size, ob
<1>8. k = Len(log) + 1 /\ k \in 1..Len(calls) /\ Len(replies) = Len(log)
  <2>1. taken - DataSize(inbuf) = UpTo(calls, Len(log)) /\ Len(replies) = Len(log)
        /\ Len(log) <= Len(calls)
    BY <1>6 DEF ServerInv
  <2>2. k \in DOMAIN calls /\ calls[k].from = taken - DataSize(inbuf)
    BY DEF CallHere
  <2>3. Len(log) \in 0..Len(calls) /\ k \in 1..Len(calls)
    BY <2>1, <2>2, Lengths
  <2>4. k = Len(log) + 1
    BY <2>1, <2>2, <2>3, CallSets, ChainNext
  <2> QED
    BY <2>1, <2>3, <2>4
<1>9. f \in Functions
  BY <1>8, CallSets
<1> HIDE DEF f
\* There is always room for a result.
<1>10. kind # "garbage_args"
  <2>1. /\ f.res.size \in Nat /\ AcceptHeader + f.res.size <= MaxResponse
        /\ f.res.text => f.res.size \in 1..(LengthMod - 1)
    BY <1>9, FunctionSizes, RpcAssumption
  <2>2. OutSize - slid.end > MaxResponse
    BY <1>6 DEF Room
  <2>3. slid.end \in Nat /\ OutSize \in Nat /\ MaxResponse \in Nat /\ AcceptHeader \in Nat
    BY <1>5, Sizes DEF Buffer
  <2>4. OutSize - slid.end - AcceptHeader >= f.res.size
    BY <2>1, <2>2, <2>3
  <2>5. f.res.text => f.res.size % 256 = f.res.size
    BY <2>1 DEF LengthMod
  <2>6. Encodes(OutSize - slid.end - AcceptHeader, f.res)
    BY <2>4, <2>5 DEF Encodes, LengthMod
  <2> QED
    BY <1>7, <2>6
<1>11. size \in AcceptHeader..MaxResponse
  <2>1. f.res.size \in Nat /\ AcceptHeader + f.res.size <= MaxResponse
    BY <1>9, FunctionSizes
  <2>2. \/ kind = "ok" /\ size = AcceptHeader + f.res.size
        \/ kind = "mismatch" /\ size = MismatchSize
    BY <1>7, <1>10 DEF ReplySize, size
  <2> QED
    BY <2>1, <2>2, Sizes
<1>12. /\ Produced = UpTo(replies, Len(replies)) /\ rep.from = Produced
       /\ rep.to = Produced + size /\ rep.kind = kind
  BY StreamEnds
<1> HIDE DEF rep
<1>13. /\ Len(replies') = Len(replies) + 1 /\ replies'[Len(replies) + 1] = rep
       /\ \A j \in 1..Len(replies) : replies'[j] = replies[j]
  BY <1>4 DEF ServerTypes
<1>14. \/ /\ ~has_error' /\ rep.kind = "ok"
          /\ Len(log') = Len(log) + 1 /\ calls[Len(log) + 1].fn.exported
       \/ has_error' /\ log' = log /\ ~calls[Len(log) + 1].fn.exported
  <2>1. CASE kind = "ok"
    <3>1. log' = Append(log, k) /\ ~has_error' /\ rep.kind = "ok"
      BY <1>4, <1>12, <2>1
    <3>2. log \in Seq(Nat)
      BY DEF ServerTypes
    <3>3. Len(log') = Len(log) + 1
      BY <3>1, <3>2
    <3>4. calls[Len(log) + 1].fn.exported
      BY <1>7, <1>8, <2>1 DEF f
    <3> QED
      BY <3>1, <3>3, <3>4
  <2>2. CASE kind = "mismatch"
    BY <1>4, <1>7, <1>8, <2>2 DEF f
  <2> QED
    BY <1>7, <1>10, <2>1, <2>2
<1>15. ob \in Buffer /\ ob.start <= ob.end
  <2>1. size \in Nat /\ slid.start \in Nat /\ slid.end \in Nat
    BY <1>5, <1>11, Sizes DEF Buffer
  <2>2. ob.start = slid.start /\ ob.end = slid.end + size /\ ob \in Buffer
    BY <1>5, <2>1 DEF ob, Buffer
  <2> QED
    BY <1>5, <2>1, <2>2
<1>16. /\ fd_open => UNCHANGED <<conn, loop, stopped>>
       /\ fd_open /\ DataSize(outbuf)' > 0 => written' = got + SocketBuffer
  <2> SUFFICES ASSUME fd_open
               PROVE  /\ UNCHANGED <<conn, loop, stopped>>
                      /\ DataSize(outbuf)' > 0 => written' = got + SocketBuffer
    OBVIOUS
  <2>1. w.ok /\ (DataSize(ob) - w.n > 0 => written + w.n = got + SocketBuffer)
    BY <1>15, WritesMost
  <2>2. w.n \in Nat
    BY <1>15, WritesSome
  <2>3. DataSize(outbuf)' = DataSize(ob) - w.n
    <3>1. outbuf'.start = ob.start + w.n /\ outbuf'.end = ob.end
      BY <1>3, <1>15 DEF Buffer
    <3>2. ob.start \in Nat /\ ob.end \in Nat
      BY <1>15 DEF Buffer
    <3> QED
      BY <2>2, <3>1, <3>2 DEF DataSize
  <2> QED
    BY <1>3, <2>1, <2>3
<1>17. stopped => stopped'
  BY <1>3 DEF WriteFails, ServerTypes
<1>18. Len(log) + 1 <= Len(calls) /\ Len(replies) = Len(log)
  BY <1>8, Lengths
<1>19. replies'[Len(replies) + 1].from = UpTo(replies, Len(replies))
  BY <1>12, <1>13
<1>20. replies'[Len(replies) + 1].to = UpTo(replies, Len(replies)) + size
  BY <1>12, <1>13
<1>21. \E z \in AcceptHeader..MaxResponse :
         replies'[Len(replies) + 1].to = UpTo(replies, Len(replies)) + z
  BY <1>11, <1>20
<1>22. \/ /\ ~has_error' /\ replies'[Len(replies) + 1].kind = "ok"
          /\ Len(log') = Len(log) + 1 /\ calls[Len(log) + 1].fn.exported
       \/ /\ has_error' /\ log' = log
          /\ ~calls[Len(log) + 1].fn.exported
  BY <1>13, <1>14
<1> QED
  BY <1>2, <1>6, <1>13, <1>16, <1>17, <1>18, <1>19, <1>21, <1>22

-----------------------------------------------------------------------------
(***************************************************************************)
(* Nothing here depends on a hypothesis.                                   *)
(***************************************************************************)
LEMMA InitPipeInv == Init => PipeInv
<1> SUFFICES ASSUME Init PROVE PipeInv
  OBVIOUS
<1>1. IInv
  BY InitIInv
<1>2. AnswersInv /\ FlushInv /\ OutInv
  BY DEF Init, AnswersInv, FlushInv, OutInv, UpTo, DataSize
<1> QED
  BY <1>1, <1>2 DEF PipeInv

LEMMA AnswersStep ==
  ASSUME IInv, AnswersInv, [Next]_vars
  PROVE  AnswersInv'
<1>1. ASSUME UNCHANGED <<log, replies, has_error>>,
             Len(calls) <= Len(calls'), Len(calls') \in Nat,
             \A i \in 1..Len(calls) : calls'[i] = calls[i]
      PROVE  AnswersInv'
  <2>1. has_error => Len(replies) \in 1..Len(calls)
    BY Lengths DEF AnswersInv, IInv
  <2>2. has_error => Len(replies) <= Len(calls')
    BY <1>1, <2>1, Lengths DEF IInv
  <2> QED
    BY <1>1, <2>1, <2>2 DEF AnswersInv
<1>2. Len(calls) \in Nat /\ Len(log) \in Nat /\ Len(replies) \in Nat
      /\ DOMAIN replies = 1..Len(replies)
  BY Lengths DEF IInv
<1>3. ASSUME NEW f \in Functions, Send(f) PROVE AnswersInv'
  BY <1>1, <1>2, <1>3, SendFrame
<1>4. CASE ClientMoves
  BY <1>1, <1>2, <1>4, ClientFrame
<1>5. CASE ServerMoves
  BY <1>1, <1>2, <1>5, ServerFrame
<1>6. CASE HandleRequest
  <2> DEFINE n == Len(log) + 1
  <2>1. /\ ~has_error /\ calls' = calls
        /\ Len(replies) = Len(log) /\ n <= Len(calls) /\ Len(replies') = n
        /\ \A j \in 1..Len(log) : replies'[j] = replies[j]
        /\ replies'[n].from = UpTo(replies, Len(log))
        /\ \/ /\ ~has_error' /\ replies'[n].kind = "ok" /\ Len(log') = n
           \/ /\ has_error' /\ log' = log /\ ~calls[n].fn.exported
    BY <1>6, AnswerFrame
  <2>2. PICK size \in AcceptHeader..MaxResponse : replies'[n].to = UpTo(replies, Len(log)) + size
    BY <1>6, <2>1, AnswerFrame
  <2>3. UpTo(replies, Len(log)) \in Nat
    <3>1. Len(log) \in 0..Len(replies) /\ Len(log) \in 0..Len(log)
      BY <1>2, <2>1
    <3> QED
      BY <3>1, ReplyEnds
  <2>4. /\ replies'[n].from + AcceptHeader <= replies'[n].to
        /\ replies'[n].to <= replies'[n].from + MaxResponse
    BY <2>1, <2>2, <2>3, Sizes
  <2>5. \A j \in 1..Len(log) : replies[j].kind = "ok"
    BY DEF AnswersInv
  <2>6. DOMAIN replies' = 1..n
    BY <2>1, NextIInv, Lengths DEF IInv, ServerTypes
  <2>7. \A j \in 1..n : j = n \/ j \in 1..Len(log)
    BY <1>2
  <2>8. \A j \in 1..Len(log') : replies'[j].kind = "ok"
    <3>1. CASE Len(log') = n /\ replies'[n].kind = "ok"
      BY <2>1, <2>5, <2>7, <3>1
    <3>2. CASE log' = log
      BY <2>1, <2>5, <3>2
    <3> QED
      BY <2>1, <3>1, <3>2
  <2>9. IF has_error'
        THEN /\ Len(replies') = Len(log') + 1
             /\ Len(replies') <= Len(calls')
             /\ ~calls'[Len(replies')].fn.exported
        ELSE Len(replies') = Len(log')
    BY <2>1
  <2>10. \A j \in DOMAIN replies' : /\ replies'[j].from + AcceptHeader <= replies'[j].to
                                    /\ replies'[j].to <= replies'[j].from + MaxResponse
    <3>1. \A j \in 1..Len(log) : /\ replies[j].from + AcceptHeader <= replies[j].to
                                 /\ replies[j].to <= replies[j].from + MaxResponse
      BY <1>2, <2>1 DEF AnswersInv
    <3> HIDE DEF n
    <3> QED
      BY <2>1, <2>4, <2>6, <2>7, <3>1
  <2> QED
    BY <2>8, <2>9, <2>10 DEF AnswersInv
<1> QED
  BY <1>3, <1>4, <1>5, <1>6, Moves

\* The end of the replies to calls of earlier flushes does not move.
LEMMA FlushedStays ==
  ASSUME IInv, fd_open, [Next]_vars
  PROVE  UpTo(replies', flushed) = UpTo(replies, flushed)
<1>1. flushed \in 0..Len(replies)
  <2>1. NrDone <= Len(replies)
    BY DEF IInv, ClientInv
  <2> QED
    BY <2>1, Lengths DEF IInv, ClientTypes
<1>2. CASE replies' = replies
  BY <1>2
<1>3. CASE HandleRequest
  <2>1. \A j \in 1..Len(replies) : replies'[j] = replies[j]
    BY <1>3, AnswerFrame
  <2>2. flushed # 0 => flushed \in 1..Len(replies)
    BY <1>1, Lengths DEF IInv
  <2> QED
    BY <2>1, <2>2 DEF UpTo
<1> QED
  BY <1>2, <1>3, Moves, SendFrame, ClientFrame, ServerFrame

LEMMA FlushInvStep ==
  ASSUME IInv, FlushInv, [Next]_vars
  PROVE  FlushInv'
<1>1. fd_open => UpTo(replies', flushed) = UpTo(replies, flushed)
  BY FlushedStays
<1>2. ASSUME UNCHANGED <<phase, fd_open, flushed, nr_replied, insz, instart, got>>
      PROVE  FlushInv'
  BY <1>1, <1>2 DEF FlushInv
<1>3. ASSUME NEW f \in Functions, Send(f) PROVE FlushInv'
  BY <1>2, <1>3, SendFrame
<1>4. CASE ServerMoves
  BY <1>2, <1>4, ServerFrame
<1>5. CASE HandleRequest
  BY <1>2, <1>5, AnswerFrame
<1>6. CASE ClientMoves /\ fd_open'
  <2>1. fd_open /\ replies' = replies /\ calls' = calls
    BY <1>6, ClientFrame
  <2>2. got - insz = UpTo(replies, flushed)
    BY <2>1 DEF FlushInv
  <2>3. StartsReading \/ ReadsSome \/ ParsesOne \/ ReadsOn \/ Returns \/ FindsNothing
    BY <1>6, FlushFrame
  <2>4. CASE Returns
    <3>1. Parsed = UpTo(replies, NrDone) /\ NrDone = Len(calls) /\ insz = instart
      BY <2>1, <2>4 DEF Returns, IInv, ClientInv
    <3>2. got \in Nat /\ insz \in Nat
      BY DEF IInv, ClientTypes, StreamTypes
    <3>3. got = UpTo(replies, Len(calls))
      BY <3>1, <3>2 DEF Parsed
    <3>4. got' - insz' = got
      BY <2>4, <3>2 DEF Returns
    <3> QED
      BY <2>1, <2>4, <3>3, <3>4 DEF Returns, FlushInv
  <2>5. CASE StartsReading \/ ReadsSome \/ ParsesOne \/ ReadsOn
    BY <2>1, <2>2, <2>5 DEF StartsReading, ReadsSome, ParsesOne, ReadsOn, FlushInv
  <2>6. CASE FindsNothing
    BY <1>2, <2>1, <2>6, <1>6 DEF FindsNothing, FlushInv
  <2> QED
    BY <2>3, <2>4, <2>5, <2>6
<1>7. CASE ClientMoves /\ ~fd_open'
  <2>1. CASE Fail
    BY <1>7, <2>1 DEF FlushInv, Fail
  <2>2. CASE Leave
    BY <1>7, <2>2 DEF FlushInv, Leave
  <2>3. CASE ~Fail /\ ~Leave
    <3>1. phase \in {"read", "parse"} => fd_open
      BY DEF IInv, ClientInv
    <3>2. StartFlush \/ FlushStep
      BY <1>7, <2>3 DEF ClientMoves
    <3>3. fd_open' = fd_open /\ fd_open
      BY <2>3, <3>1, <3>2 DEF StartFlush, FlushStep, ReadReplies, ReadEnd, PollNothing, ParseReply,
                              ParseError, ParseDone, vars, clientVars
    <3> QED
      BY <1>7, <3>3
  <2> QED
    BY <2>1, <2>2, <2>3
<1> QED
  BY <1>3, <1>4, <1>5, <1>6, <1>7, Moves

LEMMA RepliesBelowCalls ==
  ASSUME IInv, AnswersInv
  PROVE  Len(replies) <= Len(calls)
BY Lengths DEF IInv, ServerInv, AnswersInv

\* The numbers a server's step may not disturb.
LEMMA ReplyNumbers ==
  ASSUME IInv
  PROVE  /\ Len(replies) \in Nat /\ Len(calls) \in Nat /\ Len(log) \in Nat
         /\ written \in Nat /\ got \in Nat /\ got <= written /\ insz \in Nat
         /\ DataSize(outbuf) \in Nat /\ DataSize(inbuf) \in Nat
         /\ written + DataSize(outbuf) = UpTo(replies, Len(replies))
         /\ UpTo(replies, Len(replies)) \in Nat
         /\ flushed \in Nat
         /\ fd_open => flushed \in 0..Len(replies) /\ UpTo(replies, flushed) \in Nat
<1>1. Len(replies) \in Nat /\ Len(calls) \in Nat /\ Len(log) \in Nat /\ flushed <= NrDone
      /\ flushed \in Nat /\ NrDone \in Nat
  BY Lengths DEF IInv, ClientTypes
<1>2. written \in Nat /\ got \in Nat /\ got <= written /\ insz \in Nat
  BY DEF IInv, StreamTypes, ClientTypes
<1>3. DataSize(outbuf) \in Nat /\ DataSize(inbuf) \in Nat
  BY DEF IInv, ServerTypes, DataSize, Buffer
<1>4. written + DataSize(outbuf) = UpTo(replies, Len(replies))
  BY DEF IInv, RepliesInv
<1>5. fd_open => NrDone <= Len(replies)
  BY DEF IInv, ClientInv
<1>6. fd_open => flushed \in 0..Len(replies) /\ Len(replies) \in 0..Len(replies)
  BY <1>1, <1>5
<1>7. fd_open => UpTo(replies, flushed) \in Nat
  BY <1>6, ReplyEnds, Zenon
<1>8. UpTo(replies, Len(replies)) \in Nat
  BY <1>2, <1>3, <1>4
<1> QED
  BY <1>1, <1>2, <1>3, <1>4, <1>6, <1>7, <1>8

LEMMA OutInvStep ==
  ASSUME PipeInv, [Next]_vars
  PROVE  OutInv'
<1> SUFFICES ASSUME fd_open', DataSize(outbuf)' > 0
             PROVE  written' >= UpTo(replies', flushed') + SocketBuffer
  BY DEF OutInv
<1>1. IInv /\ AnswersInv /\ FlushInv /\ OutInv /\ IInv'
  BY NextIInv DEF PipeInv
<1>2. ASSUME fd_open, flushed' = flushed, DataSize(outbuf) > 0, written' \in Nat, written <= written'
      PROVE  written' >= UpTo(replies', flushed') + SocketBuffer
  <2>1. UpTo(replies', flushed) = UpTo(replies, flushed)
    BY <1>1, <1>2, FlushedStays
  <2>2. written >= UpTo(replies, flushed) + SocketBuffer
    BY <1>1, <1>2 DEF OutInv
  <2>3. UpTo(replies, flushed) \in Nat /\ written \in Nat
    BY <1>1, <1>2, ReplyNumbers
  <2> QED
    BY <1>2, <2>1, <2>2, <2>3, Sizes
\* The kernel's buffer is full.
<1>3. ASSUME fd_open, flushed' = flushed, written' = got + SocketBuffer
      PROVE  written' >= UpTo(replies', flushed') + SocketBuffer
  <2>1. UpTo(replies', flushed) = UpTo(replies, flushed)
    BY <1>1, <1>3, FlushedStays
  <2>2. got - insz = UpTo(replies, flushed)
    BY <1>1, <1>3 DEF FlushInv
  <2>3. got \in Nat /\ insz \in Nat
    BY <1>1, ReplyNumbers
  <2> QED
    BY <1>3, <2>1, <2>2, <2>3, Sizes
<1>4. written \in Nat
  BY <1>1, ReplyNumbers
<1>5. ASSUME NEW f \in Functions, Send(f)
      PROVE  written' >= UpTo(replies', flushed') + SocketBuffer
  <2>1. UNCHANGED <<fd_open, flushed, written, outbuf>>
    BY <1>1, <1>5, SendFrame
  <2> QED
    BY <1>2, <1>4, <2>1 DEF DataSize
<1>6. CASE ClientMoves
  <2>1. UNCHANGED <<written, outbuf, replies, calls>> /\ fd_open
    BY <1>1, <1>6, ClientFrame
  <2>2. DataSize(outbuf) > 0
    BY <2>1 DEF DataSize
  <2>3. StartsReading \/ ReadsSome \/ ParsesOne \/ ReadsOn \/ Returns \/ FindsNothing
    BY <1>1, <1>6, FlushFrame
  <2>4. CASE flushed' = flushed
    BY <1>2, <1>4, <2>1, <2>2, <2>4
\* A flush that returns has read all that was written and is to be written.
  <2>5. CASE Returns
    <3>1. Parsed = UpTo(replies, NrDone) /\ NrDone = Len(calls) /\ insz = instart
          /\ NrDone <= Len(replies)
      BY <1>1, <2>1, <2>5 DEF Returns, IInv, ClientInv
    <3>2. Len(replies) = Len(calls)
      BY <1>1, <3>1, RepliesBelowCalls, ReplyNumbers
    <3>3. got = UpTo(replies, Len(replies))
      BY <1>1, <3>1, <3>2, ReplyNumbers DEF Parsed
    <3>4. written + DataSize(outbuf) = got
      BY <1>1, <3>3, ReplyNumbers
    <3> QED
      BY <1>1, <2>2, <3>4, ReplyNumbers
  <2> QED
    BY <2>3, <2>4, <2>5 DEF StartsReading, ReadsSome, ParsesOne, ReadsOn, FindsNothing
<1>7. CASE HandleRequest
  <2>1. fd_open /\ flushed' = flushed /\ written' = got + SocketBuffer
    BY <1>1, <1>7, AnswerFrame
  <2> QED
    BY <1>3, <2>1
<1>8. CASE OnConnectionEvent
  <2>1. UNCHANGED <<fd_open, flushed>>
    BY <1>1, <1>8, ServerFrame DEF ServerMoves
  <2>2. PICK events \in (SUBSET Events) \ {{}} :
        \E w \in (IF "out" \in events THEN Writes(outbuf) ELSE {[ok |-> TRUE, n |-> 0]}) :
         IF ~w.ok THEN UNCHANGED <<outbuf, written>>
         ELSE outbuf' = [outbuf EXCEPT !.start = @ + w.n] /\ written' = written + w.n
    BY <1>8 DEF OnConnectionEvent
  <2>3. PICK w \in (IF "out" \in events THEN Writes(outbuf) ELSE {[ok |-> TRUE, n |-> 0]}) :
         IF ~w.ok THEN UNCHANGED <<outbuf, written>>
         ELSE outbuf' = [outbuf EXCEPT !.start = @ + w.n] /\ written' = written + w.n
    BY <2>2
  <2>4. outbuf \in Buffer /\ outbuf.start <= outbuf.end
    BY <1>1 DEF IInv, ServerTypes
  <2>5. CASE "out" \in events
    <3>1. w \in Writes(outbuf)
      BY <2>3, <2>5
    <3>2. w.ok /\ w.n \in Nat /\ (DataSize(outbuf) - w.n > 0 => written + w.n = got + SocketBuffer)
      BY <1>1, <2>1, <2>4, <3>1, WritesMost, WritesSome
    <3>3. DataSize(outbuf)' = DataSize(outbuf) - w.n /\ written' = written + w.n
      BY <2>3, <2>4, <3>2 DEF DataSize, Buffer
    <3> QED
      BY <1>3, <2>1, <3>2, <3>3
  <2>6. CASE "out" \notin events
    <3>1. w.ok /\ w.n = 0
      BY <2>3, <2>6
    <3>2. DataSize(outbuf)' = DataSize(outbuf) /\ written' = written
      BY <1>4, <2>3, <2>4, <3>1 DEF DataSize, Buffer
    <3> QED
      BY <1>2, <1>4, <2>1, <3>2
  <2> QED
    BY <2>5, <2>6
<1>9. CASE ServerMoves /\ ~OnConnectionEvent
  <2>1. UNCHANGED <<fd_open, flushed>>
    BY <1>1, <1>9, ServerFrame
  <2>2. written' = written /\ outbuf' \in {outbuf, Slid(outbuf, OutSize, MaxResponse)}
    BY <1>9 DEF ServerMoves, OnReset, EndPipeline, Stop, Waiting, vars, serverVars, streamVars
  <2>3. DataSize(Slid(outbuf, OutSize, MaxResponse)) = DataSize(outbuf)
    BY <1>1, Sizes, SlidBuffer DEF IInv, ServerTypes
  <2>4. DataSize(outbuf)' = DataSize(outbuf)
    BY <2>2, <2>3 DEF DataSize
  <2> QED
    BY <1>2, <1>4, <2>1, <2>2, <2>4
<1> QED
  BY <1>5, <1>6, <1>7, <1>8, <1>9, Moves

\* The counting invariant holds for all sizes and functions: HandleRequest, Write and Read count
\* bytes as Send and Flush do.
THEOREM PipeInvariant == Spec => []PipeInv
<1>1. Init => PipeInv
  BY InitPipeInv
<1>2. PipeInv /\ [Next]_vars => PipeInv'
  BY NextIInv, AnswersStep, FlushInvStep, OutInvStep DEF PipeInv
<1> QED
  BY <1>1, <1>2, PTL DEF Spec

-----------------------------------------------------------------------------
(***************************************************************************)
(* With SocketHolds no call waits for room.                                *)
(***************************************************************************)
\* The replies since the last flush.
LEMMA CountedReplies ==
  ASSUME IInv, AnswersInv, fd_open
  PROVE  UpTo(replies, Len(replies))
           <= UpTo(replies, flushed) + (Len(replies) - flushed) * MaxResponse
<1> DEFINE S == [kind : {"ok", "mismatch", "garbage_args"}, from : Nat, to : Nat]
<1>1. replies \in Seq(S) /\ Chain(replies)
  BY CallSets
<1> HIDE DEF S
<1>2. \A i \in DOMAIN replies : replies[i].to <= replies[i].from + MaxResponse
  BY DEF AnswersInv
<1>3. Len(replies) \in 0..Len(replies) /\ flushed \in 0..Len(replies) /\ MaxResponse \in Nat
  BY ReplyNumbers, Sizes
<1> QED
  BY <1>1, <1>2, <1>3, UpToBounded

LEMMA Times ==
  ASSUME NEW a \in Int, NEW c \in Int, NEW b \in Nat, a <= c
  PROVE  a * b <= c * b /\ a * b \in Int /\ c * b \in Int
<1>1. c - a \in Nat
  OBVIOUS
<1>2. (c - a) * b \in Nat
  BY <1>1
<1>3. (c - a) * b = c * b - a * b
  OBVIOUS
<1> QED
  BY <1>2, <1>3

LEMMA FrontCall ==
  ASSUME IInv, ~has_error
  PROVE  /\ \A k \in CallHere : k = Len(log) + 1 /\ k \in 1..Len(calls)
         /\ Len(log) < Len(calls) => Len(log) + 1 \in CallHere
         /\ DataSize(inbuf) > 0 => Len(log) < Len(calls)
<1>1. taken - DataSize(inbuf) = UpTo(calls, Len(log)) /\ Len(log) <= Len(calls)
  BY DEF IInv, ServerInv
<1>2. Len(calls) \in Nat /\ Len(log) \in 0..Len(calls) /\ DOMAIN calls = 1..Len(calls)
  BY <1>1, Lengths DEF IInv
<1>3. ASSUME NEW k \in CallHere PROVE k = Len(log) + 1 /\ k \in 1..Len(calls)
  <2> DEFINE S == [fn : Functions, from : Nat, to : Nat]
  <2>1. calls \in Seq(S) /\ Chain(calls)
    BY CallSets
  <2> HIDE DEF S
  <2>2. k \in DOMAIN calls /\ calls[k].from = UpTo(calls, Len(log))
    BY <1>1 DEF CallHere
  <2>3. k = Len(log) + 1
    BY <1>2, <2>1, <2>2, ChainNext
  <2> QED
    BY <1>2, <2>2, <2>3
<1>4. ASSUME Len(log) < Len(calls) PROVE Len(log) + 1 \in CallHere
  <2> DEFINE k == Len(log) + 1
  <2>1. k \in DOMAIN calls /\ k - 1 = Len(log) /\ (k = 1 <=> Len(log) = 0)
    BY <1>2, <1>4
  <2>2. calls[k].from = IF k = 1 THEN 0 ELSE calls[k - 1].to
    BY <2>1 DEF IInv, CallsInv, Chain
  <2>3. calls[k].from = UpTo(calls, Len(log))
    BY <2>1, <2>2 DEF UpTo
  <2> QED
    BY <1>1, <2>1, <2>3 DEF CallHere
<1>5. ASSUME DataSize(inbuf) > 0 PROVE Len(log) < Len(calls)
  <2>1. taken <= sent /\ sent <= UpTo(calls, Len(calls)) /\ taken \in Nat /\ sent \in Nat
    BY DEF IInv, StreamTypes, CallsInv
  <2>2. UpTo(calls, Len(calls)) \in Nat
    BY StreamEnds DEF IInv
  <2>3. DataSize(inbuf) \in Nat
    BY ReplyNumbers
  <2>4. Len(log) # Len(calls)
    BY <1>1, <1>5, <2>1, <2>2, <2>3
  <2> QED
    BY <1>2, <2>4
<1> QED
  BY <1>3, <1>4, <1>5

\* As long as a call is to be answered there is room for the answer: what the server still
\* holds, and the kernel before it, are replies to the other calls of the pipeline.
LEMMA RoomForAnswer ==
  ASSUME PipeInv, SocketHolds, fd_open, ~has_error, Len(log) < Len(calls)
  PROVE  Room(Slid(outbuf, OutSize, MaxResponse))
<1> DEFINE slid == Slid(outbuf, OutSize, MaxResponse)
<1> SUFFICES ASSUME ~Room(slid) PROVE FALSE
  OBVIOUS
<1>1. IInv /\ AnswersInv /\ OutInv
  BY DEF PipeInv
<1>2. /\ outbuf.start \in Nat /\ outbuf.end \in Nat /\ outbuf.start <= outbuf.end
      /\ outbuf.end <= OutSize
  BY <1>1 DEF IInv, ServerTypes, Buffer
<1>3. /\ MaxResponse \in Nat /\ MaxResponse > 0 /\ OutSize = 2 * MaxResponse
      /\ SocketBuffer \in Nat /\ MaxPipeline \in Nat
  BY Sizes
<1>4. DataSize(outbuf) >= MaxResponse
  <2>1. CASE OutSize - outbuf.end <= MaxResponse
    <3>1. slid.end = outbuf.end - outbuf.start
      BY <2>1 DEF Slid
    <3>2. ~(OutSize - slid.end > MaxResponse)
      BY DEF Room
    <3> HIDE DEF slid
    <3> QED
      BY <1>2, <1>3, <3>1, <3>2 DEF DataSize
  <2>2. CASE ~(OutSize - outbuf.end <= MaxResponse)
    <3>1. slid = outbuf
      BY <2>2 DEF Slid
    <3>2. ~(OutSize - outbuf.end > MaxResponse)
      BY <3>1 DEF Room
    <3> QED
      BY <1>2, <1>3, <2>2, <3>2
  <2> QED
    BY <2>1, <2>2
<1> HIDE DEF slid
<1>5. written >= UpTo(replies, flushed) + SocketBuffer
  BY <1>1, <1>3, <1>4, ReplyNumbers DEF OutInv
<1>6. UpTo(replies, Len(replies))
        <= UpTo(replies, flushed) + (Len(replies) - flushed) * MaxResponse
  BY <1>1, CountedReplies
<1>7. Len(replies) - flushed <= MaxPipeline - 1
  <2>1. Len(replies) = Len(log) /\ Len(calls) - flushed <= MaxPipeline
    BY <1>1 DEF IInv, ServerInv, ClientTypes
  <2> QED
    BY <1>1, <1>3, <2>1, ReplyNumbers
<1>8. Len(replies) - flushed \in Int /\ MaxPipeline - 1 \in Int
  BY <1>1, <1>3, ReplyNumbers
<1>9. /\ (Len(replies) - flushed) * MaxResponse <= (MaxPipeline - 1) * MaxResponse
      /\ (Len(replies) - flushed) * MaxResponse \in Int
      /\ (MaxPipeline - 1) * MaxResponse \in Int
  BY <1>3, <1>7, <1>8, Times
<1>10. (MaxPipeline - 1) * MaxResponse = (MaxPipeline - 2) * MaxResponse + MaxResponse
       /\ (MaxPipeline - 2) * MaxResponse \in Int
  BY <1>3
<1>11. (MaxPipeline - 2) * MaxResponse < SocketBuffer
  BY DEF SocketHolds
<1>12. /\ written + DataSize(outbuf) = UpTo(replies, Len(replies))
       /\ written \in Nat /\ DataSize(outbuf) \in Nat
       /\ UpTo(replies, Len(replies)) \in Nat /\ UpTo(replies, flushed) \in Nat
  BY <1>1, ReplyNumbers
<1>13. \A w, d, u, p, x, y, z, r, b \in Int :
         /\ w + d = u /\ d >= r /\ w >= p + b /\ u <= p + x /\ x <= y /\ y = z + r
         => b <= z
  OBVIOUS
<1>14. SocketBuffer <= (MaxPipeline - 2) * MaxResponse
  BY <1>3, <1>4, <1>5, <1>6, <1>9, <1>10, <1>12, <1>13
<1> QED
  BY <1>3, <1>10, <1>11, <1>14

\* The loop of the server ends only when the call in front has to wait.
LEMMA PipelineEnds ==
  ASSUME PipeInv, SocketHolds, fd_open, ~has_error, EndPipeline
  PROVE  FrontWaits
<1> DEFINE slid == Slid(outbuf, OutSize, MaxResponse)
<1> SUFFICES ASSUME NEW k \in CallHere, ~(DataSize(inbuf) < CallHeader)
             PROVE  calls[k].fn.exported /\ ~Arrived(calls[k].fn)
  BY DEF FrontWaits
<1>1. Answer(k, slid) = "none"
  BY DEF EndPipeline
<1>2. Room(slid)
  <2>1. k = Len(log) + 1 /\ k \in 1..Len(calls) /\ Len(log) \in Nat
    BY FrontCall, Lengths DEF PipeInv, IInv
  <2>2. Len(log) < Len(calls)
    BY <2>1
  <2> QED
    BY <2>2, RoomForAnswer
<1> HIDE DEF slid
<1>3. Verdict(calls[k].fn, OutSize - slid.end) \in {"none", "incomplete"}
  BY <1>1, <1>2 DEF Answer
<1> QED
  BY <1>3 DEF Verdict

\* Moving what has arrived does not make a call of it.
LEMMA FrontStays ==
  ASSUME FrontWaits, calls' = calls, taken' = taken, DataSize(inbuf)' = DataSize(inbuf)
  PROVE  FrontWaits'
<1>1. CallHere' = CallHere
  BY DEF CallHere
<1>2. \A f : Arrived(f)' <=> Arrived(f)
  BY DEF Arrived
<1> QED
  BY <1>1, <1>2 DEF FrontWaits

LEMMA NoCallWaitsStep ==
  ASSUME PipeInv, NoCallWaits, SocketHolds, [Next]_vars
  PROVE  NoCallWaits'
<1> SUFFICES ASSUME fd_open', conn' = "open", loop' = "wait", ~has_error'
             PROVE  FrontWaits'
  BY DEF NoCallWaits, FrontWaits
<1>1. IInv
  BY DEF PipeInv
<1>2. ASSUME fd_open, conn = "open", loop = "wait", ~has_error PROVE FrontWaits
  BY <1>2 DEF NoCallWaits, FrontWaits
<1>3. ASSUME NEW f \in Functions, Send(f) PROVE FrontWaits'
  <2>1. /\ UNCHANGED <<fd_open, conn, loop, has_error, inbuf, taken>>
        /\ Len(calls') = Len(calls) + 1
        /\ \A i \in 1..Len(calls) : calls'[i] = calls[i]
        /\ calls'[Len(calls) + 1].from = Encoded
    BY <1>1, <1>3, SendFrame
  <2>2. FrontWaits /\ DataSize(inbuf)' = DataSize(inbuf) /\ CallHeader \in Nat /\ CallHeader > 0
    BY <1>2, <2>1, Sizes DEF DataSize
  <2>3. ASSUME NEW k \in CallHere'
        PROVE  DataSize(inbuf) < CallHeader \/ (k \in CallHere /\ calls'[k] = calls[k])
    <3>1. k \in DOMAIN calls' /\ calls'[k].from = taken - DataSize(inbuf)
      BY <2>1, <2>2 DEF CallHere
    <3>2. calls' \in Seq([fn : Functions, from : Nat, to : Nat])
      BY <1>1, <1>3, NextIInv, Moves DEF IInv, ClientTypes, Next, ClientStep
    <3>3. k \in 1..(Len(calls) + 1) /\ Len(calls) \in Nat /\ DOMAIN calls = 1..Len(calls)
      BY <1>1, <2>1, <3>1, <3>2, Lengths DEF IInv
    <3>4. CASE k \in 1..Len(calls)
      BY <2>1, <3>1, <3>3, <3>4 DEF CallHere
    <3>5. CASE k = Len(calls) + 1
      <4>1. Encoded = taken - DataSize(inbuf)
        BY <2>1, <3>1, <3>5
      <4>2. taken <= Encoded /\ taken \in Nat /\ Encoded \in Nat
        BY <1>1, StreamEnds DEF IInv, StreamTypes, CallsInv
      <4>3. DataSize(inbuf) \in Nat
        BY <1>1, ReplyNumbers
      <4> QED
        BY <2>2, <4>1, <4>2, <4>3
    <3> QED
      BY <3>3, <3>4, <3>5
  <2>4. \A f1 : Arrived(f1)' <=> Arrived(f1)
    BY <2>2 DEF Arrived
  <2> QED
    BY <2>2, <2>3, <2>4 DEF FrontWaits
<1>4. CASE ClientMoves
  <2>1. UNCHANGED <<calls, taken, conn, loop, inbuf, has_error>> /\ fd_open
    BY <1>1, <1>4, ClientFrame
  <2> QED
    BY <1>2, <2>1, FrontStays DEF DataSize
<1>5. CASE HandleRequest
  <2>1. fd_open' = fd_open /\ loop = "pipeline" /\ (fd_open => loop' = loop)
    BY <1>1, <1>5, AnswerFrame
  <2> QED
    BY <2>1
<1>6. CASE EndPipeline
  <2>1. UNCHANGED <<fd_open, calls, has_error, taken, inbuf>>
    BY <1>6 DEF EndPipeline, clientVars, streamVars
  <2>2. FrontWaits
    BY <1>6, <2>1, PipelineEnds
  <2> QED
    BY <2>1, <2>2, FrontStays DEF DataSize
<1>7. CASE OnConnectionEvent
  <2>1. conn = "open" /\ loop = "wait" /\ UNCHANGED <<fd_open, calls, has_error>>
    BY <1>7 DEF OnConnectionEvent, clientVars
  <2>2. FrontWaits
    BY <1>2, <2>1
  <2>3. taken' = taken /\ inbuf' \in {inbuf, Slid(inbuf, InSize, 0)}
    BY <1>7 DEF OnConnectionEvent, WriteFails, ReadCalls, Close
  <2>4. DataSize(Slid(inbuf, InSize, 0)) = DataSize(inbuf)
    BY <1>1, Sizes, SlidBuffer DEF IInv, ServerTypes
  <2>5. DataSize(inbuf)' = DataSize(inbuf)
    BY <2>3, <2>4 DEF DataSize
  <2> QED
    BY <2>1, <2>2, <2>3, <2>5, FrontStays
<1>8. CASE OnReset \/ Stop
  BY <1>8 DEF OnReset, Stop, Close
<1>9. CASE Waiting \/ UNCHANGED vars
  <2>1. UNCHANGED <<fd_open, calls, has_error, taken, inbuf, conn, loop>>
    BY <1>9 DEF Waiting, vars, clientVars, serverVars, streamVars
  <2> QED
    BY <1>2, <2>1, FrontStays DEF DataSize
<1> QED
  BY <1>3, <1>4, <1>5, <1>6, <1>7, <1>8, <1>9, Moves DEF ServerMoves

\* With a socket buffer that takes a pipeline of responses but two, the server never goes to
\* sleep on a call that it could answer.
THEOREM CallsAnswered == SocketHolds => (Spec => []NoCallWaits)
<1> SUFFICES ASSUME SocketHolds PROVE Spec => []NoCallWaits
  OBVIOUS
<1>1. Init => NoCallWaits
  <2> SUFFICES ASSUME Init PROVE NoCallWaits
    OBVIOUS
  <2>1. DataSize(inbuf) = 0 /\ CallHeader \in Nat /\ CallHeader > 0
    BY Sizes DEF Init, DataSize
  <2> QED
    BY <2>1 DEF NoCallWaits
<1>2. PipeInv /\ NoCallWaits /\ [Next]_vars => NoCallWaits'
  BY NoCallWaitsStep
<1> QED
  BY <1>1, <1>2, PipeInvariant, PTL DEF Spec

-----------------------------------------------------------------------------
(***************************************************************************)
(* With TextsCounted a buffer that is full holds a call, or a reply, that  *)
(* is complete.                                                            *)
(***************************************************************************)
LEMMA FrontFits ==
  ASSUME IInv, TextsCounted, ~has_error, FrontWaits
  PROVE  DataSize(inbuf) < InSize
<1> SUFFICES ASSUME ~(DataSize(inbuf) < InSize) PROVE FALSE
  OBVIOUS
<1>1. MaxRequest \in Nat \ {0} /\ InSize = 2 * MaxRequest /\ CallHeader \in Nat
  BY RpcAssumption DEF InSize
<1>2. DataSize(inbuf) = InSize
  <2>1. inbuf.start \in Nat /\ inbuf.end \in Nat /\ inbuf.end <= InSize
    BY DEF IInv, ServerTypes, Buffer
  <2> QED
    BY <1>1, <2>1 DEF DataSize
<1> DEFINE k == Len(log) + 1
           f == calls[k].fn
<1>3. k \in CallHere /\ k \in 1..Len(calls)
  BY <1>1, <1>2, FrontCall
<1>4. f \in Functions
  BY <1>3, CallSets
<1>5. f.exported /\ ~Arrived(f)
  <2>1. f.size \in Nat /\ CallHeader + f.size <= MaxRequest
    BY <1>4, FunctionSizes, RpcAssumption
  <2>2. ~(DataSize(inbuf) < CallHeader)
    BY <1>1, <1>2, <2>1
  <2> QED
    BY <1>3, <2>2 DEF FrontWaits
<1> HIDE DEF f
<1>6. /\ f \in Function /\ f.size \in Nat /\ CallHeader + f.size <= MaxRequest
      /\ \A a \in f.args : a.at + a.size <= f.size
  BY <1>4, FunctionSizes, RpcAssumption
<1>7. DataSize(inbuf) >= CallHeader
  BY <1>1, <1>2, <1>6
<1>8. ASSUME NEW a \in f.args PROVE Decodes(DataSize(inbuf) - CallHeader - a.at, a)
  <2>1. a \in Field
    BY <1>6 DEF Function
  <2>2. a.at \in Nat /\ a.size \in Nat /\ a.at + a.size <= f.size
    BY <1>6, <2>1 DEF Field
  <2>3. InSize - CallHeader - a.at \in a.size..(InSize - CallHeader - a.at)
    BY <1>1, <1>6, <2>2
  <2>4. Decodes(InSize - CallHeader - a.at, a)
    BY <1>4, <2>3 DEF TextsCounted
  <2> QED
    BY <1>2, <2>4
<1> QED
  BY <1>5, <1>7, <1>8 DEF Arrived

LEMMA CloseInvStep ==
  ASSUME PipeInv, NoCallWaits, CloseInv, SocketHolds, TextsCounted, [Next]_vars
  PROVE  CloseInv'
<1> SUFFICES ASSUME fd_open', conn' = "closed"
             PROVE  stopped' \/ (has_error' /\ DataSize(outbuf)' = 0)
  BY DEF CloseInv
<1>1. IInv
  BY DEF PipeInv
<1>2. ASSUME UNCHANGED <<fd_open, conn, has_error, outbuf>>, stopped => stopped'
      PROVE  stopped' \/ (has_error' /\ DataSize(outbuf)' = 0)
  BY <1>2 DEF CloseInv, DataSize
<1>3. ASSUME NEW f \in Functions, Send(f)
      PROVE  stopped' \/ (has_error' /\ DataSize(outbuf)' = 0)
  BY <1>1, <1>2, <1>3, SendFrame
<1>4. CASE ClientMoves
  BY <1>1, <1>2, <1>4, ClientFrame
<1>5. CASE HandleRequest
  <2>1. fd_open' = fd_open /\ conn = "open" /\ (fd_open => conn' = conn)
    BY <1>1, <1>5, AnswerFrame
  <2> QED
    BY <2>1
\* Back in MainLoop the input buffer is full only after an error.
<1>6. ASSUME NEW ib \in Buffer, ib.start <= ib.end, DataSize(ib) = DataSize(inbuf),
             NEW ob \in Buffer, ob.start <= ob.end, BackToWait(ib, ob),
             outbuf' = ob, has_error' = has_error, ~has_error => FrontWaits
      PROVE  has_error' /\ DataSize(outbuf)' = 0
  <2>1. ~WantsOut(ob) /\ (has_error \/ ~WantsIn(ib))
    BY <1>6 DEF BackToWait
  <2>2. DataSize(outbuf)' = 0
    <3>1. DataSize(ob) \in Nat
      BY <1>6 DEF DataSize, Buffer
    <3> QED
      BY <1>6, <2>1, <3>1 DEF WantsOut, DataSize
  <2>3. has_error
    <3> SUFFICES ASSUME ~has_error PROVE FALSE
      OBVIOUS
    <3>1. ~(ib.end < InSize) /\ ~(ib.start > 0)
      BY <2>1 DEF WantsIn
    <3>2. DataSize(inbuf) < InSize
      BY <1>1, <1>6, FrontFits
    <3>3. ib.start \in Nat /\ ib.end \in Nat /\ DataSize(ib) = ib.end - ib.start
      BY DEF Buffer, DataSize
    <3> QED
      BY <1>6, <3>1, <3>2, <3>3, Sizes
  <2> QED
    BY <1>6, <2>2, <2>3
<1>7. CASE EndPipeline
  <2> DEFINE slid == Slid(outbuf, OutSize, MaxResponse)
  <2>1. fd_open' = fd_open /\ has_error' = has_error /\ outbuf' = slid /\ BackToWait(inbuf, slid)
    BY <1>7 DEF EndPipeline, clientVars
  <2>2. slid \in Buffer /\ slid.start <= slid.end
    BY <1>1, Sizes, SlidBuffer DEF IInv, ServerTypes
  <2>3. inbuf \in Buffer /\ inbuf.start <= inbuf.end
    BY <1>1 DEF IInv, ServerTypes
  <2> HIDE DEF slid
  <2>4. ~has_error => FrontWaits
    BY <1>7, <2>1, PipelineEnds
  <2> QED
    BY <1>6, <2>1, <2>2, <2>3, <2>4
<1>8. CASE OnConnectionEvent
  <2>1. conn = "open" /\ loop = "wait" /\ UNCHANGED <<fd_open, has_error>>
    BY <1>8 DEF OnConnectionEvent, clientVars
  <2>2. ~has_error => FrontWaits
    BY <2>1 DEF NoCallWaits, FrontWaits
  <2>3. PICK events \in (SUBSET Events) \ {{}} :
        \E w \in (IF "out" \in events THEN Writes(outbuf) ELSE {[ok |-> TRUE, n |-> 0]}) :
         IF ~w.ok THEN WriteFails
         ELSE LET ob == [outbuf EXCEPT !.start = @ + w.n] IN
              /\ outbuf' = ob
              /\ IF "in" \in events THEN ReadCalls(ob) ELSE BackToWait(inbuf, ob)
    BY <1>8 DEF OnConnectionEvent
  <2>4. PICK w \in (IF "out" \in events THEN Writes(outbuf) ELSE {[ok |-> TRUE, n |-> 0]}) :
         IF ~w.ok THEN WriteFails
         ELSE LET ob == [outbuf EXCEPT !.start = @ + w.n] IN
              /\ outbuf' = ob
              /\ IF "in" \in events THEN ReadCalls(ob) ELSE BackToWait(inbuf, ob)
    BY <2>3
  <2>5. /\ outbuf \in Buffer /\ outbuf.start <= outbuf.end
        /\ inbuf \in Buffer /\ inbuf.start <= inbuf.end
    BY <1>1 DEF IInv, ServerTypes
  <2>6. w.ok /\ w.n \in Nat /\ w.n <= DataSize(outbuf)
    <3>1. CASE "out" \in events
      BY <1>1, <2>1, <2>4, <2>5, <3>1, WritesMost, WritesSome
    <3>2. CASE "out" \notin events
      BY <1>1, <2>4, <3>2, ReplyNumbers
    <3> QED
      BY <3>1, <3>2
  <2> DEFINE ob == [outbuf EXCEPT !.start = @ + w.n]
             ib == Slid(inbuf, InSize, 0)
  <2>7. /\ outbuf' = ob
        /\ IF "in" \in events THEN ReadCalls(ob) ELSE BackToWait(inbuf, ob)
    BY <2>4, <2>6
  <2>8. ob \in Buffer /\ ob.start <= ob.end
    BY <2>5, <2>6 DEF Buffer, DataSize
  <2>9. ib \in Buffer /\ ib.start <= ib.end /\ DataSize(ib) = DataSize(inbuf)
    BY <1>1, Sizes, SlidBuffer DEF IInv, ServerTypes
  <2>10. BackToWait(inbuf, ob) \/ BackToWait(ib, ob)
    <3>1. CASE "in" \notin events
      BY <2>7, <3>1
    <3>2. CASE "in" \in events
      <4>1. taken < sent
        BY <2>1, <2>3, <3>2 DEF Events
      <4>2. taken # sent
        BY <1>1, <4>1 DEF IInv, StreamTypes
      <4>3. ReadCalls(ob)
        BY <2>7, <3>2
      <4>4. CASE ib.end = InSize
        BY <4>3, <4>4 DEF ReadCalls
      <4>5. CASE ib.end # InSize
        BY <2>1, <4>2, <4>3, <4>5 DEF ReadCalls
      <4> QED
        BY <4>4, <4>5
    <3> QED
      BY <3>1, <3>2
  <2> HIDE DEF ob, ib
  <2> QED
    BY <1>6, <2>1, <2>2, <2>5, <2>7, <2>8, <2>9, <2>10
<1>9. CASE OnReset
  BY <1>9 DEF OnReset, clientVars
<1>10. CASE Stop
  BY <1>10 DEF Stop
<1>11. CASE Waiting \/ UNCHANGED vars
  <2>1. UNCHANGED <<fd_open, conn, has_error, outbuf, stopped>>
    BY <1>11 DEF Waiting, vars, clientVars, serverVars
  <2> QED
    BY <1>2, <2>1
<1> QED
  BY <1>3, <1>4, <1>5, <1>7, <1>8, <1>9, <1>10, <1>11, Moves DEF ServerMoves

\* The reply to the oldest open call.
LEMMA NextReply ==
  ASSUME IInv, fd_open, NrDone < Len(replies)
  PROVE  /\ NrDone + 1 \in 1..Len(replies) /\ ReplyHere = {NrDone + 1}
         /\ replies[NrDone + 1].from = Parsed /\ replies[NrDone + 1].to \in Nat
         /\ replies[NrDone + 1].from < replies[NrDone + 1].to
         /\ replies[NrDone + 1].to <= UpTo(replies, Len(replies))
<1> DEFINE n == NrDone
<1>1. n \in 0..Len(replies) /\ n + 1 \in 1..Len(replies) /\ n \in Nat
      /\ DOMAIN replies = 1..Len(replies) /\ Len(replies) \in Nat
  BY Lengths DEF IInv
<1>2. Parsed = UpTo(replies, n)
  BY DEF IInv, ClientInv
<1>3. Chain(replies)
  BY CallSets
<1> HIDE DEF n
<1>4. replies[n + 1].from = UpTo(replies, n)
  <2>1. replies[n + 1].from = IF n + 1 = 1 THEN 0 ELSE replies[(n + 1) - 1].to
    BY <1>1, <1>3 DEF Chain
  <2>2. (n + 1) - 1 = n /\ (n + 1 = 1 <=> n = 0)
    BY <1>1
  <2> QED
    BY <2>1, <2>2 DEF UpTo
<1>5. replies[n + 1].from < replies[n + 1].to /\ replies[n + 1].to \in Nat
  BY <1>1, <1>3 DEF Chain
<1>6. ReplyHere = {n + 1}
  <2>1. n + 1 \in ReplyHere
    BY <1>1, <1>2, <1>4 DEF ReplyHere
  <2>2. ASSUME NEW j \in ReplyHere PROVE j = n + 1
    <3> DEFINE S == [kind : {"ok", "mismatch", "garbage_args"}, from : Nat, to : Nat]
    <3>1. replies \in Seq(S)
      BY CallSets
    <3> HIDE DEF S
    <3>2. j \in DOMAIN replies /\ replies[j].from = UpTo(replies, n)
      BY <1>2 DEF ReplyHere
    <3> QED
      BY <1>1, <1>3, <3>1, <3>2, ChainNext
  <2> QED
    BY <2>1, <2>2
<1>7. replies[n + 1].to <= UpTo(replies, Len(replies))
  <2>1. UpTo(replies, n + 1) = replies[n + 1].to
    BY <1>1 DEF UpTo
  <2>2. Len(replies) \in 0..Len(replies) /\ n + 1 \in 0..Len(replies)
    BY <1>1
  <2>3. UpTo(replies, n + 1) <= UpTo(replies, Len(replies))
    BY <2>2, ReplyEnds
  <2> QED
    BY <2>1, <2>3
<1> QED
  BY <1>1, <1>2, <1>4, <1>5, <1>6, <1>7 DEF n

\* When no complete reply is left, the rest of it has still to be read.
LEMMA ReadsOnFor ==
  ASSUME IInv, AnswersInv, TextsCounted, fd_open, ~CompleteReply, nr_replied < NrPending,
         NrDone < Len(replies)
  PROVE  got < replies[NrDone + 1].to
<1> DEFINE r == replies[NrDone + 1]
<1>1. /\ NrDone + 1 \in 1..Len(replies) /\ ReplyHere = {NrDone + 1}
      /\ r.from = Parsed /\ r.to \in Nat /\ r.from < r.to
  BY NextReply
<1>2. /\ insz \in Nat /\ instart \in Nat /\ insz <= ReplyBufferSize /\ got \in Nat
      /\ ReplyBufferSize \in Nat /\ AcceptHeader \in Nat
  BY Sizes DEF IInv, ClientTypes, StreamTypes
<1>3. Parsed = got - insz + instart
  BY DEF Parsed
<1>4. NrDone = flushed + nr_replied
  BY DEF NrDone
<1>5. r.from + AcceptHeader <= r.to
  BY <1>1, Lengths DEF AnswersInv, IInv
<1>6. CASE ~(insz - instart >= AcceptHeader)
  <2>1. insz - instart < AcceptHeader
    BY <1>2, <1>6
  <2> HIDE DEF r
  <2> QED
    BY <1>1, <1>2, <1>3, <1>5, <2>1 DEF r
<1>7. CASE insz - instart >= AcceptHeader
  <2>1. r.kind = "ok" /\ ~Decodes(insz - instart - AcceptHeader, calls[NrDone + 1].fn.res)
    BY <1>1, <1>4, <1>7 DEF CompleteReply
  <2> DEFINE f == calls[NrDone + 1].fn
  <2>2. NrDone + 1 \in 1..Len(calls)
    BY <1>1, RepliesBelowCalls, Lengths DEF IInv
  <2>3. f \in Functions
    BY <2>2, CallSets
  <2>4. r.to = r.from + AcceptHeader + f.res.size
    BY <1>1, <2>1, Lengths DEF IInv, RepliesInv
  <2> HIDE DEF f
  <2>5. f.res.size \in Nat
    BY <2>3, FunctionSizes
  <2>6. insz - instart - AcceptHeader \notin f.res.size..(ReplyBufferSize - AcceptHeader)
    BY <2>1, <2>3 DEF TextsCounted, f
  <2>7. insz - instart - AcceptHeader < f.res.size
    BY <1>2, <1>7, <2>5, <2>6
  <2> HIDE DEF r
  <2>8. r.from = got - insz + instart
    BY <1>1, <1>3
  <2>9. got < r.to
    BY <1>2, <2>4, <2>5, <2>7, <2>8
  <2> QED
    BY <2>9 DEF r
<1> QED
  BY <1>6, <1>7

LEMMA ReadInvStep ==
  ASSUME PipeInv, ReadInv, TextsCounted, [Next]_vars
  PROVE  ReadInv'
<1> SUFFICES ASSUME phase' = "read"
             PROVE  /\ NrDone' < Len(calls')
                    /\ NrDone' < Len(replies') => got' < replies'[NrDone' + 1].to
  BY DEF ReadInv
<1>1. IInv /\ AnswersInv /\ FlushInv /\ IInv'
  BY NextIInv DEF PipeInv
<1>2. fd_open'
  BY <1>1 DEF IInv, ClientInv
<1>3. /\ NrDone \in Nat /\ Len(calls) \in Nat /\ Len(replies) \in Nat
      /\ flushed \in Nat /\ nr_replied \in Nat
  BY <1>1, Lengths DEF IInv, ClientTypes
<1>4. ASSUME UNCHANGED <<phase, calls, flushed, nr_replied, got, replies>>
      PROVE  /\ NrDone' < Len(calls')
             /\ NrDone' < Len(replies') => got' < replies'[NrDone' + 1].to
  BY <1>4 DEF ReadInv, NrDone
<1>5. ASSUME NEW f \in Functions, Send(f) PROVE FALSE
  BY <1>1, <1>5, SendFrame
<1>6. CASE ServerMoves
  BY <1>1, <1>4, <1>6, ServerFrame
<1>7. CASE HandleRequest
  <2>1. /\ UNCHANGED <<phase, fd_open, calls, flushed, nr_replied, got>>
        /\ Len(replies') = Len(replies) + 1
        /\ \A j \in 1..Len(replies) : replies'[j] = replies[j]
        /\ replies'[Len(replies) + 1].from = UpTo(replies, Len(replies))
    BY <1>1, <1>7, AnswerFrame
  <2>2. NrDone' = NrDone /\ NrDone < Len(calls)
        /\ (NrDone < Len(replies) => got < replies[NrDone + 1].to)
    BY <2>1 DEF ReadInv, NrDone
  <2>3. CASE NrDone < Len(replies)
    <3>1. NrDone + 1 \in 1..Len(replies)
      BY <1>3, <2>3
    <3> QED
      BY <2>1, <2>2, <2>3, <3>1
  <2>4. CASE ~(NrDone < Len(replies))
    <3>1. NrDone = Len(replies)
      BY <1>1, <1>2, <1>3, <2>1, <2>4 DEF IInv, ClientInv
    <3>2. got <= UpTo(replies, Len(replies))
      BY <1>1, ReplyNumbers
    <3>3. replies'[Len(replies) + 1].from < replies'[Len(replies) + 1].to
          /\ replies'[Len(replies) + 1].to \in Nat
      <4>1. Len(replies) + 1 \in 1..Len(replies')
        BY <1>3, <2>1
      <4>2. Len(replies) + 1 \in DOMAIN replies'
        BY <1>1, <4>1 DEF IInv, ServerTypes
      <4> QED
        BY <1>1, <4>2 DEF IInv, RepliesInv, Chain
    <3>4. got < replies'[Len(replies) + 1].to
      BY <1>1, <2>1, <3>2, <3>3, ReplyNumbers
    <3> QED
      BY <2>1, <2>2, <3>1, <3>4
  <2> QED
    BY <2>3, <2>4
<1>8. CASE ClientMoves
  <2>1. UNCHANGED <<calls, replies>> /\ fd_open
    BY <1>1, <1>2, <1>8, ClientFrame
  <2>2. StartsReading \/ ReadsSome \/ ParsesOne \/ ReadsOn \/ Returns \/ FindsNothing
    BY <1>1, <1>2, <1>8, FlushFrame
  <2>3. CASE FindsNothing
    BY <1>4, <2>1, <2>3 DEF FindsNothing
  <2>4. CASE ReadsOn
    <3>1. ~CompleteReply /\ nr_replied < NrPending /\ NrDone' = NrDone /\ got' = got
      BY <2>4 DEF ReadsOn, NrDone
    <3>2. NrDone < Len(calls)
      BY <1>3, <3>1 DEF NrPending, NrDone
    <3>3. NrDone < Len(replies) => got < replies[NrDone + 1].to
      BY <1>1, <2>1, <3>1, ReadsOnFor
    <3> QED
      BY <2>1, <3>1, <3>2, <3>3
\* The buffer is empty: everything parsed has been read, and nothing else.
  <2>5. CASE StartsReading
    <3>1. NrPending > 0 /\ nr_replied = 0 /\ insz = 0 /\ instart = 0 /\ NrDone' = NrDone /\ got' = got
      BY <1>1, <2>5 DEF StartsReading, FlushInv, NrDone
    <3>2. NrDone < Len(calls)
      BY <1>3, <3>1 DEF NrPending, NrDone
    <3>3. got \in Nat
      BY <1>1, ReplyNumbers
    <3>4. Parsed = got
      BY <3>1, <3>3 DEF Parsed
    <3>5. NrDone < Len(replies) => got < replies[NrDone + 1].to
      BY <1>1, <2>1, <3>4, NextReply
    <3> QED
      BY <2>1, <3>1, <3>2, <3>5
  <2> QED
    BY <2>2, <2>3, <2>4, <2>5 DEF ReadsSome, ParsesOne, Returns
<1> QED
  BY <1>5, <1>6, <1>7, <1>8, Moves

-----------------------------------------------------------------------------
(***************************************************************************)
(* Every error has a reason.                                               *)
(***************************************************************************)
LEMMA LaterReason ==
  ASSUME IInv, NEW i \in Nat, NEW j \in Nat, i <= j, Reason(i)
  PROVE  Reason(j)
BY Lengths DEF Reason, IInv

\* A reason remains one: no call is taken back, and nothing is read from a closed connection.
LEMMA ReasonStays ==
  ASSUME IInv, NEW i \in Nat, Reason(i), [Next]_vars
  PROVE  Reason(i)'
<1>1. stopped \in BOOLEAN /\ conn \in {"open", "closed"} /\ taken \in Nat /\ sent \in Nat
      /\ DOMAIN calls = 1..Len(calls) /\ Len(calls) \in Nat
  BY Lengths DEF IInv, ServerTypes, StreamTypes
<1>2. DOMAIN calls' = 1..Len(calls')
  BY NextIInv DEF IInv, ClientTypes
<1>3. ASSUME stopped => stopped',
             conn = "closed" => conn' = "closed" /\ taken' = taken,
             sent' \in Nat, sent <= sent',
             Len(calls') \in Nat, Len(calls) <= Len(calls'),
             \A k \in 1..Len(calls) : calls'[k] = calls[k]
      PROVE  Reason(i)'
  <2>1. DOMAIN calls \subseteq DOMAIN calls'
    BY <1>1, <1>2, <1>3
  <2>2. CASE stopped
    BY <1>3, <2>2 DEF Reason
  <2>3. CASE \E k \in DOMAIN calls :
               ~calls[k].fn.exported /\ (k <= i \/ (conn = "closed" /\ taken < sent))
    <3>1. PICK k \in DOMAIN calls :
            ~calls[k].fn.exported /\ (k <= i \/ (conn = "closed" /\ taken < sent))
      BY <2>3
    <3>2. k \in DOMAIN calls' /\ ~calls'[k].fn.exported
      BY <1>1, <1>3, <2>1, <3>1
    <3>3. k <= i \/ (conn' = "closed" /\ taken' < sent')
      BY <1>1, <1>3, <3>1
    <3> QED
      BY <3>2, <3>3 DEF Reason
  <2> QED
    BY <2>2, <2>3 DEF Reason
<1>4. ASSUME NEW f \in Functions, Send(f) PROVE Reason(i)'
  <2>1. /\ UNCHANGED <<stopped, conn, taken, sent>> /\ Len(calls') = Len(calls) + 1
        /\ \A k \in 1..Len(calls) : calls'[k] = calls[k]
    BY <1>4, SendFrame
  <2> QED
    BY <1>1, <1>3, <2>1
<1>5. CASE ClientMoves
  <2>1. UNCHANGED <<stopped, conn, taken, calls>> /\ sent' \in Nat /\ sent <= sent'
    BY <1>5, ClientFrame
  <2> QED
    BY <1>1, <1>3, <2>1
<1>6. CASE ServerMoves
  <2>1. UNCHANGED <<sent, calls>> /\ (stopped => stopped')
        /\ (conn = "closed" => conn' = "closed" /\ taken' = taken)
    BY <1>6, ServerFrame
  <2> QED
    BY <1>1, <1>3, <2>1
<1>7. CASE HandleRequest
  <2>1. conn = "open" /\ UNCHANGED <<sent, calls>> /\ (stopped => stopped')
    BY <1>7, AnswerFrame
  <2> QED
    BY <1>1, <1>3, <2>1
<1> QED
  BY <1>4, <1>5, <1>6, <1>7, Moves

\* Where the last of the replies is an error.
LEMMA LastIsError ==
  ASSUME IInv, AnswersInv, has_error
  PROVE  /\ Len(replies) \in 1..Len(calls) /\ Len(replies) \in DOMAIN calls
         /\ ~calls[Len(replies)].fn.exported
BY Lengths DEF AnswersInv, IInv

\* The errors of Flush, in the order of its code.
LEMMA FailHasReason ==
  ASSUME PipeInv, CloseInv, ReadInv, ReasonInv, ClientMoves, Fail
  PROVE  NrDone < Len(calls) /\ Reason(NrDone + 1)
<1>1. IInv /\ AnswersInv /\ FlushInv
  BY DEF PipeInv
<1>2. phase' = "idle" /\ fd_open' = FALSE
  BY DEF Fail
<1>3. /\ NrDone \in Nat /\ Len(calls) \in Nat /\ Len(replies) \in Nat
      /\ flushed \in Nat /\ nr_replied \in Nat
  BY <1>1, Lengths DEF IInv, ClientTypes
<1>4. /\ written + DataSize(outbuf) = UpTo(replies, Len(replies))
      /\ written \in Nat /\ DataSize(outbuf) \in Nat /\ got \in Nat /\ got <= written
      /\ UpTo(replies, Len(replies)) \in Nat /\ insz \in Nat /\ instart \in Nat
  BY <1>1, ReplyNumbers DEF IInv, ClientTypes
<1>5. fd_open => Parsed = UpTo(replies, NrDone) /\ NrDone <= Len(replies)
  BY <1>1 DEF IInv, ClientInv
<1>6. phase \in {"read", "parse"} => fd_open
  BY <1>1 DEF IInv, ClientInv
<1>7. Parsed = got - insz + instart
  BY DEF Parsed
\* Bytes that were read and not parsed are of a reply.
<1>8. ASSUME fd_open, instart < insz PROVE NrDone < Len(replies)
  <2>1. UpTo(replies, NrDone) < UpTo(replies, Len(replies))
    BY <1>4, <1>5, <1>7, <1>8
  <2> QED
    BY <1>3, <1>4, <1>5, <1>8, <2>1
\* The descriptor was closed by an earlier flush that failed.
<1>9. CASE StartFlush
  <2>1. ~fd_open /\ phase = "idle" /\ NrPending > 0
    BY <1>2, <1>9 DEF StartFlush
  <2>2. nr_replied = 0 /\ Reason(flushed) /\ NrDone = flushed
    BY <1>1, <1>3, <2>1 DEF FlushInv, ReasonInv, NrDone
  <2>3. NrDone < Len(calls)
    BY <1>3, <2>1, <2>2 DEF NrPending
  <2>4. flushed \in Nat /\ NrDone + 1 \in Nat /\ flushed <= NrDone + 1
    BY <1>3, <2>2
  <2> QED
    BY <1>1, <2>2, <2>3, <2>4, LaterReason
\* The buffer of Flush has room for all replies to the pending calls.
<1>10. CASE ReadReplies
  <2>1. phase = "read" /\ got < written /\ insz = ReplyBufferSize /\ fd_open
    BY <1>2, <1>6, <1>10 DEF ReadReplies
  <2>2. got - insz = UpTo(replies, flushed)
    BY <1>1, <2>1 DEF FlushInv
  <2>3. UpTo(replies, Len(replies))
          <= UpTo(replies, flushed) + (Len(replies) - flushed) * MaxResponse
    BY <1>1, <2>1, CountedReplies
  <2>4. Len(replies) - flushed <= MaxPipeline
    <3>1. Len(replies) <= Len(calls)
      BY <1>1, RepliesBelowCalls
    <3>2. Len(calls) - flushed <= MaxPipeline
      BY <1>1 DEF IInv, ClientTypes
    <3> QED
      BY <1>3, <3>1, <3>2, Sizes
  <2>5. /\ (Len(replies) - flushed) * MaxResponse <= MaxPipeline * MaxResponse
        /\ (Len(replies) - flushed) * MaxResponse \in Int
    <3>1. Len(replies) - flushed \in Int /\ MaxPipeline \in Int /\ MaxResponse \in Nat
      BY <1>3, Sizes
    <3> QED
      BY <2>4, <3>1, Times
  <2>6. (Len(replies) - flushed) * MaxResponse <= insz
    BY <2>1, <2>5 DEF ReplyBufferSize
  <2>7. \A u, p, x, z, g, w, d \in Int : u <= p + x /\ x <= z /\ g - z = p /\ w + d = u => w + d <= g
    OBVIOUS
  <2>8. UpTo(replies, flushed) \in Int
    BY <1>4, <2>2
  <2>9. written + DataSize(outbuf) <= got
    BY <1>4, <2>2, <2>3, <2>5, <2>6, <2>7, <2>8
  <2> QED
    BY <1>4, <2>1, <2>9
\* The server closed the connection.
<1>11. CASE ReadEnd
  <2>1. phase = "read" /\ fd_open /\ conn = "closed" /\ (got = written \/ taken < sent)
    BY <1>6, <1>11 DEF ReadEnd
  <2>2. NrDone < Len(calls) /\ (NrDone < Len(replies) => got < replies[NrDone + 1].to)
    BY <2>1 DEF ReadInv
  <2>3. stopped \/ (has_error /\ DataSize(outbuf) = 0)
    BY <2>1 DEF CloseInv
  <2>4. CASE stopped
    BY <2>2, <2>4 DEF Reason
  <2>5. CASE has_error /\ DataSize(outbuf) = 0
    <3>1. Len(replies) \in DOMAIN calls /\ ~calls[Len(replies)].fn.exported
      BY <1>1, <2>5, LastIsError
    <3>2. CASE taken < sent
      BY <2>1, <2>2, <3>1, <3>2 DEF Reason
    <3>3. CASE got = written
      <4>1. got = UpTo(replies, Len(replies))
        BY <1>4, <2>5, <3>3
      <4>2. ~(NrDone < Len(replies))
        <5> SUFFICES ASSUME NrDone < Len(replies) PROVE FALSE
          OBVIOUS
        <5>1. replies[NrDone + 1].to <= got /\ replies[NrDone + 1].to \in Nat
          BY <1>1, <2>1, <4>1, NextReply
        <5> QED
          BY <1>4, <2>2, <5>1
      <4>3. Len(replies) <= NrDone + 1
        BY <1>3, <4>2
      <4> QED
        BY <2>2, <3>1, <4>3 DEF Reason
    <3> QED
      BY <2>1, <3>2, <3>3
  <2> QED
    BY <2>3, <2>4, <2>5
\* The reply is an error.
<1>12. CASE ParseError
  <2>1. /\ phase = "parse" /\ fd_open /\ CompleteReply
        /\ \A j \in ReplyHere : replies[j].kind # "ok"
    BY <1>6, <1>12 DEF ParseError
  <2>2. nr_replied < NrPending /\ insz - instart >= AcceptHeader
    BY <2>1 DEF CompleteReply
  <2>3. NrDone < Len(calls)
    BY <1>3, <2>2 DEF NrDone, NrPending
  <2>4. instart < insz
    BY <1>4, <2>2, Sizes
  <2>5. NrDone < Len(replies)
    BY <1>8, <2>1, <2>4
  <2>6. NrDone + 1 \in 1..Len(replies) /\ replies[NrDone + 1].kind # "ok"
    BY <1>1, <2>1, <2>5, NextReply
  <2>7. /\ \A j \in 1..Len(log) : replies[j].kind = "ok"
        /\ Len(replies) = IF has_error THEN Len(log) + 1 ELSE Len(log)
        /\ Len(log) \in Nat
    BY <1>1, ReplyNumbers DEF AnswersInv
  <2>8. has_error /\ NrDone + 1 = Len(replies)
    BY <1>3, <2>6, <2>7
  <2>9. Len(replies) \in DOMAIN calls /\ ~calls[Len(replies)].fn.exported
    BY <1>1, <2>8, LastIsError
  <2>10. Len(replies) <= NrDone + 1
    BY <1>3, <2>8
  <2> QED
    BY <2>3, <2>9, <2>10 DEF Reason
\* No bytes are left behind the last reply.
<1>13. CASE ParseDone
  <2>1. phase = "parse" /\ fd_open
    BY <1>6, <1>13 DEF ParseDone
  <2>2. ~(nr_replied < NrPending) /\ instart < insz
    BY <1>2, <1>13, <2>1 DEF ParseDone
  <2>3. NrDone < Len(replies)
    BY <1>8, <2>1, <2>2
  <2>4. Len(replies) <= Len(calls)
    BY <1>1, RepliesBelowCalls
  <2> QED
    BY <1>3, <2>2, <2>3, <2>4 DEF NrDone, NrPending
<1>14. CASE ParseReply
  BY <1>2, <1>14 DEF ParseReply
<1>15. CASE PollNothing
  BY <1>2, <1>15 DEF PollNothing, vars, clientVars
<1>16. CASE Leave
  BY <1>2, <1>16 DEF Leave
<1> QED
  BY <1>9, <1>10, <1>11, <1>12, <1>13, <1>14, <1>15, <1>16 DEF ClientMoves, FlushStep

\* A step of the client that is no failure leaves the descriptor as it is, or ends the client.
LEMMA KeepsDescriptor ==
  ASSUME IInv, ClientMoves, ~Fail, phase' # "gone"
  PROVE  /\ fd_open' = fd_open
         /\ ~fd_open => UNCHANGED <<phase, flushed, results>>
<1>1. phase \in {"read", "parse"} => fd_open
  BY DEF IInv, ClientInv
<1>2. CASE StartFlush
  BY <1>2 DEF StartFlush
<1>3. CASE FlushStep
  <2>1. phase \in {"read", "parse"}
    BY <1>3 DEF FlushStep, ReadReplies, ReadEnd, PollNothing, ParseReply, ParseError, ParseDone
  <2>2. fd_open' = fd_open
    BY <1>3 DEF FlushStep, ReadReplies, ReadEnd, PollNothing, ParseReply, ParseError, ParseDone,
                vars, clientVars
  <2> QED
    BY <1>1, <2>1, <2>2
<1>4. CASE Leave
  BY <1>4 DEF Leave
<1> QED
  BY <1>2, <1>3, <1>4 DEF ClientMoves

LEMMA ReasonInvStep ==
  ASSUME PipeInv, CloseInv, ReadInv, ReasonInv, [Next]_vars
  PROVE  ReasonInv'
<1>1. IInv /\ IInv'
  BY NextIInv DEF PipeInv
<1>2. ASSUME NEW i \in Nat, Reason(i) PROVE Reason(i)'
  BY <1>1, <1>2, ReasonStays
<1> DEFINE ReasonAfter(i) ==
      \/ stopped'
      \/ \E k \in DOMAIN calls' :
           ~calls'[k].fn.exported /\ (k <= i \/ (conn' = "closed" /\ taken' < sent'))
<1>3. ASSUME NEW i \in Nat, Reason(i) PROVE ReasonAfter(i)
  BY <1>2, <1>3 DEF Reason
<1>4. SUFFICES /\ \A i \in DOMAIN results' : results'[i] = Failed => ReasonAfter(i)
               /\ ~fd_open' /\ phase' # "gone" => flushed' \in DOMAIN calls' /\ ReasonAfter(flushed')
  BY DEF ReasonInv, Reason
<1> HIDE DEF ReasonAfter
<1>5. /\ DOMAIN results = 1..Len(calls) /\ DOMAIN calls = 1..Len(calls) /\ Len(calls) \in Nat
      /\ DOMAIN results' = 1..Len(calls') /\ DOMAIN calls' = 1..Len(calls')
      /\ NrDone \in Nat
  <2>1. /\ DOMAIN results = 1..Len(calls) /\ DOMAIN calls = 1..Len(calls) /\ Len(calls) \in Nat
        /\ NrDone \in Nat
    BY <1>1, Lengths DEF IInv
  <2>2. /\ calls' \in Seq([fn : Functions, from : Nat, to : Nat])
        /\ results' \in Seq({Unset, Failed} \cup Nat) /\ Len(results') = Len(calls')
    BY <1>1 DEF IInv, ClientTypes
  <2> QED
    BY <2>1, <2>2
<1>6. \A i \in DOMAIN results : results[i] = Failed => ReasonAfter(i)
  BY <1>3, <1>5 DEF ReasonInv
<1>7. ~fd_open /\ phase # "gone" => flushed \in DOMAIN calls /\ ReasonAfter(flushed)
  BY <1>3, <1>5 DEF ReasonInv
<1>8. ASSUME UNCHANGED <<fd_open, phase, flushed, results, calls>>
      PROVE  /\ \A i \in DOMAIN results' : results'[i] = Failed => ReasonAfter(i)
             /\ ~fd_open' /\ phase' # "gone" => flushed' \in DOMAIN calls' /\ ReasonAfter(flushed')
  BY <1>6, <1>7, <1>8
<1>9. ASSUME NEW f \in Functions, Send(f)
      PROVE  /\ \A i \in DOMAIN results' : results'[i] = Failed => ReasonAfter(i)
             /\ ~fd_open' /\ phase' # "gone" => flushed' \in DOMAIN calls' /\ ReasonAfter(flushed')
  <2>1. /\ UNCHANGED <<fd_open, phase, flushed>> /\ Len(calls') = Len(calls) + 1
        /\ \A i \in 1..Len(calls) : results'[i] = results[i]
        /\ results'[Len(calls) + 1] = Unset
    BY <1>1, <1>9, SendFrame
  <2>2. \A i \in DOMAIN results' : i \in DOMAIN results \/ i = Len(calls) + 1
    BY <1>5, <2>1
  <2>3. DOMAIN calls \subseteq DOMAIN calls'
    BY <1>5, <2>1
  <2>4. Unset # Failed
    BY DEF Unset, Failed
  <2>5. ASSUME NEW i \in DOMAIN results', results'[i] = Failed PROVE ReasonAfter(i)
    <3>1. i \in 1..Len(calls)
      BY <1>5, <2>1, <2>2, <2>4, <2>5
    <3>2. results[i] = Failed
      BY <2>1, <2>5, <3>1
    <3> QED
      BY <1>5, <1>6, <3>1, <3>2
  <2> QED
    BY <1>7, <2>1, <2>3, <2>5
<1>10. CASE ClientMoves /\ Fail
  <2>1. NrDone < Len(calls) /\ Reason(NrDone + 1)
    BY <1>10, FailHasReason
  <2>2. /\ calls' = calls /\ flushed' = Len(calls)
        /\ results' = [i \in DOMAIN results |->
                         IF i > flushed + nr_replied THEN Failed ELSE results[i]]
    BY <1>10 DEF Fail
  <2>3. \A i \in Nat : NrDone + 1 <= i => ReasonAfter(i)
    BY <1>1, <1>3, <1>5, <2>1, LaterReason
  <2>4. flushed' \in DOMAIN calls' /\ ReasonAfter(flushed')
    BY <1>5, <2>1, <2>2, <2>3
  <2>5. ASSUME NEW i \in DOMAIN results, results'[i] = Failed PROVE ReasonAfter(i)
    <3>1. CASE i > NrDone
      BY <1>5, <2>3, <3>1
    <3>2. CASE ~(i > NrDone)
      BY <1>6, <2>2, <2>5, <3>2 DEF NrDone
    <3> QED
      BY <3>1, <3>2
  <2>6. DOMAIN results' = DOMAIN results
    BY <2>2
  <2> QED
    BY <2>4, <2>5, <2>6
<1>11. CASE ClientMoves /\ ~Fail
  <2>1. calls' = calls
    BY <1>1, <1>11, ClientFrame
  <2>2. ASSUME NEW i \in DOMAIN results', results'[i] = Failed PROVE ReasonAfter(i)
    <3>1. CASE fd_open'
      <4>1. i \in DOMAIN results /\ results[i] = Failed
        BY <1>1, <1>11, <2>2, <3>1, FlushFrame
      <4> QED
        BY <1>6, <4>1
    <3>2. CASE ~fd_open' /\ phase' # "gone"
      <4>1. results' = results
        BY <1>1, <1>11, <3>2, KeepsDescriptor
      <4> QED
        BY <1>6, <2>2, <4>1
    <3>3. CASE ~fd_open' /\ phase' = "gone"
      <4>1. Leave
        <5>1. \/ phase' \in {"idle", "read", "parse"} \/ UNCHANGED vars \/ Leave
              \/ phase \in {"read", "parse"} /\ UNCHANGED phase
          BY <1>11 DEF ClientMoves, FlushStep, StartFlush, ReadReplies, ReadEnd, PollNothing,
                       ParseReply, ParseError, ParseDone, Fail
        <5>2. UNCHANGED vars => Leave \/ phase = "gone"
          BY <3>3 DEF vars, clientVars
        <5>3. phase = "gone" => Leave
          BY <1>11 DEF ClientMoves, FlushStep, StartFlush, ReadReplies, ReadEnd, PollNothing,
                       ParseReply, ParseError, ParseDone
        <5> QED
          BY <3>3, <5>1, <5>2, <5>3
      <4>2. results' = results
        BY <4>1 DEF Leave
      <4> QED
        BY <1>6, <2>2, <4>2
    <3> QED
      BY <3>1, <3>2, <3>3
  <2>3. ASSUME ~fd_open', phase' # "gone" PROVE flushed' \in DOMAIN calls' /\ ReasonAfter(flushed')
    <3>1. ~fd_open /\ UNCHANGED <<phase, flushed>>
      BY <1>1, <1>11, <2>3, KeepsDescriptor
    <3> QED
      BY <1>7, <2>1, <2>3, <3>1
  <2> QED
    BY <2>2, <2>3
<1>12. CASE ServerMoves
  BY <1>1, <1>8, <1>12, ServerFrame
<1>13. CASE HandleRequest
  BY <1>1, <1>8, <1>13, AnswerFrame
<1> QED
  BY <1>9, <1>10, <1>11, <1>12, <1>13, Moves

\* With the two hypotheses on sizes the whole invariant holds: every Fail of Flush, and every
\* close by OnConnectionEvent, has one of the reasons.
THEOREM ErrorInvariant == SocketHolds /\ TextsCounted => (Spec => []ErrorInv)
<1> SUFFICES ASSUME SocketHolds, TextsCounted PROVE Spec => []ErrorInv
  OBVIOUS
<1>1. Init => ErrorInv
  <2> SUFFICES ASSUME Init PROVE ErrorInv
    OBVIOUS
  <2>1. PipeInv
    BY InitPipeInv
  <2>2. NoCallWaits
    <3>1. DataSize(inbuf) = 0 /\ CallHeader \in Nat /\ CallHeader > 0
      BY Sizes DEF Init, DataSize
    <3> QED
      BY <3>1 DEF NoCallWaits
  <2>3. CloseInv /\ ReadInv /\ ReasonInv
    BY DEF Init, CloseInv, ReadInv, ReasonInv
  <2> QED
    BY <2>1, <2>2, <2>3 DEF ErrorInv
<1>2. ErrorInv /\ [Next]_vars => ErrorInv'
  <2> SUFFICES ASSUME ErrorInv, [Next]_vars PROVE ErrorInv'
    OBVIOUS
  <2>1. PipeInv /\ NoCallWaits /\ CloseInv /\ ReadInv /\ ReasonInv
    BY DEF ErrorInv
  <2>2. PipeInv'
    BY <2>1, NextIInv, AnswersStep, FlushInvStep, OutInvStep DEF PipeInv
  <2>3. NoCallWaits'
    BY <2>1, NoCallWaitsStep
  <2>4. CloseInv'
    BY <2>1, CloseInvStep
  <2>5. ReadInv' /\ ReasonInv'
    BY <2>1, ReadInvStep, ReasonInvStep
  <2> QED
    BY <2>2, <2>3, <2>4, <2>5 DEF ErrorInv
<1> QED
  BY <1>1, <1>2, PTL DEF Spec

\* A call fails only when the server was stopped or refused a call that is not exported: this
\* one, an earlier one, or a later one whose answer was overtaken by the reset of a connection
\* that the server closed with calls unread.  No way of cutting the streams and no full buffer
\* makes it fail.
THEOREM ErrorsHaveReasons == SocketHolds /\ TextsCounted => (Spec => []NoSpuriousError)
<1> SUFFICES ASSUME SocketHolds, TextsCounted PROVE Spec => []NoSpuriousError
  OBVIOUS
<1>1. ErrorInv => NoSpuriousError
  BY DEF ErrorInv, ReasonInv, Reason, NoSpuriousError
<1> QED
  BY <1>1, ErrorInvariant, PTL

-----------------------------------------------------------------------------
(***************************************************************************)
(* The connection implements the queue of calls, without any hypothesis.   *)
(***************************************************************************)
Made == [i \in DOMAIN calls |-> calls[i].fn]

\* Calls without a reply have no result yet, and a client that failed has no descriptor.
OpenInv ==
  /\ \A i \in DOMAIN results : i > NrDone => results[i] = Unset
  /\ fd_open => ~error

QueueInv == IInv /\ OpenInv

\* Calls with a reply have a result.
LEMMA UnsetCalls ==
  ASSUME QueueInv
  PROVE  \A i \in 1..Len(calls) : results[i] = Unset <=> i > NrDone
<1>1. /\ Len(calls) \in Nat /\ Len(log) \in Nat /\ NrDone \in Nat
      /\ DOMAIN results = 1..Len(calls)
  BY Lengths DEF QueueInv, IInv
<1>2. \A i \in 1..NrDone : results[i] = Failed \/ results[i] \in 1..Len(log)
  BY DEF QueueInv, IInv, ClientInv
<1> QED
  BY <1>1, <1>2 DEF QueueInv, OpenInv, Unset, Failed

\* fail: in Flush.
LEMMA FailGivesUp ==
  ASSUME QueueInv, Fail, log' = log
  PROVE  Queue!GiveUp /\ OpenInv'
<1>1. /\ fd_open' = FALSE /\ error' = TRUE /\ calls' = calls
      /\ flushed' = Len(calls) /\ nr_replied' = 0
      /\ results' = [i \in DOMAIN results |-> IF i > NrDone THEN Failed ELSE results[i]]
  BY DEF Fail, NrDone
<1>2. /\ Len(calls) \in Nat /\ NrDone \in Nat /\ DOMAIN results = 1..Len(calls)
  BY Lengths DEF QueueInv, IInv
<1>3. results' = [i \in DOMAIN results |-> IF results[i] = Unset THEN Failed ELSE results[i]]
  BY <1>1, <1>2, UnsetCalls
<1>4. Made' = Made
  BY <1>1 DEF Made
<1>5. Queue!GiveUp
  BY <1>1, <1>3, <1>4 DEF Queue!GiveUp, Queue!Unset, Queue!Failed, Unset, Failed, Made
<1>6. NrDone' = Len(calls)
  BY <1>1, <1>2 DEF NrDone
<1>7. OpenInv'
  BY <1>1, <1>2, <1>6 DEF OpenInv
<1> QED
  BY <1>5, <1>7

\* A sequence with one more element.
LEMMA AppendIs ==
  ASSUME NEW S, NEW s \in Seq(S), NEW e \in S, NEW t \in Seq(S), Len(t) = Len(s) + 1,
         \A i \in 1..(Len(s) + 1) : t[i] = IF i = Len(s) + 1 THEN e ELSE s[i]
  PROVE  t = Append(s, e)
<1>1. Append(s, e) \in Seq(S) /\ Len(Append(s, e)) = Len(s) + 1
      /\ \A i \in 1..(Len(s) + 1) :
           Append(s, e)[i] = IF i = Len(s) + 1 THEN e ELSE s[i]
  OBVIOUS
<1> DEFINE a == Append(s, e)
<1>2. Len(s) \in Nat
  OBVIOUS
<1> HIDE DEF a
<1>3. \A x \in Seq(S) : Len(x) = Len(s) + 1 => x = [i \in 1..(Len(s) + 1) |-> x[i]]
  BY <1>2
<1>4. a = [i \in 1..(Len(s) + 1) |-> a[i]] /\ t = [i \in 1..(Len(s) + 1) |-> t[i]]
  BY <1>1, <1>3 DEF a
<1>5. \A i \in 1..(Len(s) + 1) : a[i] = t[i]
  BY <1>1 DEF a
<1> QED
  BY <1>4, <1>5 DEF a

\* Send, ParseBuffer and HandleRequest.
LEMMA SendMakes ==
  ASSUME QueueInv, NEW f \in Functions, Send(f)
  PROVE  Queue!Make(f) /\ OpenInv'
<1> DEFINE e == [fn |-> f, from |-> Encoded, to |-> Encoded + CallHeader + f.size]
<1>1. /\ calls' = Append(calls, e) /\ results' = Append(results, Unset)
      /\ UNCHANGED <<fd_open, error, flushed, nr_replied, log>>
  BY DEF Send, serverVars
<1>2. e.fn = f
  OBVIOUS
<1> HIDE DEF e
<1>3. /\ Len(calls) \in Nat /\ DOMAIN calls = 1..Len(calls)
      /\ DOMAIN results = 1..Len(calls) /\ Len(results) = Len(calls)
      /\ NrDone \in Nat /\ NrDone <= Len(calls)
  BY Lengths DEF QueueInv, IInv
<1>4. /\ DOMAIN calls' = 1..(Len(calls) + 1) /\ calls'[Len(calls) + 1] = e
      /\ \A i \in 1..Len(calls) : calls'[i] = calls[i]
  BY <1>1, <1>3, CallSets DEF QueueInv
<1>5. Made' = Append(Made, f)
  <2>1. Made \in Seq(Functions) /\ Len(Made) = Len(calls)
        /\ \A i \in 1..Len(calls) : Made[i] = calls[i].fn
    BY <1>3, CallSets DEF QueueInv, Made
  <2>2. Made' = [i \in 1..(Len(calls) + 1) |-> calls'[i].fn]
    BY <1>4 DEF Made
  <2>3. \A i \in 1..(Len(calls) + 1) :
          calls'[i].fn = IF i = Len(calls) + 1 THEN f ELSE Made[i]
    BY <1>2, <1>3, <1>4, <2>1
  <2>4. Made' \in [1..(Len(calls) + 1) -> Functions]
    BY <1>3, <2>1, <2>2, <2>3
  <2>5. /\ Made' \in Seq(Functions) /\ Len(Made') = Len(calls) + 1
        /\ \A i \in 1..(Len(calls) + 1) :
             Made'[i] = IF i = Len(calls) + 1 THEN f ELSE Made[i]
    BY <1>3, <2>2, <2>3, <2>4
  <2> HIDE DEF Made
  <2> QED
    BY <1>3, <2>1, <2>5, AppendIs
<1>6. Queue!Make(f)
  BY <1>1, <1>5 DEF Queue!Make, Queue!Unset, Unset, Made
<1>7. OpenInv'
  <2>1. NrDone' = NrDone
    BY <1>1 DEF NrDone
  <2>2. results \in Seq({Unset, Failed} \cup Nat)
    BY DEF QueueInv, IInv, ClientTypes
  <2>3. /\ DOMAIN results' = 1..(Len(calls) + 1) /\ results'[Len(calls) + 1] = Unset
        /\ \A i \in 1..Len(calls) : results'[i] = results[i]
    BY <1>1, <1>3, <2>2
  <2> QED
    BY <1>1, <1>3, <2>1, <2>3 DEF QueueInv, OpenInv
<1> QED
  BY <1>6, <1>7

LEMMA ParseAnswers ==
  ASSUME QueueInv, IInv', ParseReply
  PROVE  (\E i \in DOMAIN results : Queue!Answer(i)) /\ OpenInv'
<1> DEFINE i == NrDone + 1
<1>1. /\ phase = "parse" /\ CompleteReply /\ nr_replied' = nr_replied + 1
      /\ UNCHANGED <<fd_open, error, calls, flushed, log>>
  BY DEF ParseReply, serverVars
<1>2. PICK j \in ReplyHere : results' = [results EXCEPT ![i] = j]
  BY DEF ParseReply, NrDone
<1>3. /\ Len(calls) \in Nat /\ DOMAIN results = 1..Len(calls) /\ NrDone \in Nat
      /\ flushed \in Nat /\ nr_replied \in Nat /\ Len(log) \in Nat
      /\ DOMAIN replies = 1..Len(replies) /\ Len(replies) \in Nat
  BY Lengths DEF QueueInv, IInv, ClientTypes
<1>4. i \in 1..Len(calls) /\ NrDone' = i
  BY <1>1, <1>3 DEF CompleteReply, NrPending, NrDone
<1>5. j \in Nat /\ j >= 1 /\ results'[i] = j
  BY <1>2, <1>3, <1>4 DEF ReplyHere
<1>6. j = i /\ i <= Len(log)
  <2>1. results'[i] \in {Unset, Failed, i}
    BY <1>2, <1>3, <1>4 DEF IInv, ClientInv, RepliesInOrder
  <2>2. results'[i] = Failed \/ results'[i] \in 1..Len(log)
    BY <1>1, <1>3, <1>4 DEF IInv, ClientInv
  <2> QED
    BY <1>3, <1>5, <2>1, <2>2 DEF Unset, Failed
<1>7. ~error
  BY <1>1 DEF QueueInv, OpenInv, IInv, ClientInv
<1>8. results[i] = Unset /\ \A n \in 1..(i - 1) : results[n] # Unset
  BY <1>3, <1>4, UnsetCalls
<1>9. Made' = Made
  BY <1>1 DEF Made
<1>10. results' = [results EXCEPT ![i] = i]
  BY <1>2, <1>6
<1> HIDE DEF i
<1>11. Queue!Answer(i)
  BY <1>1, <1>6, <1>7, <1>8, <1>9, <1>10 DEF Queue!Answer, Queue!Unset, Unset, Made
<1>12. OpenInv'
  BY <1>1, <1>3, <1>4, <1>7, <1>10, UnsetCalls DEF OpenInv, i
<1> QED
  BY <1>3, <1>4, <1>11, <1>12

LEMMA AnswerExecutes ==
  ASSUME QueueInv, HandleRequest
  PROVE  Queue!Execute \/ UNCHANGED Queue!vars
<1>1. /\ UNCHANGED <<calls, results, error>> /\ Len(log) + 1 <= Len(calls)
      /\ \/ Len(log') = Len(log) + 1 /\ calls[Len(log) + 1].fn.exported
         \/ log' = log
  BY AnswerFrame DEF QueueInv
<1>2. Made' = Made
  BY <1>1 DEF Made
<1>3. /\ Len(calls) \in Nat /\ Len(log) \in Nat /\ DOMAIN calls = 1..Len(calls)
  BY Lengths DEF QueueInv, IInv
<1>4. Len(Made) = Len(calls) /\ Made[Len(log) + 1] = calls[Len(log) + 1].fn
  BY <1>1, <1>3 DEF Made
<1>5. CASE log' = log
  BY <1>1, <1>2, <1>5 DEF Queue!vars, Made
<1>6. CASE Len(log') = Len(log) + 1 /\ calls[Len(log) + 1].fn.exported
  <2>1. Len(log) < Len(Made) /\ Made[Len(log) + 1].exported
    BY <1>1, <1>3, <1>4, <1>6
  <2> QED
    BY <1>1, <1>2, <1>6, <2>1 DEF Queue!Execute, Made
<1> QED
  BY <1>1, <1>5, <1>6

\* A step that leaves calls and results alone is no step of the queue.
LEMMA OtherStep ==
  ASSUME QueueInv, UNCHANGED <<calls, results, error, log>>,
         NrDone' = NrDone,
         fd_open' => fd_open
  PROVE  UNCHANGED Queue!vars /\ OpenInv'
BY DEF Queue!vars, QueueInv, OpenInv

LEMMA QueueStep ==
  ASSUME QueueInv, IInv', [Next]_vars
  PROVE  [Queue!Next]_(Queue!vars) /\ OpenInv'
<1>1. ASSUME NEW f \in Functions, Send(f) PROVE Queue!Next /\ OpenInv'
  BY <1>1, SendMakes DEF Queue!Next
<1>2. CASE HandleRequest
  <2>1. UNCHANGED <<fd_open, error, results, flushed, nr_replied>>
    BY <1>2, AnswerFrame DEF QueueInv
  <2>2. OpenInv'
    BY <2>1 DEF QueueInv, OpenInv, NrDone
  <2> QED
    BY <1>2, <2>2, AnswerExecutes DEF Queue!Next
<1>3. CASE ServerMoves
  <2>1. UNCHANGED <<fd_open, error, calls, results, flushed, nr_replied, log>>
    BY <1>3, ServerFrame DEF QueueInv
  <2> QED
    BY <2>1, OtherStep DEF NrDone
<1>4. CASE ClientMoves
  <2>1. calls' = calls /\ log' = log /\ (fd_open' => fd_open)
    BY <1>4, ClientFrame DEF QueueInv
  <2>2. CASE Fail
    BY <2>1, <2>2, FailGivesUp DEF Queue!Next
  <2>3. CASE ParseReply
    BY <2>3, ParseAnswers DEF Queue!Next
  <2>4. CASE ~Fail /\ ~ParseReply
    <3>1. UNCHANGED <<results, error>> /\ NrDone' = NrDone
      <4>1. flushed \in Nat /\ nr_replied \in Nat /\ Len(calls) \in Nat /\ NrDone <= Len(calls)
        BY Lengths DEF QueueInv, IInv, ClientTypes
      <4>2. CASE ParseDone
        BY <2>4, <4>1, <4>2 DEF ParseDone, NrDone, NrPending
      <4>3. CASE StartFlush \/ ReadReplies \/ ReadEnd \/ ParseError \/ Leave
        BY <2>4, <4>3 DEF StartFlush, ReadReplies, ReadEnd, ParseError, Leave, NrDone
      <4>4. CASE PollNothing
        BY <4>4 DEF PollNothing, vars, clientVars, NrDone
      <4> QED
        BY <1>4, <2>4, <4>2, <4>3, <4>4 DEF ClientMoves, FlushStep
    <3> QED
      BY <2>1, <3>1, OtherStep
  <2> QED
    BY <2>2, <2>3, <2>4
<1> QED
  BY <1>1, <1>2, <1>3, <1>4, Moves

\* However streams are cut, whatever fills up and whoever ends when, the connection is a queue of
\* calls (BaseClient, HandleRequest): executed and answered in their turn, and once some failed
\* none succeeds any more.
THEOREM ConnectionIsQueue == Spec => CallsQueueUp
<1>1. Init => Queue!Init /\ OpenInv
  <2> SUFFICES ASSUME Init PROVE Queue!Init /\ OpenInv
    OBVIOUS
  <2>1. calls = <<>> /\ results = <<>> /\ log = <<>> /\ error = FALSE
    BY DEF Init
  <2>2. Made = <<>>
    BY <2>1 DEF Made
  <2> QED
    BY <2>1, <2>2 DEF Queue!Init, OpenInv, Made
<1>2. QueueInv /\ IInv' /\ [Next]_vars => [Queue!Next]_(Queue!vars) /\ OpenInv'
  BY QueueStep
<1>3. IInv /\ OpenInv <=> QueueInv
  BY DEF QueueInv
<1> QED
  BY <1>1, <1>2, <1>3, Invariant, PTL DEF Spec, CallsQueueUp, Queue!Spec

=============================================================================
