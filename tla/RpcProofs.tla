----------------------------- MODULE RpcProofs -----------------------------
(***************************************************************************)
(* For any sizes, functions and numbers of calls, and however streams are  *)
(* cut: no buffer overflows, calls are executed in order and only whole,   *)
(* each result holds the reply to its own call, and a flush leaves none    *)
(* undecided.                                                              *)
(*                                                                         *)
(* Nothing in the bytes says which call a reply is for.  The invariant is  *)
(* about positions: what the server has not consumed begins where the call *)
(* after the last executed one begins, and what the client has not parsed  *)
(* begins where the reply to its oldest open call begins.                  *)
(***************************************************************************)
EXTENDS Rpc, TLAPS

\* Messages that follow each other in a stream.
Message == [from : Nat, to : Nat]
Chain(s) ==
  /\ \A i \in DOMAIN s : s[i].from \in Nat /\ s[i].to \in Nat /\ s[i].from < s[i].to
  /\ \A i \in DOMAIN s : s[i].from = IF i = 1 THEN 0 ELSE s[i - 1].to
  /\ \A i, j \in DOMAIN s : i < j => s[i].to <= s[j].from

\* Where the first n of them end.
UpTo(s, n) == IF n = 0 THEN 0 ELSE s[n].to

CallsInv ==
  /\ Chain(calls)
  /\ \A i \in DOMAIN calls : calls[i].to = calls[i].from + CallHeader + calls[i].fn.size
  /\ sent <= UpTo(calls, Len(calls))

ServerInv ==
  /\ Len(log) <= Len(calls)
  /\ ExecutedInOrder
  /\ ~has_error => /\ taken - DataSize(inbuf) = UpTo(calls, Len(log))
                   /\ Len(replies) = Len(log)
  /\ fd_open => written - got <= SocketBuffer

RepliesInv ==
  /\ Chain(replies)
  /\ written + DataSize(outbuf) = UpTo(replies, Len(replies))
  /\ \A j \in DOMAIN replies :
       IF replies[j].kind = "ok"
       THEN /\ j <= Len(log)
            /\ replies[j].to = replies[j].from + AcceptHeader + calls[j].fn.res.size
       ELSE has_error

NrDone == flushed + nr_replied

ClientInv ==
  /\ phase \in {"read", "parse"} => fd_open
  /\ fd_open => /\ NrDone <= Len(replies)
                /\ Parsed = UpTo(replies, NrDone)
  /\ RepliesInOrder
  /\ \A i \in 1..NrDone : results[i] = Failed \/ results[i] \in 1..Len(log)

\* TypeOK in three parts.
ClientTypes ==
  /\ phase \in {"idle", "read", "parse", "gone"}
  /\ fd_open \in BOOLEAN /\ error \in BOOLEAN
  /\ calls \in Seq([fn : Functions, from : Nat, to : Nat])
  /\ results \in Seq({Unset, Failed} \cup Nat)
  /\ Len(results) = Len(calls)
  /\ flushed \in Nat /\ nr_replied \in Nat
  /\ flushed + nr_replied <= Len(calls) /\ Len(calls) - flushed <= MaxPipeline
  /\ insz \in Nat /\ instart \in Nat /\ instart <= insz /\ insz <= ReplyBufferSize

StreamTypes ==
  /\ sent \in Nat /\ taken \in Nat /\ taken <= sent
  /\ written \in Nat /\ got \in Nat /\ got <= written

ServerTypes ==
  /\ stopped \in BOOLEAN /\ has_error \in BOOLEAN
  /\ conn \in {"open", "closed"}
  /\ loop \in {"wait", "pipeline"}
  /\ inbuf \in Buffer /\ inbuf.start <= inbuf.end /\ inbuf.end <= InSize
  /\ outbuf \in Buffer /\ outbuf.start <= outbuf.end /\ outbuf.end <= OutSize
  /\ replies \in Seq([kind : {"ok", "mismatch", "garbage_args"}, from : Nat, to : Nat])
  /\ log \in Seq(Nat)

IInv == /\ ClientTypes /\ StreamTypes /\ ServerTypes
        /\ CallsInv /\ ServerInv /\ RepliesInv /\ ClientInv

-----------------------------------------------------------------------------
(***************************************************************************)
(* Streams and sizes.                                                      *)
(***************************************************************************)
LEMMA ChainAppend ==
  ASSUME NEW S, NEW s \in Seq(S), Chain(s), NEW e \in S, e.from \in Nat, e.to \in Nat,
         e.from = UpTo(s, Len(s)), e.from < e.to
  PROVE  /\ Chain(Append(s, e))
         /\ UpTo(Append(s, e), Len(Append(s, e))) = e.to
         /\ \A n \in 0..Len(s) : UpTo(Append(s, e), n) = UpTo(s, n)
<1> DEFINE t == Append(s, e)
<1>1. /\ Len(s) \in Nat /\ Len(t) = Len(s) + 1 /\ DOMAIN s = 1..Len(s)
      /\ DOMAIN t = 1..(Len(s) + 1)
      /\ t[Len(s) + 1] = e /\ \A i \in 1..Len(s) : t[i] = s[i]
  OBVIOUS
<1> HIDE DEF t
<1>2. ASSUME NEW i \in DOMAIN s PROVE s[i].to <= e.from
  <2>1. e.from = s[Len(s)].to /\ Len(s) \in DOMAIN s /\ i <= Len(s)
    BY <1>1 DEF UpTo
  <2>2. /\ i < Len(s) => s[i].to <= s[Len(s)].from
        /\ s[Len(s)].from < s[Len(s)].to /\ s[i].to \in Nat
        /\ s[Len(s)].from \in Nat /\ s[Len(s)].to \in Nat
    BY <2>1 DEF Chain
  <2> QED
    BY <1>1, <2>1, <2>2
<1>3. \A i \in DOMAIN t : t[i].from \in Nat /\ t[i].to \in Nat /\ t[i].from < t[i].to
  <2>1. \A i \in DOMAIN s : s[i].from \in Nat /\ s[i].to \in Nat /\ s[i].from < s[i].to
    BY DEF Chain
  <2> QED
    BY <1>1, <2>1
<1>4. \A i \in DOMAIN t : t[i].from = IF i = 1 THEN 0 ELSE t[i - 1].to
  BY <1>1 DEF Chain, UpTo
<1>5. \A i, j \in DOMAIN t : i < j => t[i].to <= t[j].from
  BY <1>1, <1>2 DEF Chain
<1>6. \A n \in 0..Len(s) : UpTo(t, n) = UpTo(s, n)
  BY <1>1 DEF UpTo
<1>7. UpTo(t, Len(t)) = e.to
  BY <1>1 DEF UpTo
<1> QED
  BY <1>3, <1>4, <1>5, <1>6, <1>7 DEF Chain, t

\* The message that begins where the first n end is the next one.
LEMMA ChainNext ==
  ASSUME NEW S, NEW s \in Seq(S), Chain(s), NEW n \in 0..Len(s),
         NEW k \in DOMAIN s, s[k].from = UpTo(s, n)
  PROVE  k = n + 1
<1>1. k \in 1..Len(s) /\ Len(s) \in Nat /\ DOMAIN s = 1..Len(s)
  OBVIOUS
<1>2. CASE n = 0
  <2>1. k > 1 => s[1].to <= s[k].from /\ s[1].from < s[1].to /\ s[1].from \in Nat /\ s[1].to \in Nat
    BY <1>1 DEF Chain
  <2> QED
    BY <1>1, <1>2, <2>1 DEF UpTo
<1>3. CASE n > 0
  <2>1. s[k].from = s[n].to /\ n \in DOMAIN s
    BY <1>1, <1>3 DEF UpTo
  <2>2. s[n].from < s[n].to /\ s[n].from \in Nat /\ s[n].to \in Nat
    BY <2>1 DEF Chain
  <2>3. ~(k < n)
    BY <1>1, <2>1, <2>2 DEF Chain
  <2>4. k # n
    BY <2>1, <2>2
  <2>5. ~(k > n + 1)
    <3>1. SUFFICES ASSUME k > n + 1 PROVE FALSE
      OBVIOUS
    <3>2. n + 1 \in DOMAIN s
      BY <1>1, <3>1
    <3>3. s[n + 1].from < s[n + 1].to /\ s[n + 1].to <= s[k].from
      BY <1>1, <3>1, <3>2 DEF Chain
    <3>5. s[n + 1].from = s[n].to
      <4>1. n + 1 # 1 /\ (n + 1) - 1 = n
        BY <1>1, <1>3
      <4>2. s[n + 1].from = IF n + 1 = 1 THEN 0 ELSE s[(n + 1) - 1].to
        BY <3>2 DEF Chain
      <4> QED
        BY <4>1, <4>2
    <3>4. s[n + 1].to \in Nat
      BY <3>2 DEF Chain
    <3> QED
      BY <2>1, <2>2, <3>3, <3>4, <3>5
  <2> QED
    BY <1>1, <2>3, <2>4, <2>5
<1> QED
  BY <1>2, <1>3

\* The sizes of the code's buffers.
LEMMA Sizes ==
  /\ MaxPipeline \in Nat /\ MaxRequest \in Nat /\ MaxResponse \in Nat /\ CallHeader \in Nat
  /\ AcceptHeader \in Nat /\ MismatchSize \in Nat /\ SocketBuffer \in Nat
  /\ CallHeader > 0 /\ AcceptHeader > 0 /\ MismatchSize > 0
  /\ AcceptHeader <= MismatchSize /\ MismatchSize <= MaxResponse
  /\ InSize \in Nat /\ OutSize \in Nat /\ ReplyBufferSize \in Nat
  /\ OutSize = 2 * MaxResponse
<1>1. /\ MaxPipeline \in Nat /\ MaxRequest \in Nat /\ MaxResponse \in Nat
      /\ CallHeader \in Nat \ {0} /\ AcceptHeader \in Nat \ {0} /\ MismatchSize \in Nat \ {0}
      /\ SocketBuffer \in Nat
      /\ AcceptHeader <= MismatchSize /\ MismatchSize <= MaxResponse
  BY RpcAssumption
<1>2. InSize \in Nat /\ OutSize \in Nat /\ OutSize = 2 * MaxResponse
  BY <1>1 DEF InSize, OutSize
<1>3. ReplyBufferSize \in Nat
  BY <1>1 DEF ReplyBufferSize
<1> QED
  BY <1>1, <1>2, <1>3

LEMMA FunctionSizes ==
  ASSUME NEW f \in Functions
  PROVE  /\ f.size \in Nat /\ f.res.size \in Nat /\ f.exported \in BOOLEAN
         /\ AcceptHeader + f.res.size <= MaxResponse
         /\ f.res \in Field
BY RpcAssumption DEF Function, Field

\* A value that decodes is there, although the bytes behind a text are counted modulo 2^8.
LEMMA DecodesWhole ==
  ASSUME NEW n \in Int, NEW field \in Field, Decodes(n, field),
         field.text => field.size >= 1
  PROVE  n >= field.size
<1>1. field.size \in Nat
  BY DEF Field
<1>2. CASE field.text
  <2>1. n >= 1 /\ (n - 1) % 256 >= field.size - 1
    BY <1>2 DEF Decodes, LengthMod
  <2>2. (n - 1) % 256 <= n - 1
    BY <2>1
  <2>3. (n - 1) % 256 \in Int
    OBVIOUS
  <2> QED
    BY <1>1, <2>1, <2>2, <2>3
<1>3. CASE ~field.text
  BY <1>3 DEF Decodes
<1> QED
  BY <1>2, <1>3

LEMMA ChangeAt ==
  ASSUME NEW S, NEW s \in Seq(S), NEW i \in 1..Len(s), NEW e \in S
  PROVE  [s EXCEPT ![i] = e] \in Seq(S) /\ Len([s EXCEPT ![i] = e]) = Len(s)
OBVIOUS

\* What Slide moves is what there was.
LEMMA SlidBuffer ==
  ASSUME NEW b \in Buffer, NEW size \in Nat, NEW reserve \in Nat, b.start <= b.end, b.end <= size
  PROVE  LET m == Slid(b, size, reserve) IN
         m \in Buffer /\ m.start <= m.end /\ m.end <= size /\ DataSize(m) = DataSize(b)
BY DEF Slid, Buffer, DataSize

LEMMA PieceRange ==
  ASSUME NEW n \in Int, NEW k \in Pieces(n)
  PROVE  k \in Nat /\ 1 <= k /\ k <= n
BY DEF Pieces

-----------------------------------------------------------------------------
(***************************************************************************)
(* The initial state.                                                      *)
(***************************************************************************)
LEMMA TypeParts == ClientTypes /\ StreamTypes /\ ServerTypes => TypeOK
<1> SUFFICES ASSUME ClientTypes, StreamTypes, ServerTypes PROVE TypeOK
  OBVIOUS
<1>1. flushed \in 0..Len(calls) /\ NrPending <= MaxPipeline /\ nr_replied \in 0..NrPending
  BY DEF ClientTypes, NrPending
<1>2. insz \in 0..ReplyBufferSize /\ instart \in 0..insz
  BY Sizes DEF ClientTypes
<1>3. taken \in 0..sent /\ got \in 0..written
  BY DEF StreamTypes
<1> QED
  BY <1>1, <1>2, <1>3 DEF TypeOK, ClientTypes, StreamTypes, ServerTypes

LEMMA Lengths ==
  ASSUME ClientTypes, ServerTypes
  PROVE  /\ Len(calls) \in Nat /\ DOMAIN calls = 1..Len(calls)
         /\ Len(results) = Len(calls) /\ DOMAIN results = 1..Len(calls)
         /\ Len(log) \in Nat /\ DOMAIN log = 1..Len(log)
         /\ Len(replies) \in Nat /\ DOMAIN replies = 1..Len(replies)
         /\ NrDone \in Nat /\ NrDone <= Len(calls)
         /\ flushed <= NrDone
BY DEF ClientTypes, ServerTypes, NrDone

\* Where the two streams end.
LEMMA StreamEnds ==
  ASSUME ClientTypes, ServerTypes, CallsInv, RepliesInv
  PROVE  /\ Encoded = UpTo(calls, Len(calls)) /\ Encoded \in Nat
         /\ Produced = UpTo(replies, Len(replies)) /\ Produced \in Nat
<1>1. Encoded = UpTo(calls, Len(calls))
  BY DEF Encoded, UpTo, ClientTypes
<1>2. Produced = UpTo(replies, Len(replies))
  BY DEF Produced, UpTo, ServerTypes
<1>3. UpTo(calls, Len(calls)) \in Nat
  BY Lengths DEF UpTo, CallsInv, Chain
<1>4. UpTo(replies, Len(replies)) \in Nat
  BY Lengths DEF UpTo, RepliesInv, Chain
<1> QED
  BY <1>1, <1>2, <1>3, <1>4

LEMMA InitIInv == Init => IInv
<1> SUFFICES ASSUME Init PROVE IInv
  OBVIOUS
<1>1. ClientTypes
  <2>1. /\ calls \in Seq([fn : Functions, from : Nat, to : Nat])
        /\ results \in Seq({Unset, Failed} \cup Nat)
        /\ Len(calls) = 0 /\ Len(results) = 0
    BY DEF Init
  <2>2. MaxPipeline \in Nat /\ ReplyBufferSize \in Nat
    BY Sizes
  <2>3. phase \in {"idle", "read", "parse", "gone"} /\ fd_open \in BOOLEAN /\ error \in BOOLEAN
    BY DEF Init
  <2>4. /\ flushed \in Nat /\ nr_replied \in Nat /\ insz \in Nat /\ instart \in Nat
        /\ flushed + nr_replied <= Len(calls) /\ Len(calls) - flushed <= MaxPipeline
        /\ instart <= insz /\ insz <= ReplyBufferSize /\ Len(results) = Len(calls)
    BY <2>1, <2>2 DEF Init
  <2> QED
    BY <2>1, <2>3, <2>4 DEF ClientTypes
<1>2. StreamTypes
  BY DEF Init, StreamTypes
<1>3. ServerTypes
  <2>1. /\ replies \in Seq([kind : {"ok", "mismatch", "garbage_args"}, from : Nat, to : Nat])
        /\ log \in Seq(Nat)
    BY DEF Init
  <2>2. /\ inbuf \in Buffer /\ inbuf.start <= inbuf.end /\ inbuf.end <= InSize
        /\ outbuf \in Buffer /\ outbuf.start <= outbuf.end /\ outbuf.end <= OutSize
    BY Sizes DEF Init, Buffer
  <2>3. conn = "open" /\ stopped = FALSE /\ loop = "wait" /\ has_error = FALSE
    BY DEF Init
  <2> QED
    BY <2>1, <2>2, <2>3 DEF ServerTypes
<1>4. CallsInv /\ RepliesInv
  BY DEF Init, CallsInv, RepliesInv, Chain, UpTo, DataSize
<1>5. ServerInv
  BY Sizes DEF Init, ServerInv, ExecutedInOrder, UpTo, DataSize
<1>6. ClientInv
  BY DEF Init, ClientInv, NrDone, Parsed, UpTo, RepliesInOrder
<1> QED
  BY <1>1, <1>2, <1>3, <1>4, <1>5, <1>6 DEF IInv

-----------------------------------------------------------------------------
(***************************************************************************)
(* The client.                                                             *)
(***************************************************************************)
\* A call that is added to the stream leaves the ones before it where they are.
LEMMA SendStep ==
  ASSUME IInv, NEW f \in Functions, Send(f)
  PROVE  IInv'
<1> USE DEF IInv
<1> DEFINE e == [fn |-> f, from |-> Encoded, to |-> Encoded + CallHeader + f.size]
<1>1. /\ calls' = Append(calls, e) /\ results' = Append(results, Unset)
      /\ Len(calls) - flushed < MaxPipeline
      /\ UNCHANGED <<phase, fd_open, error, flushed, nr_replied, insz, instart,
                     sent, taken, written, got,
                     conn, stopped, loop, inbuf, outbuf, has_error, replies, log>>
  BY DEF Send, streamVars, serverVars, NrPending
<1>2. /\ calls \in Seq([fn : Functions, from : Nat, to : Nat])
      /\ results \in Seq({Unset, Failed} \cup Nat)
  BY DEF ClientTypes
<1>3. Encoded = UpTo(calls, Len(calls)) /\ Encoded \in Nat
  BY StreamEnds
<1>4. f.size \in Nat
  BY FunctionSizes
<1>5. e \in [fn : Functions, from : Nat, to : Nat] /\ e.from = Encoded /\ e.from < e.to
      /\ e.from \in Nat /\ e.to \in Nat /\ e.to = e.from + CallHeader + e.fn.size
  BY <1>3, <1>4, Sizes
<1> HIDE DEF e
<1>6. Chain(calls)
  BY DEF CallsInv
<1>7. /\ Chain(calls') /\ UpTo(calls', Len(calls')) = e.to
      /\ \A n \in 0..Len(calls) : UpTo(calls', n) = UpTo(calls, n)
  <2> DEFINE S == [fn : Functions, from : Nat, to : Nat]
  <2>1. calls \in Seq(S) /\ e \in S
    BY <1>2, <1>5
  <2> HIDE DEF S
  <2>2. e.from = UpTo(calls, Len(calls)) /\ e.from < e.to /\ e.from \in Nat /\ e.to \in Nat
    BY <1>3, <1>5
  <2> QED
    BY <1>1, <1>6, <2>1, <2>2, ChainAppend
<1>8. /\ Len(calls') = Len(calls) + 1 /\ DOMAIN calls' = 1..(Len(calls) + 1)
      /\ calls'[Len(calls) + 1] = e /\ \A i \in 1..Len(calls) : calls'[i] = calls[i]
  BY <1>1, <1>2
<1>9. /\ Len(results') = Len(calls) + 1 /\ DOMAIN results' = 1..(Len(calls) + 1)
      /\ results'[Len(calls) + 1] = Unset /\ \A i \in 1..Len(calls) : results'[i] = results[i]
  BY <1>1, <1>2, Lengths
<1>10. ClientTypes'
  <2>1. calls' \in Seq([fn : Functions, from : Nat, to : Nat])
    BY <1>1, <1>2, <1>5
  <2>2. results' \in Seq({Unset, Failed} \cup Nat)
    BY <1>1, <1>2
  <2>3. /\ Len(results') = Len(calls') /\ flushed + nr_replied <= Len(calls')
        /\ Len(calls') - flushed <= MaxPipeline
    BY <1>1, <1>8, <1>9, Lengths, Sizes DEF ClientTypes
  <2> QED
    BY <1>1, <2>1, <2>2, <2>3 DEF ClientTypes
<1>11. StreamTypes' /\ ServerTypes'
  BY <1>1 DEF StreamTypes, ServerTypes
<1>12. CallsInv'
  <2>1. sent <= e.to
    BY <1>3, <1>5 DEF CallsInv, StreamTypes
  <2>2. \A i \in DOMAIN calls' : calls'[i].to = calls'[i].from + CallHeader + calls'[i].fn.size
    BY <1>5, <1>8, Lengths DEF CallsInv
  <2> QED
    BY <1>1, <1>7, <2>1, <2>2 DEF CallsInv
<1>13. Len(log) \in 0..Len(calls)
  <2>1. Len(log) <= Len(calls)
    BY DEF ServerInv
  <2> QED
    BY <2>1, Lengths
<1>14. ServerInv'
  <2>1. ExecutedInOrder'
    <3>1. \A i \in DOMAIN log : i \in 1..Len(calls)
      BY <1>13, Lengths
    <3> QED
      BY <1>1, <1>8, <3>1 DEF ServerInv, ExecutedInOrder
  <2>2. UpTo(calls', Len(log)) = UpTo(calls, Len(log)) /\ Len(log) <= Len(calls')
    BY <1>7, <1>8, <1>13, Lengths
  <2> QED
    BY <1>1, <2>1, <2>2 DEF ServerInv, DataSize
<1>15. RepliesInv'
  <2>1. \A j \in 1..Len(log) : calls'[j] = calls[j]
    BY <1>8, <1>13, Lengths
  <2>2. \A j \in DOMAIN replies : j <= Len(log) => j \in 1..Len(log)
    BY Lengths
  <2> QED
    BY <1>1, <2>1, <2>2 DEF RepliesInv, DataSize
<1>16. ClientInv'
  <2>1. NrDone' = NrDone /\ Parsed' = Parsed
    BY <1>1 DEF NrDone, Parsed
  <2>2. RepliesInOrder'
    BY <1>9, Lengths DEF ClientInv, RepliesInOrder
  <2>3. \A i \in 1..NrDone : results'[i] = results[i]
    BY <1>9, Lengths
  <2> QED
    BY <1>1, <2>1, <2>2, <2>3 DEF ClientInv
<1> QED
  BY <1>10, <1>11, <1>12, <1>14, <1>15, <1>16

\* fail: of Flush.
LEMMA FailStep ==
  ASSUME IInv, Fail, UNCHANGED <<taken, written, got>>, UNCHANGED serverVars,
         UNCHANGED sent
  PROVE  IInv'
<1> USE DEF IInv
<1>1. /\ phase' = "idle" /\ fd_open' = FALSE /\ error' = TRUE /\ calls' = calls
      /\ results' = [i \in DOMAIN results |->
                       IF i > flushed + nr_replied THEN Failed ELSE results[i]]
      /\ flushed' = Len(calls) /\ nr_replied' = 0 /\ insz' = 0 /\ instart' = 0
      /\ UNCHANGED <<taken, written, got, sent, conn, stopped, loop, inbuf, outbuf, has_error,
                     replies, log>>
  BY DEF Fail, serverVars
<1>2. results \in Seq({Unset, Failed} \cup Nat)
  BY DEF ClientTypes
<1>3. /\ DOMAIN results' = 1..Len(calls)
      /\ \A i \in 1..Len(calls) : results'[i] = IF i > NrDone THEN Failed ELSE results[i]
  BY <1>1, Lengths DEF NrDone
<1>4. /\ results' \in Seq({Unset, Failed} \cup Nat) /\ Len(results') = Len(calls)
  <2>1. \A i \in 1..Len(calls) : results[i] \in {Unset, Failed} \cup Nat
    BY <1>2, Lengths
  <2>2. results' \in [1..Len(calls) -> {Unset, Failed} \cup Nat]
    BY <1>1, <2>1, Lengths
  <2> QED
    BY <2>2, Lengths
<1>5. ClientTypes'
  <2>1. /\ Len(calls) \in Nat /\ Len(calls) + 0 <= Len(calls) /\ Len(calls) - Len(calls) <= MaxPipeline
        /\ 0 <= ReplyBufferSize /\ Len(results') = Len(calls')
    BY <1>1, <1>4, Lengths, Sizes
  <2>2. calls' \in Seq([fn : Functions, from : Nat, to : Nat])
    BY <1>1 DEF ClientTypes
  <2>3. phase' \in {"idle", "read", "parse", "gone"} /\ fd_open' \in BOOLEAN /\ error' \in BOOLEAN
    BY <1>1
  <2>4. /\ flushed' \in Nat /\ nr_replied' \in Nat /\ insz' \in Nat /\ instart' \in Nat
        /\ flushed' + nr_replied' <= Len(calls') /\ Len(calls') - flushed' <= MaxPipeline
        /\ instart' <= insz' /\ insz' <= ReplyBufferSize
    BY <1>1, <2>1
  <2> QED
    BY <1>4, <2>1, <2>2, <2>3, <2>4 DEF ClientTypes
<1>6. StreamTypes' /\ ServerTypes'
  BY <1>1 DEF StreamTypes, ServerTypes
<1>7. CallsInv' /\ RepliesInv'
  BY <1>1 DEF CallsInv, RepliesInv, DataSize
<1>8. ServerInv'
  BY <1>1 DEF ServerInv, ExecutedInOrder, DataSize
<1>9. ClientInv'
  <2>1. NrDone' = Len(calls)
    BY <1>1, Lengths DEF NrDone
  <2> QED
    BY <1>1, <1>3, <2>1, Lengths DEF ClientInv, RepliesInOrder
<1> QED
  BY <1>5, <1>6, <1>7, <1>8, <1>9

\* A step of the client that touches neither calls nor results.
LEMMA QuietClientStep ==
  ASSUME IInv, UNCHANGED <<calls, results, serverVars, taken, written, flushed, nr_replied>>,
         phase' \in {"idle", "read", "parse", "gone"}, fd_open' \in BOOLEAN, error' \in BOOLEAN,
         fd_open' => fd_open, phase' \in {"read", "parse"} => fd_open',
         sent' \in Nat, sent <= sent', sent' <= Encoded,
         got' \in Nat, got <= got', got' <= written,
         insz' \in Nat, instart' \in Nat, instart' <= insz', insz' <= ReplyBufferSize,
         fd_open' => got' - insz' + instart' = Parsed
  PROVE  IInv'
<1> USE DEF IInv
<1>1. UNCHANGED <<conn, stopped, loop, inbuf, outbuf, has_error, replies, log>>
  BY DEF serverVars
<1>2. ClientTypes'
  BY DEF ClientTypes
<1>3. StreamTypes'
  BY DEF StreamTypes
<1>4. ServerTypes'
  BY <1>1 DEF ServerTypes
<1>5. CallsInv'
  BY StreamEnds DEF CallsInv
<1>6. RepliesInv'
  BY <1>1 DEF RepliesInv, DataSize
<1>7. ServerInv'
  <2>1. fd_open' => written' - got' <= SocketBuffer
    <3>1. /\ written' = written /\ written \in Nat /\ got \in Nat /\ SocketBuffer \in Nat
          /\ got' \in Nat /\ got <= got'
      BY Sizes DEF StreamTypes
    <3>2. fd_open' => written - got <= SocketBuffer
      BY DEF ServerInv
    <3> SUFFICES ASSUME fd_open' PROVE written' - got' <= SocketBuffer
      OBVIOUS
    <3>3. written - got <= SocketBuffer
      BY <3>2
    <3>4. \A w, g, h, n \in Nat : w - g <= n /\ g <= h => w - h <= n
      OBVIOUS
    <3> QED
      BY <3>1, <3>3, <3>4
  <2> QED
    BY <1>1, <2>1 DEF ServerInv, ExecutedInOrder, DataSize
<1>8. ClientInv'
  <2>1. NrDone' = NrDone /\ Parsed' = got' - insz' + instart'
    BY DEF NrDone, Parsed
  <2> QED
    BY <1>1, <2>1 DEF ClientInv, RepliesInOrder
<1> QED
  BY <1>2, <1>3, <1>4, <1>5, <1>6, <1>7, <1>8

LEMMA FlushReadLeave ==
  ASSUME IInv, StartFlush \/ ReadReplies \/ ReadEnd \/ ParseError \/ PollNothing \/ Leave
  PROVE  IInv'
<1> USE DEF IInv
<1>1. Encoded \in Nat /\ sent <= Encoded
  BY StreamEnds DEF CallsInv
<1>2. /\ sent \in Nat /\ got \in Nat /\ written \in Nat /\ got <= written /\ insz \in Nat
      /\ instart \in Nat /\ instart <= insz /\ insz <= ReplyBufferSize
      /\ phase \in {"idle", "read", "parse", "gone"}
      /\ fd_open \in BOOLEAN /\ error \in BOOLEAN
  BY DEF ClientTypes, StreamTypes
<1>3. Parsed = got - insz + instart
  BY DEF Parsed
<1>4. phase \in {"read", "parse"} => fd_open
  BY DEF ClientInv
<1>5. CASE StartFlush
  <2>1. CASE fd_open
    <3>1. /\ phase' = "read" /\ sent' = Encoded
          /\ UNCHANGED <<fd_open, error, calls, results, flushed, nr_replied, insz, instart,
                         taken, written, got, serverVars>>
      BY <1>5, <2>1 DEF StartFlush
    <3> QED
      BY <1>1, <1>2, <1>3, <2>1, <3>1, QuietClientStep
  <2>2. CASE ~fd_open
    BY <1>5, <2>2, FailStep DEF StartFlush
  <2> QED
    BY <2>1, <2>2
<1>6. CASE ReadReplies
  <2>1. CASE insz = ReplyBufferSize
    BY <1>6, <2>1, FailStep DEF ReadReplies
  <2>2. CASE insz # ReplyBufferSize
    <3>1. PICK n \in Pieces(Least(written - got, ReplyBufferSize - insz)) :
            /\ insz' = insz + n /\ got' = got + n /\ phase' = "parse"
            /\ UNCHANGED <<fd_open, error, calls, results, flushed, nr_replied, instart>>
      BY <1>6, <2>2 DEF ReadReplies
    <3>2. phase = "read" /\ UNCHANGED <<sent, taken, written, serverVars>>
      BY <1>6 DEF ReadReplies
    <3>3. n \in Nat /\ 1 <= n /\ n <= written - got /\ n <= ReplyBufferSize - insz
      <4>1. Least(written - got, ReplyBufferSize - insz) \in Int
        BY <1>2, Sizes DEF Least
      <4>2. n \in Nat /\ 1 <= n /\ n <= Least(written - got, ReplyBufferSize - insz)
        BY <4>1, PieceRange
      <4> QED
        BY <1>2, <4>2, Sizes DEF Least
    <3>4. /\ got' - insz' + instart' = Parsed /\ got' \in Nat /\ got <= got' /\ got' <= written
          /\ insz' \in Nat /\ instart' <= insz' /\ insz' <= ReplyBufferSize
      BY <1>2, <1>3, <3>1, <3>3, Sizes
    <3> QED
      BY <1>1, <1>2, <1>4, <3>1, <3>2, <3>4, QuietClientStep
  <2> QED
    BY <2>1, <2>2
<1>7. CASE ReadEnd \/ ParseError
  BY <1>7, FailStep DEF ReadEnd, ParseError, streamVars
<1>8. CASE PollNothing
  <2>1. UNCHANGED <<phase, fd_open, error, calls, results, flushed, nr_replied, insz, instart,
                    sent, taken, written, got, serverVars>>
    BY <1>8 DEF PollNothing, vars, clientVars, streamVars
  <2> QED
    BY <1>1, <1>2, <1>3, <1>4, <2>1, QuietClientStep
<1>9. CASE Leave
  <2>1. sent' \in Nat /\ sent <= sent' /\ sent' <= Encoded
    <3>1. \A n \in Pieces(Encoded - sent) : n \in Nat /\ n <= Encoded - sent
      BY <1>1, <1>2, PieceRange
    <3> QED
      BY <1>1, <1>2, <1>9, <3>1 DEF Leave
  <2>2. /\ phase' = "gone" /\ fd_open' = FALSE
        /\ UNCHANGED <<error, calls, results, flushed, nr_replied, insz, instart,
                       taken, written, got, serverVars>>
    BY <1>9 DEF Leave
  <2>3. /\ phase' \in {"idle", "read", "parse", "gone"} /\ fd_open' \in BOOLEAN
        /\ error' \in BOOLEAN /\ ~fd_open' /\ phase' \notin {"read", "parse"}
    BY <1>2, <2>2
  <2>4. /\ got' \in Nat /\ got <= got' /\ got' <= written
        /\ insz' \in Nat /\ instart' \in Nat /\ instart' <= insz' /\ insz' <= ReplyBufferSize
    BY <1>2, <2>2
  <2> QED
    BY <2>1, <2>2, <2>3, <2>4, QuietClientStep
<1> QED
  BY <1>5, <1>6, <1>7, <1>8, <1>9

\* The reply that begins where parsing goes on is the one to the oldest open call, and all of
\* it is there.
LEMMA ParseReplyStep ==
  ASSUME IInv, ParseReply
  PROVE  IInv'
<1> USE DEF IInv
<1>1. /\ phase = "parse" /\ CompleteReply
      /\ nr_replied' = nr_replied + 1
      /\ instart' = instart + AcceptHeader + calls[flushed + nr_replied + 1].fn.res.size
      /\ UNCHANGED <<phase, fd_open, error, calls, flushed, insz, sent, taken, written, got,
                     conn, stopped, loop, inbuf, outbuf, has_error, replies, log>>
  BY DEF ParseReply, streamVars, serverVars
<1>2. PICK j \in ReplyHere :
        replies[j].kind = "ok" /\ results' = [results EXCEPT ![flushed + nr_replied + 1] = j]
  BY DEF ParseReply
<1>3. fd_open /\ NrDone \in 0..Len(replies) /\ Parsed = UpTo(replies, NrDone)
  <2>1. fd_open
    BY <1>1 DEF ClientInv
  <2>2. NrDone <= Len(replies) /\ Parsed = UpTo(replies, NrDone)
    BY <2>1 DEF ClientInv
  <2> QED
    BY <2>1, <2>2, Lengths
<1>4. \A i \in ReplyHere : i = NrDone + 1
  <2> SUFFICES ASSUME NEW i \in ReplyHere PROVE i = NrDone + 1
    OBVIOUS
  <2>1. i \in DOMAIN replies /\ replies[i].from = UpTo(replies, NrDone)
    BY <1>3 DEF ReplyHere
  <2> DEFINE S == [kind : {"ok", "mismatch", "garbage_args"}, from : Nat, to : Nat]
  <2>2. replies \in Seq(S) /\ Chain(replies)
    BY DEF ServerTypes, RepliesInv
  <2> HIDE DEF S
  <2> QED
    BY <1>3, <2>1, <2>2, ChainNext
<1>5. j = NrDone + 1 /\ j \in DOMAIN replies /\ replies[j].from = Parsed
  BY <1>4 DEF ReplyHere
<1>6. j <= Len(log) /\ replies[j].to = replies[j].from + AcceptHeader + calls[j].fn.res.size
  BY <1>2, <1>5 DEF RepliesInv
<1>7. j \in 1..Len(log) /\ j \in 1..Len(calls) /\ j \in 1..Len(replies)
  <2>1. Len(log) <= Len(calls)
    BY DEF ServerInv
  <2> QED
    BY <1>5, <1>6, <2>1, Lengths
<1>8. calls[j].fn \in Functions
  <2> DEFINE S == [fn : Functions, from : Nat, to : Nat]
  <2>1. calls \in Seq(S)
    BY DEF ClientTypes
  <2> HIDE DEF S
  <2>2. calls[j] \in S
    BY <1>7, <2>1
  <2> QED
    BY <2>2 DEF S
<1>9. /\ calls[j].fn.res.size \in Nat /\ calls[j].fn.res \in Field
      /\ calls[j].fn.res.text => calls[j].fn.res.size >= 1
  BY <1>8, FunctionSizes, RpcAssumption
<1>10. j = flushed + nr_replied + 1
  BY <1>5 DEF NrDone
<1>11. insz - instart >= AcceptHeader + calls[j].fn.res.size
  <2>1. Decodes(insz - instart - AcceptHeader, calls[j].fn.res)
    BY <1>1, <1>2, <1>4, <1>10 DEF CompleteReply
  <2>2. insz - instart - AcceptHeader \in Int
    BY Sizes DEF ClientTypes
  <2>3. insz - instart - AcceptHeader >= calls[j].fn.res.size
    BY <1>9, <2>1, <2>2, DecodesWhole
  <2> QED
    BY <1>9, <2>3, Sizes DEF ClientTypes
<1>12. ClientTypes'
  <2>1. results' \in Seq({Unset, Failed} \cup Nat) /\ Len(results') = Len(results)
    <3>1. results \in Seq({Unset, Failed} \cup Nat) /\ j \in Nat
      BY <1>7, Lengths DEF ClientTypes
    <3>2. results' = [results EXCEPT ![j] = j]
      BY <1>2, <1>10
    <3> QED
      BY <1>7, <3>1, <3>2, Lengths, ChangeAt
  <2>2. flushed' + nr_replied' <= Len(calls') /\ nr_replied' \in Nat
    <3>1. flushed \in Nat /\ nr_replied \in Nat
      BY DEF ClientTypes
    <3>2. flushed' = flushed /\ nr_replied' = nr_replied + 1 /\ calls' = calls
      BY <1>1
    <3> QED
      BY <1>7, <1>10, <3>1, <3>2, Lengths
  <2>3. instart' \in Nat /\ instart' <= insz
    <3>1. instart \in Nat /\ insz \in Nat /\ instart' = instart + AcceptHeader + calls[j].fn.res.size
      BY <1>1, <1>10 DEF ClientTypes
    <3> QED
      BY <1>9, <1>11, <3>1, Sizes
  <2> QED
    BY <1>1, <2>1, <2>2, <2>3 DEF ClientTypes
<1>13. StreamTypes' /\ ServerTypes'
  BY <1>1 DEF StreamTypes, ServerTypes
<1>14. CallsInv' /\ RepliesInv'
  BY <1>1 DEF CallsInv, RepliesInv, DataSize
<1>15. ServerInv'
  BY <1>1 DEF ServerInv, ExecutedInOrder, DataSize
<1>16. ClientInv'
  <2>1. NrDone' = j
    BY <1>1, <1>10, Lengths DEF NrDone, ClientTypes
  <2>2. Parsed' = UpTo(replies, j)
    <3>1. Parsed' = Parsed + AcceptHeader + calls[j].fn.res.size
      BY <1>1, <1>9, <1>10, Sizes DEF Parsed, ClientTypes, StreamTypes
    <3>2. UpTo(replies, j) = replies[j].to
      BY <1>7 DEF UpTo
    <3> QED
      BY <1>5, <1>6, <3>1, <3>2
  <2>3. DOMAIN results' = DOMAIN results /\ results'[j] = j
        /\ \A i \in DOMAIN results : i # j => results'[i] = results[i]
    BY <1>2, <1>7, <1>10, Lengths DEF ClientTypes
  <2>4. RepliesInOrder'
    BY <2>3 DEF ClientInv, RepliesInOrder
  <2>5. \A i \in 1..j : results'[i] = Failed \/ results'[i] \in 1..Len(log)
    <3>1. \A i \in 1..j : i = j \/ i \in 1..NrDone
      BY <1>5, <1>7, Lengths
    <3>2. \A i \in 1..NrDone : i \in DOMAIN results /\ i # j
      BY <1>5, Lengths
    <3> QED
      BY <1>7, <2>3, <3>1, <3>2 DEF ClientInv
  <2> QED
    BY <1>1, <1>3, <1>7, <2>1, <2>2, <2>4, <2>5 DEF ClientInv
<1> QED
  BY <1>12, <1>13, <1>14, <1>15, <1>16

LEMMA ParseDoneStep ==
  ASSUME IInv, ParseDone
  PROVE  IInv'
<1> USE DEF IInv
<1>1. phase = "parse" /\ UNCHANGED <<sent, taken, written, got, serverVars>>
  BY DEF ParseDone, streamVars
<1>2. /\ sent \in Nat /\ got \in Nat /\ written \in Nat /\ got <= written /\ insz \in Nat
      /\ instart \in Nat /\ instart <= insz /\ insz <= ReplyBufferSize /\ sent <= Encoded
      /\ fd_open /\ fd_open \in BOOLEAN /\ error \in BOOLEAN
  BY <1>1, StreamEnds DEF ClientTypes, StreamTypes, CallsInv, ClientInv
<1>3. CASE nr_replied < NrPending
  <2>1. /\ phase' = "read"
        /\ UNCHANGED <<fd_open, error, calls, results, flushed, nr_replied, insz, instart>>
    BY <1>3 DEF ParseDone
  <2>2. got' - insz' + instart' = Parsed
    BY <1>1, <2>1 DEF Parsed
  <2> QED
    BY <1>1, <1>2, <2>1, <2>2, QuietClientStep
<1>4. CASE ~(nr_replied < NrPending) /\ instart < insz
  BY <1>1, <1>4, FailStep DEF ParseDone
<1>5. CASE ~(nr_replied < NrPending) /\ ~(instart < insz)
  <2>1. /\ phase' = "idle" /\ flushed' = Len(calls)
        /\ nr_replied' = 0 /\ insz' = 0 /\ instart' = 0
        /\ UNCHANGED <<fd_open, error, calls, results>>
    BY <1>5 DEF ParseDone
  <2>2. UNCHANGED <<conn, stopped, loop, inbuf, outbuf, has_error, replies, log>>
    BY <1>1 DEF serverVars
  <2>3. NrDone' = NrDone /\ NrDone = Len(calls)
    BY <1>5, <2>1, Lengths DEF NrDone, NrPending, ClientTypes
  <2>4. Parsed' = Parsed
    BY <1>1, <1>2, <1>5, <2>1 DEF Parsed
  <2>5. ClientTypes'
    <3>1. /\ flushed' \in Nat /\ nr_replied' \in Nat /\ insz' \in Nat /\ instart' \in Nat
          /\ flushed' + nr_replied' <= Len(calls') /\ Len(calls') - flushed' <= MaxPipeline
          /\ instart' <= insz' /\ insz' <= ReplyBufferSize
      BY <2>1, Lengths, Sizes
    <3>2. phase' \in {"idle", "read", "parse", "gone"} /\ fd_open' \in BOOLEAN /\ error' \in BOOLEAN
      BY <1>2, <2>1
    <3> QED
      BY <2>1, <3>1, <3>2 DEF ClientTypes
  <2>6. StreamTypes' /\ ServerTypes'
    BY <1>1, <2>2 DEF StreamTypes, ServerTypes
  <2>7. CallsInv' /\ RepliesInv'
    BY <1>1, <2>1, <2>2 DEF CallsInv, RepliesInv, DataSize
  <2>8. ServerInv'
    BY <1>1, <2>1, <2>2 DEF ServerInv, ExecutedInOrder, DataSize
  <2>9. ClientInv'
    BY <1>2, <2>1, <2>2, <2>3, <2>4 DEF ClientInv, RepliesInOrder
  <2> QED
    BY <2>5, <2>6, <2>7, <2>8, <2>9
<1> QED
  BY <1>3, <1>4, <1>5

-----------------------------------------------------------------------------
(***************************************************************************)
(* The server.                                                             *)
(***************************************************************************)
\* A write takes bytes from the front of what is to be written, and no more than the kernel
\* has room for.
LEMMA WritesSome ==
  ASSUME IInv, NEW ob \in Buffer, ob.start <= ob.end, NEW w \in Writes(ob)
  PROVE  /\ w.n \in Nat /\ w.n <= DataSize(ob)
         /\ fd_open => written + w.n - got <= SocketBuffer
<1> USE DEF IInv
<1>1. DataSize(ob) \in Nat /\ SocketBuffer \in Nat /\ written \in Nat /\ got \in Nat
  BY Sizes DEF Buffer, DataSize, StreamTypes
<1>2. ASSUME fd_open PROVE written - got <= SocketBuffer
  BY <1>2 DEF ServerInv
<1>3. CASE DataSize(ob) = 0
  <2>1. w.n = 0
    BY <1>3 DEF Writes
  <2> QED
    BY <1>1, <1>2, <2>1
<1>4. CASE DataSize(ob) # 0 /\ fd_open
  <2>1. w.n = Least(DataSize(ob), SocketBuffer - (written - got))
    BY <1>4 DEF Writes
  <2>2. written - got <= SocketBuffer
    BY <1>2, <1>4
  <2> QED
    BY <1>1, <2>1, <2>2 DEF Least
<1>5. CASE DataSize(ob) # 0 /\ ~fd_open
  <2>1. w.n = DataSize(ob) \/ w.n = 0
    BY <1>5 DEF Writes
  <2> QED
    BY <1>1, <1>5, <2>1
<1> QED
  BY <1>3, <1>4, <1>5

\* A step of the server that handles no call: it moves bytes into and out of its buffers.
LEMMA QuietServerStep ==
  ASSUME IInv, UNCHANGED clientVars, UNCHANGED <<sent, got, has_error, replies, log>>,
         stopped' \in BOOLEAN, conn' \in {"open", "closed"}, loop' \in {"wait", "pipeline"},
         inbuf' \in Buffer, inbuf'.start <= inbuf'.end, inbuf'.end <= InSize,
         outbuf' \in Buffer, outbuf'.start <= outbuf'.end, outbuf'.end <= OutSize,
         taken' \in Nat, taken <= taken', taken' <= sent,
         taken' - DataSize(inbuf)' = taken - DataSize(inbuf),
         written' \in Nat, written <= written',
         written' + DataSize(outbuf)' = written + DataSize(outbuf),
         fd_open => written' - got <= SocketBuffer
  PROVE  IInv'
<1> USE DEF IInv
<1>1. UNCHANGED <<phase, fd_open, error, calls, results, flushed, nr_replied, insz, instart>>
  BY DEF clientVars
<1>2. ClientTypes'
  BY <1>1 DEF ClientTypes
<1>3. StreamTypes'
  BY DEF StreamTypes
<1>4. ServerTypes'
  BY DEF ServerTypes
<1>5. CallsInv'
  BY <1>1 DEF CallsInv
<1>6. ServerInv'
  <2>1. \A i \in DOMAIN log : log[i] = i /\ calls[i].to <= taken'
    <3>1. \A i \in DOMAIN log : log[i] = i /\ calls[i].to <= taken
      BY DEF ServerInv, ExecutedInOrder
    <3>3. \A i \in DOMAIN calls : calls[i].to \in Nat
      BY DEF CallsInv, Chain
    <3>4. Len(log) <= Len(calls)
      BY DEF ServerInv
    <3>5. \A i \in DOMAIN log : i \in DOMAIN calls
      BY <3>4, Lengths
    <3>2. taken \in Nat
      BY DEF StreamTypes
    <3> QED
      BY <3>1, <3>2, <3>3, <3>5
  <2> QED
    BY <1>1, <2>1 DEF ServerInv, ExecutedInOrder
<1>7. RepliesInv'
  BY <1>1 DEF RepliesInv
<1>8. ClientInv'
  BY <1>1 DEF ClientInv, NrDone, Parsed, RepliesInOrder
<1> QED
  BY <1>2, <1>3, <1>4, <1>5, <1>6, <1>7, <1>8

\* What epoll reports moves bytes only.
LEMMA ConnectionEventStep ==
  ASSUME IInv, OnConnectionEvent
  PROVE  IInv'
<1> USE DEF IInv
<1>1. UNCHANGED clientVars /\ UNCHANGED <<sent, got, has_error, replies, log>>
      /\ conn = "open" /\ loop = "wait"
  BY DEF OnConnectionEvent
<1> PICK events \in (SUBSET Events) \ {{}} :
      \E w \in (IF "out" \in events THEN Writes(outbuf) ELSE {[ok |-> TRUE, n |-> 0]}) :
       IF ~w.ok THEN WriteFails /\ UNCHANGED <<inbuf, outbuf, taken, written>>
       ELSE LET ob == [outbuf EXCEPT !.start = @ + w.n] IN
            /\ outbuf' = ob
            /\ written' = written + w.n
            /\ IF "in" \in events THEN ReadCalls(ob)
               ELSE BackToWait(inbuf, ob) /\ UNCHANGED <<inbuf, taken>>
            /\ UNCHANGED stopped
  BY DEF OnConnectionEvent
<1>2. PICK w \in (IF "out" \in events THEN Writes(outbuf) ELSE {[ok |-> TRUE, n |-> 0]}) :
       IF ~w.ok THEN WriteFails /\ UNCHANGED <<inbuf, outbuf, taken, written>>
       ELSE LET ob == [outbuf EXCEPT !.start = @ + w.n] IN
            /\ outbuf' = ob
            /\ written' = written + w.n
            /\ IF "in" \in events THEN ReadCalls(ob)
               ELSE BackToWait(inbuf, ob) /\ UNCHANGED <<inbuf, taken>>
            /\ UNCHANGED stopped
  OBVIOUS
<1>3. /\ inbuf \in Buffer /\ inbuf.start <= inbuf.end /\ inbuf.end <= InSize
      /\ outbuf \in Buffer /\ outbuf.start <= outbuf.end /\ outbuf.end <= OutSize
  BY DEF ServerTypes
<1>4. sent \in Nat /\ taken \in Nat /\ taken <= sent /\ written \in Nat /\ got \in Nat
  BY DEF StreamTypes
<1>5. /\ w.n \in Nat /\ w.n <= DataSize(outbuf)
      /\ fd_open => written + w.n - got <= SocketBuffer
  <2>1. CASE "out" \in events
    BY <1>2, <1>3, <2>1, WritesSome
  <2>2. CASE "out" \notin events
    <3>1. w.n = 0
      BY <1>2, <2>2
    <3>2. fd_open => written - got <= SocketBuffer
      BY DEF ServerInv
    <3>3. DataSize(outbuf) \in Nat
      BY <1>3 DEF DataSize, Buffer
    <3>4. w.n \in Nat /\ w.n <= DataSize(outbuf) /\ written + w.n = written
      BY <1>4, <3>1, <3>3
    <3>5. written + w.n - got = written - got
      BY <1>4, <3>1
    <3> QED
      BY <3>2, <3>4, <3>5
  <2> QED
    BY <2>1, <2>2
<1>6. CASE ~w.ok
  <2>1. /\ conn' = "closed" /\ loop' = "wait" /\ stopped' \in {stopped, TRUE}
        /\ UNCHANGED <<inbuf, outbuf, taken, written>>
    BY <1>2, <1>6 DEF WriteFails, Close
  <2>2. stopped' \in BOOLEAN
    BY <2>1 DEF ServerTypes
  <2>3. DataSize(inbuf)' = DataSize(inbuf) /\ DataSize(outbuf)' = DataSize(outbuf)
    BY <2>1 DEF DataSize
  <2>4. fd_open => written' - got <= SocketBuffer
    BY <2>1 DEF ServerInv
  <2>5. taken' \in Nat /\ taken <= taken' /\ taken' <= sent /\ written' \in Nat /\ written <= written'
    BY <1>4, <2>1
  <2>6. conn' \in {"open", "closed"} /\ loop' \in {"wait", "pipeline"}
    BY <2>1
  <2> QED
    BY <1>1, <1>3, <2>1, <2>2, <2>3, <2>4, <2>5, <2>6, QuietServerStep
<1>7. CASE w.ok
  <2> DEFINE ob == [outbuf EXCEPT !.start = @ + w.n]
  <2>1. /\ outbuf' = ob /\ written' = written + w.n /\ UNCHANGED stopped
        /\ IF "in" \in events THEN ReadCalls(ob)
           ELSE BackToWait(inbuf, ob) /\ UNCHANGED <<inbuf, taken>>
    BY <1>2, <1>7
  <2>2. /\ ob \in Buffer /\ ob.start <= ob.end /\ ob.end <= OutSize
        /\ DataSize(ob) = DataSize(outbuf) - w.n /\ DataSize(outbuf) \in Nat
    BY <1>3, <1>5 DEF Buffer, DataSize
  <2> HIDE DEF ob
  <2>3. /\ written' \in Nat /\ written <= written'
        /\ written' + DataSize(outbuf)' = written + DataSize(outbuf)
    <3>1. DataSize(outbuf)' = DataSize(ob) /\ written' = written + w.n /\ w.n \in Nat
      BY <1>5, <2>1 DEF DataSize
    <3> QED
      BY <1>4, <2>2, <3>1
  <2>4. fd_open => written' - got <= SocketBuffer
    <3> SUFFICES ASSUME fd_open PROVE written' - got <= SocketBuffer
      OBVIOUS
    <3>1. written' = written + w.n /\ w.n \in Nat
      BY <1>5, <2>1
    <3>2. written + w.n - got <= SocketBuffer
      BY <1>5
    <3> QED
      BY <1>4, <3>1, <3>2
  <2>5. stopped' \in BOOLEAN
    BY <2>1 DEF ServerTypes
  <2> DEFINE ib == Slid(inbuf, InSize, 0)
  <2>6. ib \in Buffer /\ ib.start <= ib.end /\ ib.end <= InSize /\ DataSize(ib) = DataSize(inbuf)
    BY <1>3, Sizes, SlidBuffer
  <2>7. \/ /\ conn' \in {"open", "closed"} /\ loop' \in {"wait", "pipeline"}
           /\ inbuf' \in {inbuf, ib} /\ taken' = taken
        \/ \E n \in Pieces(Least(sent - taken, InSize - ib.end)) :
             /\ conn' \in {"open", "closed"} /\ loop' \in {"wait", "pipeline"}
             /\ inbuf' = [ib EXCEPT !.end = @ + n] /\ taken' = taken + n
    BY <1>1, <2>1 DEF ReadCalls, BackToWait, Close
  <2> HIDE DEF ib
  <2>8. /\ inbuf' \in Buffer /\ inbuf'.start <= inbuf'.end /\ inbuf'.end <= InSize
        /\ taken' \in Nat /\ taken <= taken' /\ taken' <= sent
        /\ taken' - DataSize(inbuf)' = taken - DataSize(inbuf)
        /\ conn' \in {"open", "closed"} /\ loop' \in {"wait", "pipeline"}
    <3>1. CASE inbuf' \in {inbuf, ib} /\ taken' = taken
      <4>1. DataSize(inbuf)' = DataSize(inbuf)
        BY <2>6, <3>1 DEF DataSize
      <4> QED
        BY <1>3, <1>4, <2>6, <2>7, <3>1, <4>1
    <3>2. ASSUME NEW n \in Pieces(Least(sent - taken, InSize - ib.end)),
                 inbuf' = [ib EXCEPT !.end = @ + n], taken' = taken + n
          PROVE  /\ inbuf' \in Buffer /\ inbuf'.start <= inbuf'.end /\ inbuf'.end <= InSize
                 /\ taken' \in Nat /\ taken <= taken' /\ taken' <= sent
                 /\ taken' - DataSize(inbuf)' = taken - DataSize(inbuf)
      <4>1. ib.end \in Nat /\ ib.start \in Nat /\ InSize \in Nat
        BY <2>6, Sizes DEF Buffer
      <4>2. Least(sent - taken, InSize - ib.end) \in Int
        BY <1>4, <4>1 DEF Least
      <4>3. n \in Nat /\ n <= Least(sent - taken, InSize - ib.end)
        BY <4>2, PieceRange
      <4>4. n <= sent - taken /\ n <= InSize - ib.end
        BY <1>4, <4>1, <4>2, <4>3 DEF Least
      <4>5. inbuf'.start = ib.start /\ inbuf'.end = ib.end + n /\ inbuf' \in Buffer
        BY <2>6, <3>2, <4>3 DEF Buffer
      <4>6. DataSize(inbuf)' = DataSize(inbuf) + n
        BY <2>6, <4>1, <4>3, <4>5 DEF DataSize
      <4>7. DataSize(inbuf) \in Int
        BY <1>3 DEF Buffer, DataSize
      <4> QED
        BY <1>4, <2>6, <3>2, <4>1, <4>3, <4>4, <4>5, <4>6, <4>7
    <3> QED
      BY <2>7, <3>1, <3>2
  <2> QED
    BY <1>1, <2>1, <2>2, <2>3, <2>4, <2>5, <2>8, QuietServerStep
<1> QED
  BY <1>6, <1>7

\* The call at the front of the buffer is the one after the last that was executed; when it is
\* executed all of it is there, and its answer fits into the space that is left.
LEMMA HandleRequestStep ==
  ASSUME IInv, HandleRequest
  PROVE  IInv'
<1> USE DEF IInv
<1> DEFINE slid == Slid(outbuf, OutSize, MaxResponse)
<1>1. PICK k \in CallHere :
        LET f    == calls[k].fn
            kind == Answer(k, slid)
            size == ReplySize(f, kind)
            ob   == [slid EXCEPT !.end = @ + size]
        IN  /\ kind # "none"
            /\ replies' = Append(replies,
                 [kind |-> kind, from |-> Produced, to |-> Produced + size])
            /\ log' = IF kind = "mismatch" THEN log ELSE Append(log, k)
            /\ has_error' = (kind # "ok")
            /\ inbuf' = [inbuf EXCEPT !.start = @ + Consumed(f, kind)]
            /\ \E w \in Writes(ob) :
                 /\ outbuf' = [ob EXCEPT !.start = @ + w.n]
                 /\ written' = written + w.n
                 /\ IF w.ok THEN UNCHANGED <<conn, loop, stopped>> ELSE WriteFails
  BY DEF HandleRequest
<1>2. /\ conn = "open" /\ loop = "pipeline"
      /\ UNCHANGED <<phase, fd_open, error, calls, results, flushed, nr_replied, insz, instart,
                     sent, taken, got>>
  BY DEF HandleRequest, clientVars
<1> DEFINE f == calls[k].fn
           kind == Answer(k, slid)
           size == ReplySize(f, kind)
           ob == [slid EXCEPT !.end = @ + size]
           rep == [kind |-> kind, from |-> Produced, to |-> Produced + size]
<1>3. PICK w \in Writes(ob) :
        /\ outbuf' = [ob EXCEPT !.start = @ + w.n]
        /\ written' = written + w.n
        /\ IF w.ok THEN UNCHANGED <<conn, loop, stopped>> ELSE WriteFails
  BY <1>1
<1>4. /\ kind # "none" /\ replies' = Append(replies, rep)
      /\ log' = (IF kind = "mismatch" THEN log ELSE Append(log, k))
      /\ has_error' = (kind # "ok")
      /\ inbuf' = [inbuf EXCEPT !.start = @ + Consumed(f, kind)]
  BY <1>1
<1>5. /\ inbuf \in Buffer /\ inbuf.start <= inbuf.end /\ inbuf.end <= InSize
      /\ slid \in Buffer /\ slid.start <= slid.end /\ slid.end <= OutSize
      /\ DataSize(slid) = DataSize(outbuf)
  <2>1. /\ outbuf \in Buffer /\ outbuf.start <= outbuf.end /\ outbuf.end <= OutSize
        /\ inbuf \in Buffer /\ inbuf.start <= inbuf.end /\ inbuf.end <= InSize
    BY DEF ServerTypes
  <2> QED
    BY <2>1, Sizes, SlidBuffer
<1>6. /\ ~has_error /\ Room(slid) /\ DataSize(inbuf) >= CallHeader
      /\ kind = Verdict(f, OutSize - slid.end) /\ kind # "incomplete"
  <2>1. ~has_error /\ Room(slid) /\ ~(DataSize(inbuf) < CallHeader)
    BY <1>4 DEF Answer
  <2>2. /\ kind = Verdict(f, OutSize - slid.end)
        /\ kind # "incomplete"
    BY <1>4, <2>1 DEF Answer
  <2>3. DataSize(inbuf) \in Int /\ CallHeader \in Int
    BY <1>5, Sizes DEF DataSize, Buffer
  <2>4. DataSize(inbuf) >= CallHeader
    BY <2>1, <2>3
  <2> QED
    BY <2>1, <2>2, <2>4
<1>7. /\ kind \in {"ok", "mismatch", "garbage_args"}
      /\ kind # "mismatch" => f.exported /\ Arrived(f)
  BY <1>6 DEF Verdict
<1> HIDE DEF slid, kind, size, ob
<1>8. k \in DOMAIN calls /\ calls[k].from = taken - DataSize(inbuf)
  BY DEF CallHere
<1>9. k = Len(log) + 1 /\ k \in 1..Len(calls) /\ Len(replies) = Len(log)
      /\ Len(log) \in 0..Len(calls)
  <2>1. taken - DataSize(inbuf) = UpTo(calls, Len(log)) /\ Len(replies) = Len(log)
        /\ Len(log) <= Len(calls)
    BY <1>6 DEF ServerInv
  <2>2. Len(log) \in 0..Len(calls) /\ k \in 1..Len(calls)
    BY <1>8, <2>1, Lengths
  <2> DEFINE S == [fn : Functions, from : Nat, to : Nat]
  <2>3. calls \in Seq(S) /\ Chain(calls)
    BY DEF ClientTypes, CallsInv
  <2> HIDE DEF S
  <2>4. k = Len(log) + 1
    BY <1>8, <2>1, <2>2, <2>3, ChainNext
  <2> QED
    BY <2>1, <2>2, <2>4
<1>10. f \in Functions
  <2> DEFINE S == [fn : Functions, from : Nat, to : Nat]
  <2>1. calls \in Seq(S)
    BY DEF ClientTypes
  <2> HIDE DEF S
  <2>2. calls[k] \in S
    BY <1>9, <2>1
  <2> QED
    BY <2>2 DEF S
<1>11. /\ calls[k].from \in Nat /\ calls[k].to \in Nat
       /\ calls[k].to = calls[k].from + CallHeader + f.size
  BY <1>8 DEF CallsInv, Chain
<1> HIDE DEF f
<1>12. /\ size \in Nat /\ size > 0 /\ size <= MaxResponse
       /\ kind = "ok" => size = AcceptHeader + f.res.size
  <2>1. f.res.size \in Nat /\ AcceptHeader + f.res.size <= MaxResponse
    BY <1>10, FunctionSizes
  <2>2. \/ kind = "ok" /\ size = AcceptHeader + f.res.size
        \/ kind = "mismatch" /\ size = MismatchSize
        \/ kind = "garbage_args" /\ size = AcceptHeader
    BY <1>7 DEF ReplySize, size
  <2> QED
    BY <2>1, <2>2, Sizes
<1>13. /\ ob \in Buffer /\ ob.start <= ob.end /\ ob.end <= OutSize
       /\ DataSize(ob) = DataSize(outbuf) + size /\ DataSize(outbuf) \in Nat
  <2>1. slid \in Buffer /\ size \in Nat /\ size <= MaxResponse
    BY <1>5, <1>12
  <2>2. slid.start \in Nat /\ slid.end \in Nat /\ OutSize \in Nat /\ MaxResponse \in Nat
    BY <2>1, Sizes DEF Buffer
  <2>3. OutSize - slid.end > MaxResponse
    BY <1>6 DEF Room
  <2>4. ob.start = slid.start /\ ob.end = slid.end + size /\ ob \in Buffer
    BY <2>1 DEF ob, Buffer
  <2>5. slid.start <= slid.end /\ DataSize(outbuf) = slid.end - slid.start
    BY <1>5 DEF DataSize
  <2>6. DataSize(ob) = ob.end - ob.start
    BY DEF DataSize
  <2> QED
    BY <2>1, <2>2, <2>3, <2>4, <2>5, <2>6
\* All of an executed call has arrived.
<1>14. kind # "mismatch" => CallHeader + f.size <= DataSize(inbuf)
  <2> SUFFICES ASSUME kind # "mismatch" PROVE CallHeader + f.size <= DataSize(inbuf)
    OBVIOUS
  <2>1. DataSize(inbuf) \in Nat /\ CallHeader \in Nat /\ CallHeader <= DataSize(inbuf)
    BY <1>5, <1>6, Sizes DEF Buffer, DataSize
  <2>2. Arrived(f)
    BY <1>7
  <2>3. /\ f \in Function /\ f.size \in Nat
        /\ \A a \in f.args : a.at + a.size <= f.size /\ (a.text => a.size \in 1..(LengthMod - 1))
        /\ f.size = 0 \/ \E a \in f.args : a.at + a.size = f.size
    BY <1>10, RpcAssumption, FunctionSizes
  <2>4. CASE f.size = 0
    BY <2>1, <2>4
  <2>5. CASE f.size # 0
    <3>1. PICK a \in f.args : a.at + a.size = f.size
      BY <2>3, <2>5
    <3>2. a \in Field
      BY <2>3 DEF Function
    <3>3. a.at \in Nat /\ a.size \in Nat
      BY <3>2 DEF Field
    <3>4. Decodes(DataSize(inbuf) - CallHeader - a.at, a)
      BY <2>2 DEF Arrived
    <3>5. a.text => a.size >= 1
      BY <2>3
    <3>6. DataSize(inbuf) - CallHeader - a.at \in Int
      BY <2>1, <3>3
    <3>7. DataSize(inbuf) - CallHeader - a.at >= a.size
      BY <3>2, <3>4, <3>5, <3>6, DecodesWhole
    <3> QED
      BY <2>1, <3>1, <3>3, <3>7
  <2> QED
    BY <2>4, <2>5
<1>15. /\ w.n \in Nat /\ w.n <= DataSize(ob)
       /\ fd_open => written + w.n - got <= SocketBuffer
  BY <1>13, WritesSome
<1>16. /\ Produced \in Nat /\ rep.from = Produced /\ rep.to = Produced + size /\ rep.kind = kind
       /\ Produced = UpTo(replies, Len(replies)) /\ rep.from < rep.to
       /\ rep \in [kind : {"ok", "mismatch", "garbage_args"}, from : Nat, to : Nat]
  <2>1. kind \in {"ok", "mismatch", "garbage_args"} /\ size \in Nat /\ size > 0
    BY <1>7, <1>12
  <2>2. Produced \in Nat /\ Produced = UpTo(replies, Len(replies))
    BY StreamEnds
  <2> QED
    BY <2>1, <2>2
<1> HIDE DEF rep
<1>17. /\ Chain(replies') /\ UpTo(replies', Len(replies')) = rep.to
       /\ \A n \in 0..Len(replies) : UpTo(replies', n) = UpTo(replies, n)
  <2> DEFINE S == [kind : {"ok", "mismatch", "garbage_args"}, from : Nat, to : Nat]
  <2>1. replies \in Seq(S) /\ rep \in S
    BY <1>16 DEF ServerTypes
  <2> HIDE DEF S
  <2>2. Chain(replies) /\ rep.from \in Nat /\ rep.to \in Nat
    BY <1>12, <1>16 DEF RepliesInv
  <2> QED
    BY <1>4, <1>16, <2>1, <2>2, ChainAppend
<1>18. /\ replies' \in Seq([kind : {"ok", "mismatch", "garbage_args"}, from : Nat, to : Nat])
       /\ Len(replies') = k /\ DOMAIN replies' = 1..k
       /\ replies'[k] = rep /\ \A j \in 1..Len(log) : replies'[j] = replies[j]
  <2> DEFINE S == [kind : {"ok", "mismatch", "garbage_args"}, from : Nat, to : Nat]
  <2>1. replies \in Seq(S) /\ rep \in S
    BY <1>16 DEF ServerTypes
  <2> HIDE DEF S
  <2>2. replies' \in Seq(S) /\ Len(replies') = k /\ DOMAIN replies' = 1..k
        /\ replies'[k] = rep /\ \A j \in 1..Len(log) : replies'[j] = replies[j]
    BY <1>4, <1>9, <2>1
  <2> QED
    BY <2>2 DEF S
<1>19. /\ log' \in Seq(Nat) /\ Len(log') \in {Len(log), k}
       /\ \A i \in 1..Len(log) : log'[i] = log[i]
       /\ kind # "mismatch" => Len(log') = k /\ log'[k] = k
       /\ kind = "mismatch" => log' = log
       /\ DOMAIN log' = 1..Len(log')
  <2>1. log \in Seq(Nat) /\ Len(log) \in Nat /\ k \in Nat /\ k = Len(log) + 1
    BY <1>9 DEF ServerTypes
  <2> QED
    BY <1>4, <2>1
<1>20. /\ inbuf' \in Buffer /\ inbuf'.start <= inbuf'.end /\ inbuf'.end <= InSize
       /\ kind = "ok" => DataSize(inbuf)' = DataSize(inbuf) - (CallHeader + f.size)
  <2>1. inbuf.start \in Nat /\ inbuf.end \in Nat /\ inbuf.start <= inbuf.end /\ inbuf.end <= InSize
    BY <1>5 DEF Buffer
  <2>2. CASE kind = "ok"
    <3>1. inbuf' = [inbuf EXCEPT !.start = @ + (CallHeader + f.size)]
      BY <1>4, <2>2 DEF Consumed
    <3>2. CallHeader + f.size \in Nat
      BY <1>10, FunctionSizes, Sizes
    <3>3. CallHeader + f.size <= inbuf.end - inbuf.start
      BY <1>14, <2>2 DEF DataSize
    <3>4. inbuf'.start = inbuf.start + (CallHeader + f.size) /\ inbuf'.end = inbuf.end
          /\ inbuf' \in Buffer
      BY <1>5, <3>1, <3>2 DEF Buffer
    <3>5. DataSize(inbuf)' = inbuf'.end - inbuf'.start /\ DataSize(inbuf) = inbuf.end - inbuf.start
      BY DEF DataSize
    <3> QED
      BY <2>1, <3>2, <3>3, <3>4, <3>5
  <2>3. CASE kind # "ok"
    <3>1. inbuf' = [inbuf EXCEPT !.start = @ + 0]
      BY <1>4, <2>3 DEF Consumed
    <3>2. inbuf'.start = inbuf.start /\ inbuf'.end = inbuf.end /\ inbuf' \in Buffer
      BY <1>5, <2>1, <3>1 DEF Buffer
    <3> QED
      BY <2>1, <2>3, <3>2
  <2> QED
    BY <2>2, <2>3
<1>21. /\ outbuf' \in Buffer /\ outbuf'.start <= outbuf'.end /\ outbuf'.end <= OutSize
       /\ written' \in Nat /\ written <= written'
       /\ written' + DataSize(outbuf)' = written + DataSize(outbuf) + size
  <2>1. /\ ob.start \in Nat /\ ob.end \in Nat /\ ob.start <= ob.end /\ ob.end <= OutSize
        /\ ob \in Buffer /\ w.n \in Nat /\ size \in Nat
    BY <1>12, <1>13, <1>15 DEF Buffer
  <2>2. w.n <= ob.end - ob.start /\ DataSize(outbuf) \in Nat
        /\ ob.end - ob.start = DataSize(outbuf) + size
    BY <1>13, <1>15 DEF DataSize
  <2>3. outbuf'.start = ob.start + w.n /\ outbuf'.end = ob.end /\ outbuf' \in Buffer
    BY <1>3, <2>1 DEF Buffer
  <2>4. DataSize(outbuf)' = outbuf'.end - outbuf'.start
    BY DEF DataSize
  <2>5. written' = written + w.n /\ written \in Nat
    BY <1>3 DEF StreamTypes
  <2> QED
    BY <2>1, <2>2, <2>3, <2>4, <2>5
<1>22. conn' \in {"open", "closed"} /\ loop' \in {"wait", "pipeline"} /\ stopped' \in BOOLEAN
  <2>1. \/ UNCHANGED <<conn, loop, stopped>>
        \/ conn' = "closed" /\ loop' = "wait" /\ stopped' \in {stopped, TRUE}
    BY <1>3 DEF WriteFails, Close
  <2> QED
    BY <1>2, <2>1 DEF ServerTypes
<1>23. ClientTypes'
  BY <1>2 DEF ClientTypes
<1>24. StreamTypes'
  <2>1. sent \in Nat /\ taken \in Nat /\ taken <= sent /\ got \in Nat /\ got <= written
        /\ written \in Nat
    BY DEF StreamTypes
  <2> QED
    BY <1>2, <1>21, <2>1 DEF StreamTypes
<1>25. ServerTypes'
  <2>1. has_error' \in BOOLEAN
    BY <1>4
  <2> QED
    BY <1>18, <1>19, <1>20, <1>21, <1>22, <2>1 DEF ServerTypes
<1>26. CallsInv'
  BY <1>2 DEF CallsInv
<1>27. calls' = calls /\ taken' = taken
  BY <1>2
<1>28. kind # "mismatch" => calls[k].to <= taken
  <2> SUFFICES ASSUME kind # "mismatch" PROVE calls[k].to <= taken
    OBVIOUS
  <2>1. CallHeader + f.size <= DataSize(inbuf)
    BY <1>14
  <2>2. f.size \in Nat /\ CallHeader \in Nat /\ taken \in Nat /\ DataSize(inbuf) \in Int
    BY <1>5, <1>10, FunctionSizes, Sizes DEF StreamTypes, DataSize, Buffer
  <2>3. calls[k].to = taken - DataSize(inbuf) + CallHeader + f.size
    BY <1>8, <1>11
  <2>4. \A t, d, h, z \in Int : h + z <= d => t - d + h + z <= t
    OBVIOUS
  <2>5. taken - DataSize(inbuf) + CallHeader + f.size <= taken
    BY <2>1, <2>2, <2>4
  <2> QED
    BY <2>3, <2>5
<1>29. ServerInv'
  <2>1. Len(log') <= Len(calls')
    <3>1. Len(log') \in {Len(log), k}
      BY <1>19
    <3>2. Len(log) <= Len(calls) /\ k <= Len(calls)
      BY <1>9, Lengths
    <3> QED
      BY <1>27, <3>1, <3>2
  <2>2. ExecutedInOrder'
    <3>1. \A i \in 1..Len(log) : log[i] = i /\ calls[i].to <= taken
      BY Lengths DEF ServerInv, ExecutedInOrder
    <3>2. \A i \in DOMAIN log' : i \in 1..Len(log) \/ (i = k /\ kind # "mismatch")
      <4>1. CASE kind = "mismatch"
        BY <1>19, <4>1, Lengths
      <4>2. CASE kind # "mismatch"
        <5>1. DOMAIN log' = 1..k /\ k = Len(log) + 1 /\ Len(log) \in Nat
          BY <1>9, <1>19, <4>2
        <5> QED
          BY <4>2, <5>1
      <4> QED
        BY <4>1, <4>2
    <3>3. \A i \in DOMAIN log' : log'[i] = i /\ calls[i].to <= taken
      BY <1>19, <1>28, <3>1, <3>2
    <3> QED
      BY <1>27, <3>3 DEF ExecutedInOrder
  <2>3. ~has_error' => /\ taken' - DataSize(inbuf)' = UpTo(calls', Len(log'))
                       /\ Len(replies') = Len(log')
    <3> SUFFICES ASSUME ~has_error'
                 PROVE  /\ taken' - DataSize(inbuf)' = UpTo(calls', Len(log'))
                        /\ Len(replies') = Len(log')
      OBVIOUS
    <3>1. kind = "ok"
      BY <1>4
    <3>2. Len(log') = k /\ Len(replies') = k
      BY <1>18, <1>19, <3>1
    <3>3. UpTo(calls, k) = calls[k].to
      BY <1>9 DEF UpTo
    <3>4. DataSize(inbuf)' = DataSize(inbuf) - (CallHeader + f.size)
      BY <1>20, <3>1
    <3>5. f.size \in Nat /\ CallHeader \in Nat /\ taken \in Nat /\ DataSize(inbuf) \in Int
      BY <1>5, <1>10, FunctionSizes, Sizes DEF StreamTypes, DataSize, Buffer
    <3>6. taken - DataSize(inbuf)' = calls[k].to
      BY <1>8, <1>11, <3>4, <3>5
    <3> QED
      BY <1>27, <3>2, <3>3, <3>6
  <2>4. fd_open' => written' - got' <= SocketBuffer
    <3> SUFFICES ASSUME fd_open PROVE written' - got' <= SocketBuffer
      BY <1>2
    <3>1. got' = got /\ written' = written + w.n
      BY <1>2, <1>3
    <3>2. written + w.n - got <= SocketBuffer
      BY <1>15
    <3>3. written \in Nat /\ got \in Nat /\ w.n \in Nat
      BY <1>15 DEF StreamTypes
    <3> QED
      BY <3>1, <3>2, <3>3
  <2> QED
    BY <2>1, <2>2, <2>3, <2>4 DEF ServerInv
<1>30. RepliesInv'
  <2>1. written' + DataSize(outbuf)' = UpTo(replies', Len(replies'))
    <3>1. written + DataSize(outbuf) = UpTo(replies, Len(replies))
      BY DEF RepliesInv
    <3> QED
      BY <1>16, <1>17, <1>21, <3>1
  <2>2. \A j \in DOMAIN replies' :
          IF replies'[j].kind = "ok"
          THEN /\ j <= Len(log')
               /\ replies'[j].to = replies'[j].from + AcceptHeader + calls[j].fn.res.size
          ELSE has_error'
    <3> SUFFICES ASSUME NEW j \in DOMAIN replies'
                 PROVE  IF replies'[j].kind = "ok"
                        THEN /\ j <= Len(log')
                             /\ replies'[j].to = replies'[j].from + AcceptHeader + calls[j].fn.res.size
                        ELSE has_error'
      OBVIOUS
    <3>1. CASE j = k
      <4>1. CASE kind = "ok"
        <5>1. rep.to = rep.from + (AcceptHeader + f.res.size)
          BY <1>12, <1>16, <4>1
        <5>2. rep.from \in Nat /\ f.res.size \in Nat /\ AcceptHeader \in Nat
          BY <1>10, <1>16, FunctionSizes, Sizes
        <5>3. rep.to = rep.from + AcceptHeader + calls[k].fn.res.size
          BY <5>1, <5>2 DEF f
        <5>4. k <= Len(log')
          BY <1>9, <1>19, <4>1
        <5> QED
          BY <1>16, <1>18, <3>1, <4>1, <5>3, <5>4
      <4>2. CASE kind # "ok"
        BY <1>4, <1>16, <1>18, <3>1, <4>2
      <4> QED
        BY <4>1, <4>2
    <3>2. CASE j # k
      <4>1. j \in 1..Len(log) /\ j \in DOMAIN replies /\ replies'[j] = replies[j]
        BY <1>9, <1>18, <3>2, Lengths
      <4>2. Len(log) <= Len(log') /\ Len(log) \in Nat /\ Len(log') \in Nat
        <5>1. Len(log') \in {Len(log), k}
          BY <1>19
        <5>2. Len(log) \in Nat /\ k = Len(log) + 1
          BY <1>9
        <5> QED
          BY <5>1, <5>2
      <4>3. replies[j].kind = "ok" /\ j <= Len(log')
            /\ replies[j].to = replies[j].from + AcceptHeader + calls[j].fn.res.size
        BY <1>6, <4>1, <4>2 DEF RepliesInv
      <4> QED
        BY <4>1, <4>3
    <3> QED
      BY <3>1, <3>2
  <2> QED
    BY <1>17, <1>27, <2>1, <2>2 DEF RepliesInv
<1>31. ClientInv'
  <2>1. Len(log) <= Len(log') /\ Len(log) \in Nat /\ Len(log') \in Nat
    <3>1. Len(log') \in {Len(log), k}
      BY <1>19
    <3>2. Len(log) \in Nat /\ k = Len(log) + 1
      BY <1>9
    <3> QED
      BY <3>1, <3>2
  <2>2. NrDone' = NrDone /\ Parsed' = Parsed
    BY <1>2 DEF NrDone, Parsed
  <2>3. fd_open' => NrDone' <= Len(replies') /\ Parsed' = UpTo(replies', NrDone')
    <3> SUFFICES ASSUME fd_open PROVE NrDone <= Len(replies') /\ Parsed = UpTo(replies', NrDone)
      BY <1>2, <2>2
    <3>1. NrDone <= Len(replies) /\ Parsed = UpTo(replies, NrDone)
      BY DEF ClientInv
    <3>2. NrDone \in 0..Len(replies) /\ Len(replies) <= Len(replies')
      BY <1>9, <1>18, <3>1, Lengths
    <3> QED
      BY <1>9, <1>17, <1>18, <3>1, <3>2, Lengths
  <2>4. \A i \in 1..NrDone : results[i] = Failed \/ results[i] \in 1..Len(log')
    <3>1. \A i \in 1..NrDone : results[i] = Failed \/ results[i] \in 1..Len(log)
      BY DEF ClientInv
    <3> QED
      BY <2>1, <3>1
  <2> QED
    BY <1>2, <2>2, <2>3, <2>4 DEF ClientInv, RepliesInOrder
<1> QED
  BY <1>23, <1>24, <1>25, <1>26, <1>29, <1>30, <1>31

LEMMA ServerQuietSteps ==
  ASSUME IInv, OnReset \/ EndPipeline \/ Stop \/ Waiting
  PROVE  IInv'
<1> USE DEF IInv
<1>1. /\ inbuf \in Buffer /\ inbuf.start <= inbuf.end /\ inbuf.end <= InSize
      /\ outbuf \in Buffer /\ outbuf.start <= outbuf.end /\ outbuf.end <= OutSize
      /\ conn \in {"open", "closed"} /\ loop \in {"wait", "pipeline"} /\ stopped \in BOOLEAN
  BY DEF ServerTypes
<1>2. taken \in Nat /\ taken <= sent /\ written \in Nat /\ sent \in Nat
  BY DEF StreamTypes
<1>3. fd_open => written - got <= SocketBuffer
  BY DEF ServerInv
<1> DEFINE slid == Slid(outbuf, OutSize, MaxResponse)
<1>4. /\ slid \in Buffer /\ slid.start <= slid.end /\ slid.end <= OutSize
      /\ DataSize(slid) = DataSize(outbuf)
  BY <1>1, Sizes, SlidBuffer
<1>5. /\ UNCHANGED <<phase, fd_open, error, calls, results, flushed, nr_replied, insz, instart>>
      /\ UNCHANGED <<sent, taken, written, got, inbuf, has_error, replies, log>>
      /\ outbuf' \in {outbuf, slid}
      /\ conn' \in {"open", "closed"} /\ loop' \in {"wait", "pipeline"} /\ stopped' \in BOOLEAN
  <2>1. CASE OnReset
    BY <1>1, <2>1 DEF OnReset, Close, streamVars, clientVars
  <2>2. CASE EndPipeline
    BY <1>1, <2>2 DEF EndPipeline, BackToWait, streamVars, clientVars
  <2>3. CASE Stop
    BY <1>1, <2>3 DEF Stop, streamVars, clientVars
  <2>4. CASE Waiting
    BY <1>1, <2>4 DEF Waiting, vars, streamVars, clientVars, serverVars
  <2> QED
    BY <2>1, <2>2, <2>3, <2>4
<1> HIDE DEF slid
<1>6. /\ outbuf' \in Buffer /\ outbuf'.start <= outbuf'.end /\ outbuf'.end <= OutSize
      /\ DataSize(outbuf)' = DataSize(outbuf) /\ DataSize(inbuf)' = DataSize(inbuf)
  BY <1>1, <1>4, <1>5 DEF DataSize
<1>7. UNCHANGED clientVars
  BY <1>5 DEF clientVars
<1>8. /\ taken' \in Nat /\ taken <= taken' /\ taken' <= sent
      /\ written' \in Nat /\ written <= written'
  BY <1>2, <1>5
<1>9. fd_open => written' - got <= SocketBuffer
  BY <1>3, <1>5
<1>10. /\ taken' - DataSize(inbuf)' = taken - DataSize(inbuf)
       /\ written' + DataSize(outbuf)' = written + DataSize(outbuf)
       /\ inbuf' \in Buffer /\ inbuf'.start <= inbuf'.end /\ inbuf'.end <= InSize
  BY <1>1, <1>5, <1>6
<1> QED
  BY <1>5, <1>6, <1>7, <1>8, <1>9, <1>10, QuietServerStep

-----------------------------------------------------------------------------
(***************************************************************************)
(* The theorems.                                                           *)
(***************************************************************************)
LEMMA NextIInv == IInv /\ [Next]_vars => IInv'
<1> SUFFICES ASSUME IInv, [Next]_vars PROVE IInv'
  OBVIOUS
<1>1. ASSUME NEW f \in Functions, Send(f) PROVE IInv'
  BY <1>1, SendStep
<1>2. CASE StartFlush \/ Leave
  BY <1>2, FlushReadLeave
<1>3. CASE FlushStep
  BY <1>3, FlushReadLeave, ParseReplyStep, ParseDoneStep DEF FlushStep
<1>4. CASE ServerStep
  BY <1>4, ServerQuietSteps, ConnectionEventStep, HandleRequestStep DEF ServerStep
<1>5. CASE Stop \/ Waiting
  BY <1>5, ServerQuietSteps
<1>6. CASE UNCHANGED vars
  <2>1. /\ UNCHANGED <<phase, fd_open, error, calls, results, flushed, nr_replied, insz, instart>>
        /\ UNCHANGED <<sent, taken, written, got, conn, stopped, loop, inbuf, outbuf, has_error,
                       replies, log>>
    BY <1>6 DEF vars, clientVars, streamVars, serverVars
  <2> QED
    BY <2>1 DEF IInv, ClientTypes, StreamTypes, ServerTypes, CallsInv, ServerInv, RepliesInv,
                ClientInv, DataSize, ExecutedInOrder, RepliesInOrder, NrDone, Parsed
<1> QED
  BY <1>1, <1>2, <1>3, <1>4, <1>5, <1>6 DEF Next, ClientStep

\* The invariant of the streams and buffers, for the theorems below and those of RpcErrorProofs.
THEOREM Invariant == Spec => []IInv
<1>1. Init => IInv
  BY InitIInv
<1>2. IInv /\ [Next]_vars => IInv'
  BY NextIInv
<1> QED
  BY <1>1, <1>2, PTL DEF Spec

\* Whatever the sizes, no buffer of the client or the server is filled or read past its end,
\* and the client never has more calls pending than it has room for.
THEOREM TypeCorrect == Spec => []TypeOK
<1>1. IInv => TypeOK
  BY TypeParts DEF IInv
<1> QED
  BY <1>1, Invariant, PTL

\* A call is executed at most once, in order, and only when the whole of it has arrived.
THEOREM Executed == Spec => []ExecutedInOrder
<1>1. IInv => ExecutedInOrder
  BY DEF IInv, ServerInv
<1> QED
  BY <1>1, Invariant, PTL

\* Matching replies to calls by their order alone gives each call its own reply.
THEOREM Replied == Spec => []RepliesInOrder
<1>1. IInv => RepliesInOrder
  BY DEF IInv, ClientInv
<1> QED
  BY <1>1, Invariant, PTL

\* After a flush every result is decided, and one that succeeded stems from an executed call.
THEOREM Settled == Spec => []AllSettled
<1>1. IInv => AllSettled
  <2> SUFFICES ASSUME IInv PROVE AllSettled
    OBVIOUS
  <2>1. flushed \in Nat /\ NrDone \in Nat /\ flushed <= NrDone
    BY Lengths DEF IInv, ClientTypes
  <2>2. \A i \in 1..NrDone : results[i] = Failed \/ results[i] \in 1..Len(log)
    BY DEF IInv, ClientInv
  <2> QED
    BY <2>1, <2>2 DEF AllSettled
<1> QED
  BY <1>1, Invariant, PTL

=============================================================================
