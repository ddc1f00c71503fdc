---------------------------- MODULE ServerProofs ----------------------------
(***************************************************************************)
(* For any number of connections, any limit and any mix of clients: the    *)
(* limit on simultaneous clients holds, and the database mutex is held by  *)
(* the one thread inside its critical section.  The counter may exceed the *)
(* number of threads that serve (a slot may leak), so the invariant is an  *)
(* inequality; that it is never less is what keeps the limit, and what     *)
(* keeps the counter from falling below 0.  With clients that keep to the  *)
(* protocol it is an equation: at most one side has something to say on a  *)
(* connection, so no write fails and no slot leaks.                        *)
(***************************************************************************)
EXTENDS Server, FiniteSetTheorems, TLAPS

IInv ==
  /\ TypeOK
  /\ AdmissionLimited
  /\ HolderIsInside

-----------------------------------------------------------------------------
LEMMA ServingFinite ==
  /\ IsFiniteSet(Serving)
  /\ Cardinality(Serving) \in Nat
<1>1. IsFiniteSet(Serving)
  BY ServerAssumption, FS_Subset DEF Serving
<1> QED
  BY <1>1, FS_CardinalityType

\* A step that lets no thread into Serving and leaves the counter alone keeps the limit.
LEMMA FewerServing ==
  ASSUME TypeOK, AdmissionLimited, Serving' \subseteq Serving, count' = count
  PROVE  AdmissionLimited'
<1>1. Cardinality(Serving') <= Cardinality(Serving) /\ Cardinality(Serving') \in Nat
  BY ServingFinite, FS_Subset, FS_CardinalityType
<1> QED
  BY <1>1, ServingFinite, ServerAssumption DEF AdmissionLimited, TypeOK

LEMMA InitIInv == Init => IInv
<1> SUFFICES ASSUME Init PROVE IInv
  OBVIOUS
<1>1. TypeOK
  <2>1. poisoned \in BOOLEAN
    BY DEF Init
  <2>2. thread \in [Conns -> ThreadStates] /\ client \in [Conns -> ClientStates]
    BY DEF Init, ThreadStates, ClientStates
  <2>3. count \in 0..MaxClients /\ sent \in [Conns -> 0..MaxSends] /\ executed \in [Conns -> Nat]
    BY ServerAssumption DEF Init
  <2> QED
    BY <2>1, <2>2, <2>3 DEF Init, TypeOK
<1>2. Serving = {}
  BY DEF Init, Serving
<1>3. AdmissionLimited
  BY <1>2, FS_EmptySet, ServerAssumption DEF Init, AdmissionLimited
<1>4. HolderIsInside
  BY ServerAssumption DEF Init, HolderIsInside
<1> QED
  BY <1>1, <1>3, <1>4 DEF IInv

-----------------------------------------------------------------------------
(***************************************************************************)
(* Types: what a step writes to the socket, and each action.               *)
(***************************************************************************)
LEMMA RespondTypes ==
  ASSUME TypeOK, NEW c \in Conns,
         NEW bytes \in {"connected", "busy", "result", "bad_request"},
         NEW next \in ThreadStates,
         Respond(c, bytes, next)
  PROVE  /\ thread' \in [Conns -> ThreadStates]
         /\ peer' \in [Conns -> {"open", "closed", "reset"}]
         /\ downlink' \in [Conns -> {"nothing", "connected", "busy", "result", "bad_request"}]
         /\ thread' = [thread EXCEPT ![c] = next] \/ thread' = [thread EXCEPT ![c] = "ended"]
<1>1. CASE WriteFails(c)
  BY <1>1 DEF Respond, Goto, TypeOK, ThreadStates
<1>2. CASE ~WriteFails(c)
  BY <1>2 DEF Respond, Goto, Write, TypeOK, ThreadStates
<1> QED
  BY <1>1, <1>2

LEMMA ThreadStepTypes ==
  ASSUME TypeOK, Cardinality(Serving) <= count, NEW c \in Conns, ThreadStep(c)
  PROVE  TypeOK'
<1> USE DEF ThreadStates
<1>1. CASE Refuse(c)
  BY <1>1, RespondTypes DEF Refuse, TypeOK
<1>2. CASE Admit(c)
  BY <1>2, ServerAssumption DEF Admit, Full, Goto, TypeOK, clientVars
<1>3. CASE Greet(c)
  BY <1>3, RespondTypes DEF Greet, TypeOK
<1>4. CASE ReceivePacket(c)
  BY <1>4 DEF ReceivePacket, Dispatch, Goto, TypeOK
<1>5. CASE ReceiveEnd(c)
  BY <1>5 DEF ReceiveEnd, EndOfStreamDecodes, Dispatch, Goto, TypeOK, clientVars, PacketKinds
<1>6. CASE ReceiveError(c)
  BY <1>6 DEF ReceiveError, Goto, TypeOK, clientVars
<1>7. CASE Reject(c)
  BY <1>7, RespondTypes DEF Reject, TypeOK
<1>8. CASE Release(c)
  <2>1. c \in Serving
    BY <1>8 DEF Release, Serving
  <2>2. count > 0
    BY <2>1, ServingFinite, FS_EmptySet DEF TypeOK
  <2> QED
    BY <1>8, <2>2, ServerAssumption DEF Release, Goto, TypeOK, clientVars
<1>9. CASE Lock(c)
  BY <1>9 DEF Lock, Goto, TypeOK, clientVars
<1>10. CASE Execute(c)
  <2>1. poisoned' \in BOOLEAN
    BY <1>10 DEF Execute, TypeOK
  <2>2. /\ thread' \in [Conns -> ThreadStates]
        /\ executed' \in [Conns -> Nat]
        /\ db_holder' \in Conns \cup {NoConn}
    BY <1>10 DEF Execute, Unlock, Goto, TypeOK
  <2> QED
    BY <1>10, <2>1, <2>2 DEF Execute, TypeOK, clientVars
<1>11. CASE RespondResult(c)
  BY <1>11, RespondTypes DEF RespondResult, Unlock, TypeOK
<1>12. CASE Spin(c)
  BY <1>12 DEF Spin, TypeOK, vars, threadVars, clientVars
<1> QED
  BY <1>1, <1>2, <1>3, <1>4, <1>5, <1>6, <1>7, <1>8, <1>9, <1>10, <1>11, <1>12 DEF ThreadStep

LEMMA ClientStepTypes ==
  ASSUME TypeOK, NEW c \in Conns, ClientStep(c)
  PROVE  TypeOK'
<1> USE DEF ClientStates
<1>1. CASE Send(c)
  BY <1>1, ServerAssumption DEF Send, TypeOK, threadVars
<1>2. CASE Exit(c)
  BY <1>2 DEF Exit, Hangup, TypeOK, threadVars, PacketKinds
<1>3. CASE Receive(c)
  BY <1>3 DEF Receive, TypeOK, threadVars
<1>4. CASE SeeEnd(c)
  BY <1>4 DEF SeeEnd, Hangup, TypeOK, threadVars
<1>5. CASE Vanish(c)
  BY <1>5 DEF Vanish, Hangup, Reset, TypeOK, threadVars
<1> QED
  BY <1>1, <1>2, <1>3, <1>4, <1>5 DEF ClientStep

-----------------------------------------------------------------------------
(***************************************************************************)
(* The limit on clients.                                                   *)
(***************************************************************************)
LEMMA GotoServing ==
  ASSUME TypeOK, NEW c \in Conns, NEW state \in ThreadStates, Goto(c, state)
  PROVE  /\ Serving' \subseteq Serving \cup {c}
         /\ state = "ended" => Serving' = Serving \ {c}
BY DEF Goto, Serving, TypeOK, ThreadStates

LEMMA AcceptKeepsLimit ==
  ASSUME TypeOK, AdmissionLimited, NEW c \in Conns, Accept(c)
  PROVE  AdmissionLimited'
<1>1. Serving' \subseteq Serving /\ count' = count
  BY DEF Accept, Goto, Serving, TypeOK
<1> QED
  BY <1>1, FewerServing

LEMMA AdmitKeepsLimit ==
  ASSUME TypeOK, AdmissionLimited, NEW c \in Conns, Admit(c)
  PROVE  AdmissionLimited'
<1>1. Serving' = Serving \cup {c} /\ c \notin Serving
  BY DEF Admit, Goto, Serving, TypeOK
<1>2. Cardinality(Serving') = Cardinality(Serving) + 1
  BY <1>1, ServingFinite, FS_AddElement
<1>3. count' = count + 1 /\ count # MaxClients
  BY DEF Admit, Full
<1> QED
  BY <1>2, <1>3, ServingFinite, ServerAssumption DEF AdmissionLimited, TypeOK

LEMMA ReleaseKeepsLimit ==
  ASSUME TypeOK, AdmissionLimited, NEW c \in Conns, Release(c)
  PROVE  AdmissionLimited'
<1>1. Serving' = Serving \ {c} /\ c \in Serving
  BY DEF Release, Goto, Serving, TypeOK
<1>2. Cardinality(Serving') = Cardinality(Serving) - 1
  BY <1>1, ServingFinite, FS_RemoveElement
<1>3. count' = count - 1
  BY DEF Release
<1> QED
  BY <1>2, <1>3, ServingFinite, ServerAssumption DEF AdmissionLimited, TypeOK

\* The other steps of a thread that serves leave it serving or end it.
LEMMA ThreadStepKeepsLimit ==
  ASSUME TypeOK, AdmissionLimited, NEW c \in Conns, ThreadStep(c)
  PROVE  AdmissionLimited'
<1> USE DEF ThreadStates
<1>1. CASE Admit(c)
  BY <1>1, AdmitKeepsLimit
<1>2. CASE Release(c)
  BY <1>2, ReleaseKeepsLimit
<1>3. CASE Refuse(c)
  <2>1. thread' = [thread EXCEPT ![c] = "ended"]
    BY <1>3, RespondTypes DEF Refuse
  <2> QED
    BY <1>3, <2>1, GotoServing, FewerServing DEF Refuse, Goto
<1>4. CASE ~(Admit(c) \/ Release(c) \/ Refuse(c))
  <2>1. c \in Serving \/ UNCHANGED thread
    BY <1>4 DEF ThreadStep, Serving, Greet, ReceivePacket, ReceiveEnd, ReceiveError, Reject,
                Lock, Execute, RespondResult, Spin, vars, threadVars
  <2>2. count' = count
    BY <1>4 DEF ThreadStep, Greet, ReceivePacket, ReceiveEnd, ReceiveError, Reject,
                Lock, Execute, RespondResult, Spin, vars, threadVars
  <2>3. \A d \in Conns \ {c} : thread'[d] = thread[d]
    BY <1>4 DEF ThreadStep, Greet, ReceivePacket, ReceiveEnd, ReceiveError, Reject,
                Lock, Execute, RespondResult, Spin, vars, threadVars, Respond, Goto, TypeOK
  <2>4. Serving' \subseteq Serving
    BY <2>1, <2>3 DEF Serving
  <2> QED
    BY <2>2, <2>4, FewerServing
<1> QED
  BY <1>1, <1>2, <1>3, <1>4

-----------------------------------------------------------------------------
(***************************************************************************)
(* The database mutex.                                                     *)
(***************************************************************************)
LEMMA ThreadStepKeepsHolder ==
  ASSUME TypeOK, HolderIsInside, NEW c \in Conns, ThreadStep(c)
  PROVE  HolderIsInside'
<1> USE ServerAssumption DEF HolderIsInside, TypeOK
<1>1. CASE Refuse(c)
  BY <1>1 DEF Refuse, Respond, Goto
<1>2. CASE Admit(c)
  BY <1>2 DEF Admit, Goto
<1>3. CASE Greet(c)
  BY <1>3 DEF Greet, Respond, Goto
<1>4. CASE ReceivePacket(c)
  BY <1>4 DEF ReceivePacket, Dispatch, Goto
<1>5. CASE ReceiveEnd(c)
  BY <1>5 DEF ReceiveEnd, Dispatch, Goto
<1>6. CASE ReceiveError(c)
  BY <1>6 DEF ReceiveError, Goto
<1>7. CASE Reject(c)
  BY <1>7 DEF Reject, Respond, Goto
<1>8. CASE Release(c)
  BY <1>8 DEF Release, Goto
<1>9. CASE Lock(c)
  BY <1>9 DEF Lock, Goto
<1>10. CASE Execute(c)
  BY <1>10 DEF Execute, Unlock, Goto
<1>11. CASE RespondResult(c)
  BY <1>11 DEF RespondResult, Unlock, Respond, Goto
<1>12. CASE Spin(c)
  BY <1>12 DEF Spin, vars, threadVars
<1> QED
  BY <1>1, <1>2, <1>3, <1>4, <1>5, <1>6, <1>7, <1>8, <1>9, <1>10, <1>11, <1>12 DEF ThreadStep

-----------------------------------------------------------------------------
LEMMA NextKeepsIInv == IInv /\ [Next]_vars => IInv'
<1> SUFFICES ASSUME IInv, [Next]_vars PROVE IInv'
  OBVIOUS
<1>1. CASE UNCHANGED vars
  BY <1>1 DEF vars, threadVars, clientVars, IInv, TypeOK, AdmissionLimited, HolderIsInside, Serving
<1>2. ASSUME NEW c \in Conns, Accept(c) PROVE IInv'
  <2>1. TypeOK'
    BY <1>2 DEF Accept, Goto, IInv, TypeOK, ThreadStates, ClientStates
  <2>2. AdmissionLimited'
    BY <1>2, AcceptKeepsLimit DEF IInv
  <2>3. HolderIsInside'
    BY <1>2, ServerAssumption DEF Accept, Goto, IInv, TypeOK, HolderIsInside
  <2> QED
    BY <2>1, <2>2, <2>3 DEF IInv
<1>3. ASSUME NEW c \in Conns, ThreadStep(c) PROVE IInv'
  <2>1. TypeOK /\ AdmissionLimited /\ HolderIsInside
    BY DEF IInv
  <2>2. TypeOK'
    BY <1>3, <2>1, ThreadStepTypes DEF AdmissionLimited
  <2>3. AdmissionLimited' /\ HolderIsInside'
    BY <1>3, <2>1, ThreadStepKeepsLimit, ThreadStepKeepsHolder
  <2> QED
    BY <2>2, <2>3 DEF IInv
<1>4. ASSUME NEW c \in Conns, ClientStep(c) PROVE IInv'
  <2>1. TypeOK'
    BY <1>4, ClientStepTypes DEF IInv
  <2>2. UNCHANGED threadVars
    BY <1>4 DEF ClientStep, Send, Exit, Receive, SeeEnd, Vanish
  <2>3. AdmissionLimited' /\ HolderIsInside'
    BY <2>2 DEF threadVars, IInv, AdmissionLimited, HolderIsInside, Serving
  <2> QED
    BY <2>1, <2>3 DEF IInv
<1>5. CASE AllOver
  BY <1>1, <1>5 DEF AllOver
<1> QED
  BY <1>1, <1>2, <1>3, <1>4, <1>5 DEF Next

\* The invariant of threads and counter, for the theorems below.
THEOREM InvariantHolds == Spec => []IInv
BY InitIInv, NextKeepsIInv, PTL DEF Spec

\* The counter and the threads keep their types; the counter is never negative.
THEOREM TypeCorrect == Spec => []TypeOK
<1>1. IInv => TypeOK
  BY DEF IInv
<1> QED
  BY <1>1, InvariantHolds, PTL

\* Never more than MaxClients clients are served at a time, whatever they do and however
\* their connections break.
THEOREM LimitHolds == Spec => []AdmissionLimited
<1>1. IInv => AdmissionLimited
  BY DEF IInv
<1> QED
  BY <1>1, InvariantHolds, PTL

\* handle_request runs in one thread at a time, and the mutex is never left locked.
THEOREM MutexHolds == Spec => []HolderIsInside
<1>1. IInv => HolderIsInside
  BY DEF IInv
<1> QED
  BY <1>1, InvariantHolds, PTL

-----------------------------------------------------------------------------
(***************************************************************************)
(* Clients that keep to the protocol: they exit before they close, and     *)
(* send nothing that makes a command panic.  Then no write ever fails, and *)
(* no early return is taken.                                               *)
(***************************************************************************)
Orderly == ~CanVanish /\ "panic" \notin Packets

\* Whose turn it is on a connection: one side's, until the server is done with it.
TakesTurns(c) ==
  \/ thread[c] \in {"release", "ended"} /\ client[c] # "new"
  \/ /\ thread[c] # "receive" /\ peer[c] = "open"
     /\ uplink[c] = "nothing" /\ downlink[c] = "nothing"
     /\ client[c] = CASE thread[c] = "none" -> "new"
                      [] thread[c] \in {"admit", "greet"} -> "greeting"
                      [] OTHER -> "waiting"
  \/ /\ thread[c] = "receive" /\ peer[c] = "open"
     /\ \/ uplink[c] = "nothing" /\ client[c] \in {"greeting", "waiting"} /\ downlink[c] # "nothing"
        \/ uplink[c] = "nothing" /\ client[c] = "idle" /\ downlink[c] = "nothing"
        \/ uplink[c] \notin {"nothing", "exit"} /\ client[c] = "waiting" /\ downlink[c] = "nothing"
  \/ thread[c] = "receive" /\ client[c] = "gone" /\ uplink[c] = "exit"

\* What was executed, and what is on its way to be, was sent.
NotAhead(c) ==
  /\ executed[c] <= sent[c]
  /\ (uplink[c] \notin {"nothing", "exit"} \/ thread[c] \in {"lock", "execute"})
       => executed[c] < sent[c]

NoPanics(c) == request[c] # "panic" /\ uplink[c] # "panic"

OrderlyInv ==
  /\ IInv
  /\ CountExact
  /\ ~poisoned
  /\ \A c \in Conns : TakesTurns(c) /\ NotAhead(c) /\ NoPanics(c)

LEMMA OrderlyInit == Init => OrderlyInv
<1> SUFFICES ASSUME Init PROVE OrderlyInv
  OBVIOUS
<1>1. Serving = {}
  BY DEF Init, Serving
<1>2. CountExact
  BY <1>1, FS_EmptySet DEF Init, CountExact
<1>3. \A c \in Conns : TakesTurns(c)
  BY DEF Init, TakesTurns
<1>4. \A c \in Conns : NotAhead(c) /\ NoPanics(c)
  BY DEF Init, NotAhead, NoPanics
<1> QED
  BY <1>2, <1>3, <1>4, InitIInv DEF OrderlyInv, Init

\* The connection c after a step on it, and the others.
LEMMA OrderlyThreadStep ==
  ASSUME Orderly, OrderlyInv, NEW c \in Conns, ThreadStep(c) \/ Accept(c)
  PROVE  TakesTurns(c)' /\ NotAhead(c)' /\ NoPanics(c)' /\ ~poisoned'
<1> USE DEF Goto
<1>0. /\ TypeOK /\ TakesTurns(c) /\ NotAhead(c) /\ NoPanics(c) /\ ~poisoned
      /\ executed[c] \in Nat /\ sent[c] \in Nat
  BY ServerAssumption DEF OrderlyInv, IInv, TypeOK
<1>1. CASE Accept(c)
  BY <1>0, <1>1 DEF Accept, TypeOK, TakesTurns, NotAhead, NoPanics
<1>2. CASE Refuse(c)
  BY <1>0, <1>2 DEF Refuse, Respond, WriteFails, Write, TypeOK, TakesTurns, NotAhead, NoPanics
<1>3. CASE Admit(c)
  BY <1>0, <1>3 DEF Admit, clientVars, TypeOK, TakesTurns, NotAhead, NoPanics
<1>4. CASE Greet(c)
  BY <1>0, <1>4 DEF Greet, Respond, WriteFails, Write, TypeOK, TakesTurns, NotAhead, NoPanics
<1>5. CASE ReceivePacket(c)
  BY <1>0, <1>5 DEF ReceivePacket, Dispatch, TypeOK, TakesTurns, NotAhead, NoPanics, PacketKinds
<1>6. CASE ReceiveEnd(c) \/ ReceiveError(c)
  BY <1>0, <1>6 DEF ReceiveEnd, ReceiveError, TakesTurns
<1>7. CASE Reject(c)
  BY <1>0, <1>7 DEF Reject, Respond, WriteFails, Write, TypeOK, TakesTurns, NotAhead, NoPanics
<1>8. CASE Release(c)
  BY <1>0, <1>8 DEF Release, clientVars, TypeOK, TakesTurns, NotAhead, NoPanics
<1>9. CASE Lock(c)
  BY <1>0, <1>9 DEF Lock, clientVars, TypeOK, TakesTurns, NotAhead, NoPanics
<1>10. CASE Execute(c)
  BY <1>0, <1>10 DEF Execute, clientVars, TypeOK, TakesTurns, NotAhead, NoPanics
<1>11. CASE RespondResult(c)
  BY <1>0, <1>11 DEF RespondResult, Respond, WriteFails, Write, TypeOK, TakesTurns, NotAhead, NoPanics
<1>12. CASE Spin(c)
  BY <1>0, <1>12 DEF Spin, vars, threadVars, clientVars, TakesTurns, NotAhead, NoPanics
<1> QED
  BY <1>1, <1>2, <1>3, <1>4, <1>5, <1>6, <1>7, <1>8, <1>9, <1>10, <1>11, <1>12 DEF ThreadStep

LEMMA OrderlyClientStep ==
  ASSUME Orderly, OrderlyInv, NEW c \in Conns, ClientStep(c)
  PROVE  TakesTurns(c)' /\ NotAhead(c)' /\ NoPanics(c)'
<1>0. /\ TypeOK /\ TakesTurns(c) /\ NotAhead(c) /\ NoPanics(c)
      /\ executed[c] \in Nat /\ sent[c] \in Nat
  BY ServerAssumption DEF OrderlyInv, IInv, TypeOK
<1>1. CASE Send(c)
  BY <1>0, <1>1, ServerAssumption
     DEF Orderly, Send, PacketKinds, threadVars, TypeOK, TakesTurns, NotAhead, NoPanics
<1>2. CASE Exit(c)
  BY <1>0, <1>2 DEF Exit, Hangup, threadVars, TypeOK, TakesTurns, NotAhead, NoPanics
<1>3. CASE Receive(c)
  BY <1>0, <1>3 DEF Receive, threadVars, TypeOK, TakesTurns, NotAhead, NoPanics
<1>4. CASE SeeEnd(c)
  BY <1>0, <1>4 DEF SeeEnd, Hangup, threadVars, TypeOK, TakesTurns, NotAhead, NoPanics
<1>5. CASE Vanish(c)
  BY <1>5 DEF Vanish, Orderly
<1> QED
  BY <1>1, <1>2, <1>3, <1>4, <1>5 DEF ClientStep

LEMMA OthersUntouched ==
  ASSUME TypeOK, NEW c \in Conns, ThreadStep(c) \/ Accept(c) \/ ClientStep(c), NEW d \in Conns \ {c}
  PROVE  /\ thread'[d] = thread[d] /\ request'[d] = request[d] /\ client'[d] = client[d]
         /\ peer'[d] = peer[d] /\ uplink'[d] = uplink[d] /\ downlink'[d] = downlink[d]
         /\ sent'[d] = sent[d] /\ executed'[d] = executed[d]
<1> USE DEF Goto, threadVars, clientVars, TypeOK
<1>1. CASE Accept(c)
  BY <1>1 DEF Accept
<1>2. CASE ClientStep(c)
  BY <1>2 DEF ClientStep, Send, Exit, Receive, SeeEnd, Vanish, Hangup, Reset
<1>3. CASE Refuse(c) \/ Greet(c) \/ Reject(c) \/ RespondResult(c)
  BY <1>3 DEF Refuse, Greet, Reject, RespondResult, Respond, Write
<1>4. CASE Admit(c) \/ Release(c) \/ Lock(c) \/ Execute(c)
  BY <1>4 DEF Admit, Release, Lock, Execute
<1>5. CASE ReceivePacket(c) \/ ReceiveEnd(c) \/ ReceiveError(c) \/ Spin(c)
  BY <1>5 DEF ReceivePacket, ReceiveEnd, ReceiveError, Spin, vars
<1> QED
  BY <1>1, <1>2, <1>3, <1>4, <1>5 DEF ThreadStep

\* Only admission and release move a thread into or out of Serving, and both count it.
LEMMA OrderlyCount ==
  ASSUME Orderly, OrderlyInv, NEW c \in Conns, ThreadStep(c) \/ Accept(c) \/ ClientStep(c)
  PROVE  CountExact'
<1>0. /\ TypeOK /\ TakesTurns(c) /\ NoPanics(c) /\ ~poisoned /\ CountExact
      /\ \A d \in Conns \ {c} : thread'[d] = thread[d]
  BY OthersUntouched DEF OrderlyInv, IInv
<1>1. CASE Admit(c)
  <2>1. Serving' = Serving \cup {c} /\ c \notin Serving /\ count' = count + 1
    BY <1>0, <1>1 DEF Admit, Goto, Serving, TypeOK
  <2> QED
    BY <1>0, <2>1, ServingFinite, FS_AddElement DEF CountExact
<1>2. CASE Release(c)
  <2>1. Serving' = Serving \ {c} /\ c \in Serving /\ count' = count - 1
    BY <1>0, <1>2 DEF Release, Goto, Serving, TypeOK
  <2> QED
    BY <1>0, <2>1, ServingFinite, FS_RemoveElement DEF CountExact
<1>3. CASE ~(Admit(c) \/ Release(c))
  <2>1. count' = count
    BY <1>3 DEF ThreadStep, Accept, ClientStep, Send, Exit, Receive, SeeEnd, Vanish, Refuse, Greet,
                ReceivePacket, ReceiveEnd, ReceiveError, Reject, Lock, Execute, RespondResult,
                Spin, vars, threadVars
  <2>2. c \in Serving <=> c \in Serving'
    <3>1. CASE Accept(c) \/ ClientStep(c)
      BY <1>0, <3>1 DEF Accept, Goto, ClientStep, Send, Exit, Receive, SeeEnd, Vanish, threadVars,
                        Serving, TypeOK
    <3>2. CASE Refuse(c) \/ Greet(c) \/ Reject(c) \/ RespondResult(c)
      BY <1>0, <3>2 DEF Refuse, Greet, Reject, RespondResult, Respond, WriteFails, Goto, TakesTurns,
                        Serving, TypeOK
    <3>3. CASE ReceivePacket(c) \/ ReceiveEnd(c) \/ ReceiveError(c) \/ Lock(c) \/ Execute(c) \/ Spin(c)
      BY <1>0, <3>3 DEF ReceivePacket, Dispatch, ReceiveEnd, ReceiveError, Lock, Execute, Spin, vars,
                        threadVars, Goto, TakesTurns, NoPanics, Serving, TypeOK
    <3> QED
      BY <1>3, <3>1, <3>2, <3>3 DEF ThreadStep
  <2>3. Serving' = Serving
    BY <1>0, <2>2 DEF Serving
  <2> QED
    BY <1>0, <2>1, <2>3 DEF CountExact
<1> QED
  BY <1>1, <1>2, <1>3

LEMMA OrderlyNext == Orderly /\ OrderlyInv /\ [Next]_vars => OrderlyInv'
<1> SUFFICES ASSUME Orderly, OrderlyInv, [Next]_vars PROVE OrderlyInv'
  OBVIOUS
<1>1. IInv'
  BY NextKeepsIInv DEF OrderlyInv
<1>2. CASE UNCHANGED vars
  BY <1>1, <1>2 DEF vars, threadVars, clientVars, OrderlyInv, CountExact, Serving, TakesTurns,
                    NotAhead, NoPanics
<1>3. ASSUME NEW c \in Conns, ThreadStep(c) \/ Accept(c) \/ ClientStep(c) PROVE OrderlyInv'
  <2>1. CountExact'
    BY <1>3, OrderlyCount
  <2>2. TakesTurns(c)' /\ NotAhead(c)' /\ NoPanics(c)'
    BY <1>3, OrderlyThreadStep, OrderlyClientStep
  <2>3. ~poisoned'
    <3>1. ClientStep(c) => poisoned' = poisoned
      BY DEF ClientStep, Send, Exit, Receive, SeeEnd, Vanish, threadVars
    <3> QED
      BY <1>3, <3>1, OrderlyThreadStep DEF OrderlyInv
  <2>4. ASSUME NEW d \in Conns \ {c} PROVE TakesTurns(d)' /\ NotAhead(d)' /\ NoPanics(d)'
    <3>1. TakesTurns(d) /\ NotAhead(d) /\ NoPanics(d) /\ TypeOK
      BY DEF OrderlyInv, IInv
    <3> QED
      BY <1>3, <3>1, OthersUntouched DEF TakesTurns, NotAhead, NoPanics
  <2> QED
    BY <1>1, <2>1, <2>2, <2>3, <2>4 DEF OrderlyInv
<1>4. CASE AllOver
  BY <1>2, <1>4 DEF AllOver
<1> QED
  BY <1>2, <1>3, <1>4 DEF Next

\* With clients that keep to the protocol the counter is exact: no path through
\* handle_connection loses a slot or gives one back twice.
THEOREM CountIsExact == Orderly => (Spec => []CountExact)
<1> SUFFICES ASSUME Orderly PROVE Spec => []CountExact
  OBVIOUS
<1>1. OrderlyInv /\ [Next]_vars => OrderlyInv'
  BY OrderlyNext
<1>2. OrderlyInv => CountExact
  BY DEF OrderlyInv
<1> QED
  BY <1>1, <1>2, OrderlyInit, PTL DEF Spec

\* And no request of theirs is executed that was not sent: the stale buffer is never read.
THEOREM NoPhantoms == Orderly => (Spec => []NoPhantomRequest)
<1> SUFFICES ASSUME Orderly PROVE Spec => []NoPhantomRequest
  OBVIOUS
<1>1. OrderlyInv /\ [Next]_vars => OrderlyInv'
  BY OrderlyNext
<1>2. OrderlyInv => NoPhantomRequest
  BY DEF OrderlyInv, NotAhead, NoPhantomRequest
<1> QED
  BY <1>1, <1>2, OrderlyInit, PTL DEF Spec

\* A client that writes SERVER_BUSY down was refused, by a thread that found the counter full.
LEMMA BusyIsRefusal ==
  ASSUME TypeOK, NEW c \in Conns, ThreadStep(c) \/ Accept(c) \/ ClientStep(c),
         NEW d \in Conns, downlink'[d] = "busy", downlink[d] # "busy"
  PROVE  Full
<1>1. d = c
  BY OthersUntouched
<1>2. CASE ClientStep(c)
  BY <1>1, <1>2 DEF ClientStep, Send, Exit, Receive, SeeEnd, Vanish, Hangup, Reset, TypeOK
<1>3. CASE Accept(c)
  BY <1>1, <1>3 DEF Accept
<1>4. CASE Refuse(c)
  BY <1>4 DEF Refuse
<1>5. CASE Greet(c) \/ Reject(c) \/ RespondResult(c)
  BY <1>1, <1>5 DEF Greet, Reject, RespondResult, Respond, Write, TypeOK
<1>6. CASE ThreadStep(c) /\ ~(Refuse(c) \/ Greet(c) \/ Reject(c) \/ RespondResult(c))
  BY <1>1, <1>6 DEF ThreadStep, Admit, ReceivePacket, ReceiveEnd, ReceiveError, Release, Lock,
                    Execute, Spin, vars, clientVars
<1> QED
  BY <1>2, <1>3, <1>4, <1>5, <1>6

\* With clients that keep to the protocol nobody is refused while a slot is free.
THEOREM RefusedWhenFull == Orderly => (Spec => BusyOnlyWhenFull)
<1> SUFFICES ASSUME Orderly PROVE Spec => BusyOnlyWhenFull
  OBVIOUS
<1>1. OrderlyInv /\ [Next]_vars => OrderlyInv'
  BY OrderlyNext
<1>2. OrderlyInv /\ [Next]_vars
        => [\A c \in Conns : downlink'[c] = "busy" /\ downlink[c] # "busy"
              => Cardinality(Serving) >= MaxClients]_vars
  <2> SUFFICES ASSUME OrderlyInv, Next, NEW d \in Conns, downlink'[d] = "busy", downlink[d] # "busy"
               PROVE  Cardinality(Serving) >= MaxClients
    OBVIOUS
  <2>1. PICK c \in Conns : ThreadStep(c) \/ Accept(c) \/ ClientStep(c)
    BY DEF Next, AllOver, vars, clientVars
  <2>2. Full
    BY <2>1, BusyIsRefusal DEF OrderlyInv, IInv
  <2> QED
    BY <2>2, ServerAssumption DEF Full, OrderlyInv, CountExact
<1> QED
  BY <1>1, <1>2, OrderlyInit, PTL DEF Spec, BusyOnlyWhenFull

=============================================================================
