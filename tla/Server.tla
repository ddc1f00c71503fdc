------------------------------- MODULE Server -------------------------------
(***************************************************************************)
(* The threads of the EasyDB server (Concurrent Database/server.rs), one   *)
(* for each connection, the counter that limits them, the mutex around the *)
(* database, and the clients at the other ends of the sockets.             *)
(*                                                                         *)
(* A critical section of mutex_count touches nothing another thread sees   *)
(* but the counter, so each is one step.  The database mutex is held from  *)
(* before handle_request until the response is written, so lock, execute   *)
(* and respond are three steps.  What the commands do is in EasyDB: here a *)
(* packet is only told apart by what it does to the thread that reads it.  *)
(***************************************************************************)
EXTENDS Integers, FiniteSets

CONSTANTS Conns,       \* the connections, each used once
          NoConn,      \* not a connection
          MaxClients,  \* the limit of handle_connection, 4 in the code
          Packets,     \* what clients send: a subset of PacketKinds
          CanVanish,   \* whether a client may go away without an EXIT
          MaxSends     \* bound: requests a client sends on a connection

\* "command": a request that EasyDB answers.  "panic": one that makes handle_request panic.
\* "malformed": one that receive cannot decode.  "endless": one with a text value without a
\* character, on which from_raw loops for ever.  "exit": EXIT.
PacketKinds == {"command", "panic", "malformed", "endless", "exit"}

ASSUME ServerAssumption ==
  /\ IsFiniteSet(Conns)
  /\ NoConn \notin Conns
  /\ MaxClients \in Nat \ {0}
  /\ Packets \subseteq PacketKinds
  /\ CanVanish \in BOOLEAN
  /\ MaxSends \in Nat

VARIABLES
  thread,      \* where the thread of the connection is in handle_connection
  request,     \* the request it decoded last
  count,       \* *mutex_count
  db_holder,   \* the connection whose thread holds the database mutex
  poisoned,    \* the mutex was poisoned by a panic under it
  client,      \* where the client of the connection is
  peer,        \* the client's end of the socket: open, closed, or resetting
  uplink,      \* bytes sent to the server and not yet read
  downlink,    \* bytes sent to the client and not yet read
  sent,        \* history: requests the client sent
  executed     \* history: requests of the connection that were executed

threadVars == <<thread, request, count, db_holder, poisoned>>
clientVars == <<client, peer, uplink, downlink>>
vars == <<threadVars, clientVars, sent, executed>>

ThreadStates == {"none", "admit", "greet", "receive", "reject", "release", "lock",
                 "execute", "respond", "spin", "ended"}

ClientStates == {"new", "greeting", "idle", "waiting", "gone"}

\* The threads past the admission check that have not left handle_connection.
Serving == {c \in Conns : thread[c] \notin {"none", "admit", "ended"}}

Goto(c, state) == thread' = [thread EXCEPT ![c] = state]

-----------------------------------------------------------------------------
(***************************************************************************)
(* Sockets.                                                                *)
(***************************************************************************)
\* stream.respond: the first write to a closed peer succeeds and draws a reset, the next fails.
WriteFails(c) == peer[c] = "reset"

Write(c, bytes) ==
  IF peer[c] = "open"
  THEN downlink' = [downlink EXCEPT ![c] = bytes] /\ UNCHANGED peer
  ELSE peer' = [peer EXCEPT ![c] = "reset"] /\ UNCHANGED downlink

\* respond(..)?: on failure handle_connection returns at once, whatever it had still to do.
Respond(c, bytes, next) ==
  IF WriteFails(c)
  THEN Goto(c, "ended") /\ UNCHANGED <<peer, downlink>>
  ELSE Goto(c, next) /\ Write(c, bytes)

-----------------------------------------------------------------------------
(***************************************************************************)
(* handle_connection.                                                      *)
(***************************************************************************)
\* listener.incoming: the connection gets a thread.
Accept(c) ==
  /\ client[c] = "new"
  /\ thread[c] = "none"
  /\ client' = [client EXCEPT ![c] = "greeting"]
  /\ Goto(c, "admit")
  /\ UNCHANGED <<request, count, db_holder, poisoned, peer, uplink, downlink, sent, executed>>

\* (Slips: off by one, either way.)
FullTooLate == count > MaxClients
FullTooEarly == count = MaxClients - 1
Full == count = MaxClients

\* Under mutex_count: refuse at the limit, else count the client.
Refuse(c) ==
  /\ thread[c] = "admit"
  /\ Full
  /\ Respond(c, "busy", "ended")
  /\ UNCHANGED <<request, count, db_holder, poisoned, client, uplink, sent, executed>>

Admit(c) ==
  /\ thread[c] = "admit"
  /\ ~Full
  /\ count' = count + 1
  /\ Goto(c, "greet")
  /\ UNCHANGED <<request, db_holder, poisoned, clientVars, sent, executed>>

Greet(c) ==
  /\ thread[c] = "greet"
  /\ Respond(c, "connected", "receive")
  /\ UNCHANGED <<request, count, db_holder, poisoned, client, uplink, sent, executed>>

\* What the thread does with a packet, given what is in it.
\* (Slip: EXIT ends the thread without giving its slot back.)
DispatchExitAtOnce(packet) ==
  CASE packet = "malformed" -> "reject"
    [] packet = "endless"   -> "spin"
    [] packet = "exit"      -> "ended"
    [] OTHER                -> "lock"
Dispatch(packet) ==
  CASE packet = "malformed" -> "reject"
    [] packet = "endless"   -> "spin"
    [] packet = "exit"      -> "release"
    [] OTHER                -> "lock"

\* (Slip: the packet is read twice.)
ReceivePacketTwice(c) ==
  /\ thread[c] = "receive"
  /\ uplink[c] # "nothing"
  /\ request' = [request EXCEPT ![c] = uplink[c]]
  /\ Goto(c, Dispatch(uplink[c]))
  /\ uplink' = [uplink EXCEPT ![c] = IF request[c] = "nothing" THEN @ ELSE "nothing"]
  /\ UNCHANGED <<count, db_holder, poisoned, client, peer, downlink, sent, executed>>

ReceivePacket(c) ==
  /\ thread[c] = "receive"
  /\ uplink[c] # "nothing"
  /\ request' = [request EXCEPT ![c] = uplink[c]]
  /\ Goto(c, Dispatch(uplink[c]))
  /\ uplink' = [uplink EXCEPT ![c] = "nothing"]
  /\ UNCHANGED <<count, db_holder, poisoned, client, peer, downlink, sent, executed>>

\* At the end of the stream read returns no bytes and no error, and receive decodes whatever
\* the uninitialized buffer holds: the thread's last request, one of another connection whose
\* thread had the same stack, or nothing valid.
EndOfStreamDecodes == PacketKinds

ReceiveEnd(c) ==
  /\ thread[c] = "receive"
  /\ uplink[c] = "nothing"
  /\ peer[c] = "closed"
  /\ \E packet \in EndOfStreamDecodes :
       /\ request' = [request EXCEPT ![c] = packet]
       /\ Goto(c, Dispatch(packet))
  /\ UNCHANGED <<count, db_holder, poisoned, clientVars, sent, executed>>

\* After a reset read fails.
ReceiveError(c) ==
  /\ thread[c] = "receive"
  /\ uplink[c] = "nothing"
  /\ peer[c] = "reset"
  /\ Goto(c, "reject")
  /\ UNCHANGED <<request, count, db_holder, poisoned, clientVars, sent, executed>>

Reject(c) ==
  /\ thread[c] = "reject"
  /\ Respond(c, "bad_request", "release")
  /\ UNCHANGED <<request, count, db_holder, poisoned, client, uplink, sent, executed>>

\* Under mutex_count, after a BAD_REQUEST or an EXIT.
\* (Slip: the loop goes on after the slot was given back.)
ReleaseAndGoOn(c) ==
  /\ thread[c] = "release"
  /\ count' = count - 1
  /\ Goto(c, "receive")
  /\ UNCHANGED <<request, db_holder, poisoned, clientVars, sent, executed>>

Release(c) ==
  /\ thread[c] = "release"
  /\ count' = count - 1
  /\ Goto(c, "ended")
  /\ UNCHANGED <<request, db_holder, poisoned, clientVars, sent, executed>>

\* A panic under the mutex unwinds the thread and drops the guard.  (Slip: it stays locked.)
StayLocked(c) == db_holder' = c
Unlock(c) == db_holder' = NoConn

\* db.lock().unwrap(): a poisoned mutex panics the thread.
Lock(c) ==
  /\ thread[c] = "lock"
  /\ db_holder = NoConn
  /\ IF poisoned
     THEN Goto(c, "ended") /\ UNCHANGED db_holder
     ELSE Goto(c, "execute") /\ db_holder' = c
  /\ UNCHANGED <<request, count, poisoned, clientVars, sent, executed>>

\* handle_request; its panic poisons the mutex.
Execute(c) ==
  /\ thread[c] = "execute"
  /\ \/ /\ request[c] = "panic"
        /\ Goto(c, "ended")
        /\ poisoned' = TRUE
        /\ Unlock(c)
        /\ UNCHANGED executed
     \/ /\ request[c] # "panic"
        /\ Goto(c, "respond")
        /\ executed' = [executed EXCEPT ![c] = @ + 1]
        /\ UNCHANGED <<poisoned, db_holder>>
  /\ UNCHANGED <<request, count, clientVars, sent>>

\* The guard is dropped at the end of the loop's body, or by the early return.
\* (Slip: the early return skips the unlocking.)
RespondAndKeep(c) ==
  /\ thread[c] = "respond"
  /\ Respond(c, "result", "receive")
  /\ db_holder' = IF WriteFails(c) THEN c ELSE NoConn
  /\ UNCHANGED <<request, count, poisoned, client, uplink, sent, executed>>

RespondResult(c) ==
  /\ thread[c] = "respond"
  /\ Respond(c, "result", "receive")
  /\ db_holder' = NoConn
  /\ UNCHANGED <<request, count, poisoned, client, uplink, sent, executed>>

\* from_raw pops from an empty string for ever.
Spin(c) == thread[c] = "spin" /\ UNCHANGED vars

ThreadStep(c) ==
  \/ Refuse(c) \/ Admit(c) \/ Greet(c)
  \/ ReceivePacket(c) \/ ReceiveEnd(c) \/ ReceiveError(c)
  \/ Reject(c) \/ Release(c)
  \/ Lock(c) \/ Execute(c) \/ RespondResult(c)
  \/ Spin(c)

-----------------------------------------------------------------------------
(***************************************************************************)
(* Clients.  They send one request at a time, as the driver does, and any  *)
(* of them may be something else than the driver: see Packets, CanVanish.  *)
(***************************************************************************)
\* The socket is closed; bytes the client has not read turn the close into a reset.
Hangup(c) ==
  /\ client' = [client EXCEPT ![c] = "gone"]
  /\ peer' = [peer EXCEPT ![c] = IF downlink[c] = "nothing" THEN "closed" ELSE "reset"]

Reset(c) ==
  /\ client' = [client EXCEPT ![c] = "gone"]
  /\ peer' = [peer EXCEPT ![c] = "reset"]

Send(c) ==
  /\ client[c] = "idle"
  /\ sent[c] < MaxSends
  /\ \E packet \in Packets \ {"exit"} : uplink' = [uplink EXCEPT ![c] = packet]
  /\ client' = [client EXCEPT ![c] = "waiting"]
  /\ sent' = [sent EXCEPT ![c] = @ + 1]
  /\ UNCHANGED <<threadVars, peer, downlink, executed>>

\* Database.close: EXIT, and the socket is closed without waiting for an answer.
Exit(c) ==
  /\ client[c] = "idle"
  /\ "exit" \in Packets
  /\ uplink' = [uplink EXCEPT ![c] = "exit"]
  /\ Hangup(c)
  /\ UNCHANGED <<threadVars, downlink, sent, executed>>

\* connect takes any answer for success, SERVER_BUSY too, and a request that was refused leaves
\* the socket open: the client goes on until it finds its socket closed.
Receive(c) ==
  /\ client[c] \in {"greeting", "waiting"}
  /\ downlink[c] # "nothing"
  /\ downlink' = [downlink EXCEPT ![c] = "nothing"]
  /\ client' = [client EXCEPT ![c] = "idle"]
  /\ UNCHANGED <<threadVars, peer, uplink, sent, executed>>

\* The thread is gone and its end of the socket with it.
SeeEnd(c) ==
  /\ client[c] \in {"greeting", "idle", "waiting"}
  /\ thread[c] = "ended"
  /\ downlink[c] = "nothing"
  /\ Hangup(c)
  /\ UNCHANGED <<threadVars, uplink, downlink, sent, executed>>

\* The client's process ends, or its host or the network resets the connection.
Vanish(c) ==
  /\ CanVanish
  /\ client[c] \in {"greeting", "idle", "waiting"}
  /\ Hangup(c) \/ Reset(c)
  /\ UNCHANGED <<threadVars, uplink, downlink, sent, executed>>

ClientStep(c) == Send(c) \/ Exit(c) \/ Receive(c) \/ SeeEnd(c) \/ Vanish(c)

\* Every client is gone and every thread with it: the server waits in accept for ever.
AllOver ==
  /\ \A c \in Conns : client[c] = "gone" /\ thread[c] = "ended"
  /\ UNCHANGED vars

-----------------------------------------------------------------------------
Init ==
  /\ thread = [c \in Conns |-> "none"]
  /\ request = [c \in Conns |-> "nothing"]
  /\ count = 0
  /\ db_holder = NoConn
  /\ poisoned = FALSE
  /\ client = [c \in Conns |-> "new"]
  /\ peer = [c \in Conns |-> "open"]
  /\ uplink = [c \in Conns |-> "nothing"]
  /\ downlink = [c \in Conns |-> "nothing"]
  /\ sent = [c \in Conns |-> 0]
  /\ executed = [c \in Conns |-> 0]

Next == (\E c \in Conns : Accept(c) \/ ThreadStep(c) \/ ClientStep(c)) \/ AllOver

Spec == Init /\ [][Next]_vars

\* The operating system runs every thread that can run, and the clients read what they are
\* sent and notice a closed socket.  Nobody has to send, to exit or to vanish.
Fairness ==
  \A c \in Conns : WF_vars(ThreadStep(c)) /\ WF_vars(Receive(c)) /\ WF_vars(SeeEnd(c))

FairSpec == Spec /\ Fairness

-----------------------------------------------------------------------------
TypeOK ==
  /\ thread \in [Conns -> ThreadStates]
  /\ request \in [Conns -> PacketKinds \cup {"nothing"}]
  /\ count \in 0..MaxClients
  /\ db_holder \in Conns \cup {NoConn}
  /\ poisoned \in BOOLEAN
  /\ client \in [Conns -> ClientStates]
  /\ peer \in [Conns -> {"open", "closed", "reset"}]
  /\ uplink \in [Conns -> PacketKinds \cup {"nothing"}]
  /\ downlink \in [Conns -> {"nothing", "connected", "busy", "result", "bad_request"}]
  /\ sent \in [Conns -> 0..MaxSends]
  /\ executed \in [Conns -> Nat]

\* However clients misbehave, never more than MaxClients threads serve a client, and the
\* counter is never below the number that do.
AdmissionLimited == Cardinality(Serving) <= count /\ count <= MaxClients

\* While clients keep to the protocol the counter is exact: no slot is lost on any path.
CountExact == count = Cardinality(Serving)

\* The mutex is held by the thread between lock and the end of its loop body, and by no
\* other: no exit from that section, by panic or by a failed write, leaves it locked.
HolderIsInside ==
  \A c \in Conns : db_holder = c <=> thread[c] \in {"execute", "respond"}

\* A client is told SERVER_BUSY only while MaxClients others are being served.
BusyOnlyWhenFull ==
  [][\A c \in Conns : downlink'[c] = "busy" /\ downlink[c] # "busy"
       => Cardinality(Serving) >= MaxClients]_vars

\* No request is executed that no client has sent.
NoPhantomRequest == \A c \in Conns : executed[c] <= sent[c]

\* A client that sent a request gets an answer, or the connection is closed, unless its own
\* request spins: no thread that panics, vanishes or spins holds up another's client.
Answered ==
  \A c \in Conns : client[c] = "waiting" ~> (client[c] # "waiting" \/ thread[c] = "spin")

\* Once every client is gone no slot stays taken.
SlotsReturned == (\A c \in Conns : client[c] = "gone") ~> count = 0

=============================================================================
