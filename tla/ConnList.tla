------------------------------ MODULE ConnList ------------------------------
(***************************************************************************)
(* The connections of the RPC server (RPCFramework/rpc.cc): objects linked *)
(* into a list by two pointers each, their descriptors, what epoll watches *)
(* and the batch of events it returned.  Connections are deleted while the *)
(* batch that names them, or the loop of ~Server, goes on.                 *)
(*                                                                         *)
(* What is read and written on a connection is left to Rpc.                *)
(***************************************************************************)
EXTENDS Naturals, FiniteSets, Sequences, SequencesExt

CONSTANTS
  Conns,      \* addresses a Connection may be allocated at
  Fds,        \* descriptors the process may have for them
  NULL,
  Listener,   \* the event of the listening socket
  MaxEvents   \* the events one epoll_wait returns, 128

ASSUME ConnListAssumption ==
  /\ IsFiniteSet(Conns)
  /\ NULL \notin Conns
  /\ Listener \notin Conns
  /\ Fds # {}
  /\ MaxEvents \in Nat \ {0}

VARIABLES
  list,         \* Server::mru and lru, and every Connection's next_mru and next_lru
  alive,        \* the objects that are not deleted
  fd,           \* Connection::fd
  open,         \* the descriptors that are open
  watched,      \* what epoll has: <<descriptor, data.ptr>>
  events,       \* the events that are left, the next one last
  should_stop,
  pc,           \* "wait", "events", "destroy" (~Server) or "gone"
  cursor        \* conn of ~Server

vars == <<list, alive, fd, open, watched, events, should_stop, pc, cursor>>

Pointer == Conns \cup {NULL}

-----------------------------------------------------------------------------
(***************************************************************************)
(* The list.                                                               *)
(***************************************************************************)
\* DeleteFromLRU.  (Slip: the neighbour on the less recent side keeps its pointer.)
DeleteFromLRUHalf(l, c) ==
  [l EXCEPT
     !.mru = IF l.next_lru[c] = NULL THEN l.next_mru[c] ELSE @,
     !.lru = IF l.next_mru[c] = NULL THEN l.next_lru[c] ELSE @,
     !.next_mru = [d \in Conns |-> IF d = l.next_lru[c] THEN l.next_mru[c] ELSE @[d]]]
DeleteFromLRU(l, c) ==
  [l EXCEPT
     !.mru = IF l.next_lru[c] = NULL THEN l.next_mru[c] ELSE @,
     !.lru = IF l.next_mru[c] = NULL THEN l.next_lru[c] ELSE @,
     !.next_mru = [d \in Conns |-> IF d = l.next_lru[c] THEN l.next_mru[c] ELSE @[d]],
     !.next_lru = [d \in Conns |-> IF d = l.next_mru[c] THEN l.next_lru[c] ELSE @[d]]]

\* A new Connection points at itself: it is in no list.
Constructed(l, c) == [l EXCEPT !.next_lru[c] = c, !.next_mru[c] = c]

\* MarkActive: out of the list, if it is in one, and to its front.
\* (Slip: it is not taken out.)
PushFront(l, c) ==
  [l EXCEPT
     !.mru = c,
     !.lru = IF l.mru = NULL THEN c ELSE @,
     !.next_mru[c] = l.mru,
     !.next_lru = [d \in Conns |-> IF d = c THEN NULL ELSE IF d = l.mru THEN c ELSE @[d]]]
MarkActiveTwice(l, c) == PushFront(l, c)
MarkActive(l, c) == PushFront(IF l.next_lru[c] # c THEN DeleteFromLRU(l, c) ELSE l, c)

-----------------------------------------------------------------------------
(***************************************************************************)
(* Closing.                                                                *)
(***************************************************************************)
\* epoll_ctl(EPOLL_CTL_DEL) succeeds on a descriptor that epoll has.
CanDelete(c) == \E w \in watched : w[1] = fd[c]

\* CloseConnection and ~Connection, on the list l: the object goes when epoll let go of its
\* descriptor.  (Slip: it stays in the list.)
CloseConnectionLinked(l, c) ==
  IF CanDelete(c)
  THEN /\ list' = l
       /\ alive' = alive \ {c}
       /\ open' = open \ {fd[c]}
       /\ watched' = {w \in watched : w[1] # fd[c]}
  ELSE list' = l /\ UNCHANGED <<alive, open, watched>>
CloseConnection(l, c) ==
  IF CanDelete(c)
  THEN /\ list' = DeleteFromLRU(l, c)
       /\ alive' = alive \ {c}
       /\ open' = open \ {fd[c]}
       /\ watched' = {w \in watched : w[1] # fd[c]}
  ELSE list' = l /\ UNCHANGED <<alive, open, watched>>

-----------------------------------------------------------------------------
(***************************************************************************)
(* MainLoop.                                                               *)
(***************************************************************************)
\* Any events at once, in any order, one for each descriptor.
Batches ==
  UNION {SetToAllKPermutations(S) : S \in
           {T \in SUBSET ({w[2] : w \in watched} \cup {Listener}) : Cardinality(T) <= MaxEvents}}

Wait ==
  /\ pc = "wait"
  /\ ~should_stop
  /\ events' \in Batches
  /\ pc' = "events"
  /\ UNCHANGED <<list, alive, fd, open, watched, should_stop, cursor>>

NextEvent(e) ==
  /\ pc = "events"
  /\ events # <<>>
  /\ e = events[Len(events)]
  /\ events' = SubSeq(events, 1, Len(events) - 1)

\* OnNewConnection, when accept, or making the socket non-blocking, fails.
AcceptNothing ==
  /\ NextEvent(Listener)
  /\ UNCHANGED <<list, alive, fd, open, watched, should_stop, pc, cursor>>

\* OnNewConnection: the object is made first, and stays when epoll refuses the descriptor.
\* (Slip: that accept failed goes unnoticed, and -1 is taken for a descriptor.)
OnNewConnectionUnchecked(c, f) ==
  /\ NextEvent(Listener)
  /\ c \notin alive
  /\ list' = MarkActive(Constructed(list, c), c)
  /\ alive' = alive \cup {c}
  /\ fd' = [fd EXCEPT ![c] = NULL]
  /\ UNCHANGED <<open, watched, should_stop, pc, cursor>>
\* (Slip: the descriptor that epoll refused is not closed.)
OnNewConnectionKept(c, f) ==
  /\ NextEvent(Listener)
  /\ c \notin alive
  /\ f \notin open
  /\ list' = MarkActive(Constructed(list, c), c)
  /\ alive' = alive \cup {c}
  /\ fd' = [fd EXCEPT ![c] = f]
  /\ open' = open \cup {f}
  /\ watched' = watched \cup {<<f, c>>} \/ UNCHANGED watched
  /\ UNCHANGED <<should_stop, pc, cursor>>
OnNewConnection(c, f) ==
  /\ NextEvent(Listener)
  /\ c \notin alive
  /\ f \notin open
  /\ list' = MarkActive(Constructed(list, c), c)
  /\ alive' = alive \cup {c}
  /\ fd' = [fd EXCEPT ![c] = f]
  /\ \/ open' = open \cup {f} /\ watched' = watched \cup {<<f, c>>}
     \/ UNCHANGED <<open, watched>>
  /\ UNCHANGED <<should_stop, pc, cursor>>

\* OnConnectionEvent on an error: the connection is closed at once.
OnError(c) ==
  /\ NextEvent(c)
  /\ CloseConnection(list, c)
  /\ UNCHANGED <<fd, should_stop, pc, cursor>>

\* OnConnectionEvent otherwise: the connection was active, and stays or is closed.
OnConnectionEvent(c) ==
  /\ NextEvent(c)
  /\ \/ list' = MarkActive(list, c) /\ UNCHANGED <<alive, open, watched>>
     \/ CloseConnection(MarkActive(list, c), c)
  /\ UNCHANGED <<fd, should_stop, pc, cursor>>

EndBatch ==
  /\ pc = "events"
  /\ events = <<>>
  /\ pc' = "wait"
  /\ UNCHANGED <<list, alive, fd, open, watched, events, should_stop, cursor>>

SignalStop ==
  /\ ~should_stop
  /\ pc \in {"wait", "events"}
  /\ should_stop' = TRUE
  /\ UNCHANGED <<list, alive, fd, open, watched, events, pc, cursor>>

-----------------------------------------------------------------------------
(***************************************************************************)
(* ~Server, once MainLoop has returned.                                    *)
(***************************************************************************)
BeginDestroy ==
  /\ pc = "wait"
  /\ should_stop
  /\ pc' = "destroy"
  /\ cursor' = list.mru
  /\ UNCHANGED <<list, alive, fd, open, watched, events, should_stop>>

\* conn_next is read before the connection is deleted.
\* (Slip: the loop takes whatever connection is first now.)
DestroyFirst ==
  /\ pc = "destroy"
  /\ cursor # NULL
  /\ CloseConnection(list, cursor)
  /\ cursor' = list'.mru
  /\ UNCHANGED <<fd, events, should_stop, pc>>
DestroyNext ==
  /\ pc = "destroy"
  /\ cursor # NULL
  /\ cursor' = list.next_mru[cursor]
  /\ CloseConnection(list, cursor)
  /\ UNCHANGED <<fd, events, should_stop, pc>>

EndDestroy ==
  /\ pc = "destroy"
  /\ cursor = NULL
  /\ pc' = "gone"
  /\ UNCHANGED <<list, alive, fd, open, watched, events, should_stop, cursor>>

Gone == pc = "gone" /\ UNCHANGED vars

-----------------------------------------------------------------------------
Init ==
  /\ list = [mru |-> NULL, lru |-> NULL,
             next_mru |-> [c \in Conns |-> c], next_lru |-> [c \in Conns |-> c]]
  /\ alive = {}
  /\ fd = [c \in Conns |-> CHOOSE f \in Fds : TRUE]
  /\ open = {} /\ watched = {} /\ events = <<>>
  /\ should_stop = FALSE
  /\ pc = "wait"
  /\ cursor = NULL

ServerStep ==
  \/ Wait \/ AcceptNothing \/ EndBatch \/ BeginDestroy \/ DestroyNext \/ EndDestroy
  \/ \E c \in Conns : OnError(c) \/ OnConnectionEvent(c) \/ (\E f \in Fds : OnNewConnection(c, f))

Next == ServerStep \/ SignalStop \/ Gone

\* The server's thread runs.  Nobody has to stop it.
Spec == Init /\ [][Next]_vars /\ WF_vars(ServerStep)

-----------------------------------------------------------------------------
(***************************************************************************)
(* Properties.                                                             *)
(***************************************************************************)
TypeOK ==
  /\ list \in [mru : Pointer, lru : Pointer, next_mru : [Conns -> Pointer],
               next_lru : [Conns -> Pointer]]
  /\ alive \subseteq Conns
  /\ fd \in [Conns -> Fds]
  /\ open \subseteq Fds
  /\ watched \subseteq Fds \X Conns
  /\ events \in Seq(Conns \cup {Listener})
  /\ should_stop \in BOOLEAN
  /\ pc \in {"wait", "events", "destroy", "gone"}
  /\ cursor \in Pointer

\* Nothing that is followed leads to a deleted connection: not the list, an event of the batch,
\* what epoll hands out, or the connection ~Server goes on with.
NoUseAfterFree ==
  /\ {list.mru, list.lru, cursor} \subseteq alive \cup {NULL}
  /\ \A c \in alive : {list.next_mru[c], list.next_lru[c]} \subseteq alive \cup {NULL}
  /\ \A i \in DOMAIN events : events[i] \in alive \cup {Listener}
  /\ \A w \in watched : w[2] \in alive

\* The first n connections, from first and along next.
Walk(first, next) ==
  LET path[n \in Nat] ==
        IF n = 0 \/ first = NULL THEN <<>>
        ELSE IF n = 1 THEN <<first>>
        ELSE LET before == path[n - 1]
                 last   == before[Len(before)]
             IN  IF next[last] = NULL THEN before ELSE Append(before, next[last])
  IN  path[Cardinality(alive)]

\* Both directions show the same list, and it has every connection, also one that epoll refused.
MirrorImage ==
  LET fromMru == Walk(list.mru, list.next_mru) IN
  /\ Walk(list.lru, list.next_lru) = Reverse(fromMru)
  /\ ToSet(fromMru) = alive
  /\ Len(fromMru) = Cardinality(alive)

\* A descriptor that is open is watched for the one connection that has it, whatever other
\* connections remember its number.
OneOwner ==
  /\ \A f \in open : \E c \in alive : <<f, c>> \in watched /\ fd[c] = f
  /\ \A v, w \in watched : v[1] = w[1] => v = w

\* ~Server leaves no descriptor open, although closing a connection that epoll refused fails
\* or takes the descriptor of another.
AllClosed == pc = "gone" => open = {}

\* The list is what Recency promises.
R == INSTANCE Recency WITH order <- Walk(list.mru, list.next_mru)
RecencyOrder == R!Spec

\* A server that is told to stop stops, with every connection closed that epoll has.
Stops == should_stop ~> pc = "gone"

=============================================================================
