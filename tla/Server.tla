-------------------------------- MODULE Server --------------------------------
(***************************************************************************)
(* The threads of the coordinator: the accept thread, which also enforces  *)
(* the leases, one thread per session, and the thread that calls stop().   *)
(*                                                                         *)
(* They share session_connections, session_threads and the count of open   *)
(* connections.  A connection is found in the list by its socket handle,   *)
(* a number the operating system gives to a new connection as soon as the  *)
(* old one is closed; the handles are therefore part of the model.         *)
(*                                                                         *)
(* What a session says to its agent is the subject of module Session, and  *)
(* the two halves of expire_publishers are told apart in Authority.  Every *)
(* wait on a socket is bounded by a time-out, which is what the fairness   *)
(* conditions at the end stand for.                                        *)
(***************************************************************************)
EXTENDS Integers, FiniteSets

CONSTANTS
    Connections,    \* connections that agents may open
    Handles,        \* socket handles
    Publishers,     \* registered publishers that may die
    None,           \* kInvalidHandle, and no connection
    MaxConnections, \* options.max_connections
    MaxAttempts     \* bound on the connections opened

ASSUME HandleAssumption == None \notin Handles \cup Connections
ASSUME CountAssumption == MaxConnections \in Nat /\ MaxAttempts \in Nat

VARIABLES
    stage,      \* stage[c]: where connection c and its session thread are
    handle,     \* handle[c]: what connection->handle() returns
    own,        \* own[c]: the handle the session thread read when it began
    listed,     \* session_connections
    threads,    \* session_threads, by connection
    open,       \* open_connections
    acceptor,   \* where the accept thread is
    stopping,   \* the stop flag; stop() closes the listener with it
    stopper,    \* where the calls of stop() are
    joining,    \* session threads the current stop() has taken to join
    publishing, \* publishing[b]: "live", "dead" (lease run out) or "fenced"
    attempts    \* connections opened so far

threadVars == <<stage, handle, own, listed, threads, open>>
stopVars == <<stopping, stopper, joining>>
serverVars == <<threadVars, acceptor, stopVars, publishing, attempts>>

Stages == {"none", "backlog", "held", "spawned", "hello", "serving", "leaving", "ended"}

\* Stages in which connection c has a session thread that has not returned.
Running == {"spawned", "hello", "serving", "leaving"}

ServerInit ==
    /\ stage = [c \in Connections |-> "none"]
    /\ handle = [c \in Connections |-> None]
    /\ own = [c \in Connections |-> None]
    /\ listed = {} /\ threads = {} /\ open = 0
    /\ acceptor = "checking"
    /\ stopping = FALSE /\ stopper = "running" /\ joining = {}
    /\ publishing = [b \in Publishers |-> "live"]
    /\ attempts = 0

-----------------------------------------------------------------------------
(* Agents *)

\* An agent connects; the listener queues it.
Connect(c) ==
    /\ stage[c] = "none" /\ ~stopping
    /\ attempts < MaxAttempts
    /\ stage' = [stage EXCEPT ![c] = "backlog"]
    /\ attempts' = attempts + 1
    /\ UNCHANGED <<handle, own, listed, threads, open, acceptor, stopVars, publishing>>

\* A publisher's process dies and its lease runs out.
Dies(b) ==
    /\ publishing[b] = "live"
    /\ publishing' = [publishing EXCEPT ![b] = "dead"]
    /\ UNCHANGED <<threadVars, acceptor, stopVars, attempts>>

-----------------------------------------------------------------------------
(* accept_loop *)

\* The condition of the loop.
CheckStop ==
    /\ acceptor = "checking"
    /\ acceptor' = IF stopping THEN "done" ELSE "waiting"
    /\ UNCHANGED <<threadVars, stopVars, publishing, attempts>>

\* listener.accept returns a connection, with a handle that is free just now.
Accept(c) ==
    /\ acceptor = "waiting" /\ ~stopping
    /\ stage[c] = "backlog"
    /\ \E h \in Handles :
         /\ \A d \in Connections : handle[d] # h
         /\ handle' = [handle EXCEPT ![c] = h]
    /\ stage' = [stage EXCEPT ![c] = "held"]
    /\ acceptor' = "holding"
    /\ UNCHANGED <<own, listed, threads, open, stopVars, publishing, attempts>>

\* Mutated form of AcceptTimesOut: leases are enforced only on an idle server.
AcceptTimesOutWhenIdle ==
    /\ acceptor = "waiting"
    /\ stopping \/ \A c \in Connections : stage[c] # "backlog"
    /\ publishing' = [b \in Publishers |->
            IF publishing[b] = "dead" /\ open = 0 THEN "fenced" ELSE publishing[b]]
    /\ acceptor' = "checking"
    /\ UNCHANGED <<threadVars, stopVars, attempts>>

\* listener.accept returns nothing: nobody connected for accept_wait, or the
\* listener is closed.  Only then are the leases enforced.
AcceptTimesOut ==
    /\ acceptor = "waiting"
    /\ stopping \/ \A c \in Connections : stage[c] # "backlog"
    /\ publishing' = [b \in Publishers |->
            IF publishing[b] = "dead" THEN "fenced" ELSE publishing[b]]
    /\ acceptor' = "checking"
    /\ UNCHANGED <<threadVars, stopVars, attempts>>

\* Too many open connections: the new one is closed.
Refuse(c) ==
    /\ acceptor = "holding" /\ stage[c] = "held"
    /\ open >= MaxConnections
    /\ stage' = [stage EXCEPT ![c] = "none"]
    /\ handle' = [handle EXCEPT ![c] = None]
    /\ acceptor' = "checking"
    /\ UNCHANGED <<own, listed, threads, open, stopVars, publishing, attempts>>

\* The connection is counted, listed and given a thread.  Nobody asks whether
\* stop() has been called since the connection was accepted.
Admit(c) ==
    /\ acceptor = "holding" /\ stage[c] = "held"
    /\ open < MaxConnections
    /\ open' = open + 1
    /\ listed' = listed \cup {c}
    /\ threads' = threads \cup {c}
    /\ stage' = [stage EXCEPT ![c] = "spawned"]
    /\ acceptor' = "checking"
    /\ UNCHANGED <<handle, own, stopVars, publishing, attempts>>

-----------------------------------------------------------------------------
(* serve *)

\* The thread begins and reads its connection's handle.
ServeBegins(c) ==
    /\ stage[c] = "spawned"
    /\ stage' = [stage EXCEPT ![c] = "hello"]
    /\ own' = [own EXCEPT ![c] = handle[c]]
    /\ UNCHANGED <<handle, listed, threads, open, acceptor, stopVars, publishing, attempts>>

\* The first message is HELLO.
Introduced(c) ==
    /\ stage[c] = "hello" /\ handle[c] # None
    /\ stage' = [stage EXCEPT ![c] = "serving"]
    /\ UNCHANGED <<handle, own, listed, threads, open, acceptor, stopVars, publishing, attempts>>

\* It is not, or none came in time: the thread leaves without closing.
NotIntroduced(c) ==
    /\ stage[c] = "hello"
    /\ stage' = [stage EXCEPT ![c] = "leaving"]
    /\ UNCHANGED <<handle, own, listed, threads, open, acceptor, stopVars, publishing, attempts>>

\* The session loop ends and the thread closes its connection.
CloseOwn(c) ==
    /\ stage[c] = "serving"
    /\ stage' = [stage EXCEPT ![c] = "leaving"]
    /\ handle' = [handle EXCEPT ![c] = None]
    /\ UNCHANGED <<own, listed, threads, open, acceptor, stopVars, publishing, attempts>>

\* ... because the agent closed its end or sent a malformed frame,
PeerGone(c) == CloseOwn(c)

\* Mutated form of SessionStops: the loop does not look at the stop flag.
SessionStopsIfClosed(c) == handle[c] = None /\ CloseOwn(c)

\* ... or because stop() was called or closed the connection.
SessionStops(c) == (stopping \/ handle[c] = None) /\ CloseOwn(c)

\* Mutated form of EndSession: only a session that was listed is counted out.
EndSessionIfListed(c) ==
    /\ stage[c] = "leaving"
    /\ stage' = [stage EXCEPT ![c] = "ended"]
    /\ \/ \E x \in listed : handle[x] = own[c] /\ listed' = listed \ {x} /\ open' = open - 1
       \/ (\A x \in listed : handle[x] # own[c]) /\ UNCHANGED <<listed, open>>
    /\ handle' = IF c \in listed' THEN handle ELSE [handle EXCEPT ![c] = None]
    /\ UNCHANGED <<own, threads, acceptor, stopVars, publishing, attempts>>

\* end_session: an entry of the list whose handle is the one this session began
\* with is erased, and the session is counted out.  The thread returns; a
\* connection nobody refers to any more is closed with it.
EndSession(c) ==
    /\ stage[c] = "leaving"
    /\ stage' = [stage EXCEPT ![c] = "ended"]
    /\ \/ \E x \in listed : handle[x] = own[c] /\ listed' = listed \ {x}
       \/ (\A x \in listed : handle[x] # own[c]) /\ UNCHANGED listed
    /\ open' = IF open > 0 THEN open - 1 ELSE open
    /\ handle' = IF c \in listed' THEN handle ELSE [handle EXCEPT ![c] = None]
    /\ UNCHANGED <<own, threads, acceptor, stopVars, publishing, attempts>>

-----------------------------------------------------------------------------
(* stop *)

\* stop() is called first by its user, then again by the destructor.
StopFlag ==
    /\ stopper \in {"running", "stopped"}
    /\ stopper' = IF stopper = "running" THEN "flagged" ELSE "flagged again"
    /\ stopping' = TRUE
    /\ UNCHANGED <<threadVars, acceptor, joining, publishing, attempts>>

\* Take the lists, and close every connection taken.
StopTakes ==
    /\ stopper \in {"flagged", "flagged again"}
    /\ stopper' = IF stopper = "flagged" THEN "closed" ELSE "closed again"
    /\ handle' = [c \in Connections |-> IF c \in listed THEN None ELSE handle[c]]
    /\ joining' = threads
    /\ listed' = {} /\ threads' = {}
    /\ UNCHANGED <<stage, own, open, acceptor, stopping, publishing, attempts>>

\* Mutated form of StopReturns: the accept thread is not joined.
StopReturnsEarly ==
    /\ stopper \in {"closed", "closed again"}
    /\ \A c \in joining : stage[c] = "ended"
    /\ stopper' = IF stopper = "closed" THEN "stopped" ELSE "destroyed"
    /\ joining' = {}
    /\ UNCHANGED <<threadVars, acceptor, stopping, publishing, attempts>>

\* Join the accept thread, then every session thread taken.
StopReturns ==
    /\ stopper \in {"closed", "closed again"}
    /\ acceptor = "done"
    /\ \A c \in joining : stage[c] = "ended"
    /\ stopper' = IF stopper = "closed" THEN "stopped" ELSE "destroyed"
    /\ joining' = {}
    /\ UNCHANGED <<threadVars, acceptor, stopping, publishing, attempts>>

-----------------------------------------------------------------------------
AcceptThread ==
    \/ CheckStop \/ AcceptTimesOut
    \/ \E c \in Connections : Accept(c) \/ Refuse(c) \/ Admit(c)

\* The steps of a session thread that are due within a bounded time.
SessionThread(c) ==
    ServeBegins(c) \/ Introduced(c) \/ NotIntroduced(c) \/ SessionStops(c) \/ EndSession(c)

StopThread == StopTakes \/ StopReturns

ServerNext ==
    \/ \E c \in Connections : Connect(c) \/ PeerGone(c) \/ SessionThread(c)
    \/ \E b \in Publishers : Dies(b)
    \/ AcceptThread
    \/ StopFlag \/ StopThread

\* Each thread keeps running and each of its waits is bounded: accept_wait for
\* the accept thread, connect_timeout and session_wait for a session.  Agents
\* need do nothing, and nobody need call stop().
ServerFairness ==
    /\ WF_serverVars(AcceptThread)
    /\ \A c \in Connections : WF_serverVars(SessionThread(c))
    /\ WF_serverVars(StopThread)

ServerSpec == ServerInit /\ [][ServerNext]_serverVars /\ ServerFairness

-----------------------------------------------------------------------------
(* Properties *)

\* The shape of the server's state; a connection is held by the accept thread
\* exactly while that thread is between accept and the lists.
ServerTypeOK ==
    /\ stage \in [Connections -> Stages]
    /\ handle \in [Connections -> Handles \cup {None}]
    /\ own \in [Connections -> Handles \cup {None}]
    /\ listed \subseteq Connections /\ threads \subseteq Connections
    /\ joining \subseteq Connections
    /\ open \in 0..MaxConnections
    /\ acceptor \in {"checking", "waiting", "holding", "done"}
    /\ acceptor = "holding" <=> \E c \in Connections : stage[c] = "held"
    /\ publishing \in [Publishers -> {"live", "dead", "fenced"}]

\* The count that the connection limit is checked against is exact, through
\* sessions that never introduce themselves, reused handles and stop().
OpenCountsSessions == open = Cardinality({c \in Connections : stage[c] \in Running})

\* The connection counter stands for the open sessions, and stays within its limit.
ServerInv ==
    /\ ServerTypeOK
    /\ OpenCountsSessions

\* When the server object is gone, so are its threads: none runs on, and none is
\* left unjoined in session_threads, whose destruction would end the process.
DestroyedLeavesNoThread ==
    stopper = "destroyed" =>
       /\ threads = {} /\ listed = {}
       /\ \A c \in Connections : stage[c] \notin Running \cup {"held"}

\* stop() and the destructor return, whatever the sessions are doing and even
\* when a connection was dropped from the list under a reused handle.
StopTerminates ==
    /\ stopper = "flagged" ~> stopper = "stopped"
    /\ stopper = "flagged again" ~> stopper = "destroyed"

\* A publisher that died is fenced, once agents stop connecting all the time.
DeadPublisherIsFenced ==
    \A b \in Publishers : publishing[b] = "dead" ~> publishing[b] = "fenced" \/ stopping
===============================================================================
