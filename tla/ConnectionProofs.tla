-------------------------- MODULE ConnectionProofs --------------------------
(***************************************************************************)
(* Theorems about the two sides of a connection: the threads of the        *)
(* coordinator's server, and the agent's session with it.                  *)
(***************************************************************************)
EXTENDS Server, Session, FiniteSetTheorems, SequenceTheorems, TLAPS

(***************************************************************************)
(* Theorems about Server, for any number of connections, handles and       *)
(* publishers.                                                             *)
(*                                                                         *)
(* The count is exact because every session thread is counted in once and  *)
(* out once; the inductive invariant adds that the accept thread holds at  *)
(* most one connection and that the running sessions are finitely many.    *)
(* That no thread outlives the server needs the whole shutdown: a running  *)
(* session is in session_threads or with the stop() that took it, stop()   *)
(* lets go of threads only after joining them, and once the accept thread  *)
(* has been joined nothing is added to the lists any more.                 *)
(***************************************************************************)

\* The connections whose session thread has not returned.
RunningSessions == {c \in Connections : stage[c] \in Running}

\* The accept thread holds one connection at a time.
OneHeld == \A c, d \in Connections : stage[c] = "held" /\ stage[d] = "held" => c = d

\* Every running session thread can be joined by somebody.
SessionsAreJoinable == RunningSessions \subseteq threads \cup joining

\* What the calls of stop() have achieved at each point.
StopProgress ==
    /\ stopper \in {"running", "flagged", "closed", "stopped", "flagged again", "closed again",
                    "destroyed"}
    /\ stopper \notin {"closed", "closed again"} => joining = {}
    /\ stopper \in {"stopped", "flagged again", "closed again", "destroyed"} => acceptor = "done"
    /\ stopper \in {"closed again", "destroyed"} => threads = {} /\ listed = {}

\* The inductive invariant.
ServerIndInv ==
    /\ ServerInv
    /\ IsFiniteSet(RunningSessions)
    /\ OneHeld
    /\ SessionsAreJoinable
    /\ StopProgress

\* The server before its first connection.
THEOREM ServerInitInv == ServerInit => ServerIndInv
<1> SUFFICES ASSUME ServerInit
             PROVE  ServerIndInv
  OBVIOUS
<1>1. RunningSessions = {}
  BY DEF ServerInit, RunningSessions, Running
<1>2. Cardinality(RunningSessions) = 0 /\ IsFiniteSet(RunningSessions)
  BY <1>1, FS_EmptySet
<1>3. ServerTypeOK
  BY CountAssumption DEF ServerInit, ServerTypeOK, Stages
<1>4. OpenCountsSessions
  BY <1>2 DEF ServerInit, OpenCountsSessions, RunningSessions
<1>5. OneHeld /\ SessionsAreJoinable /\ StopProgress
  BY <1>1 DEF ServerInit, OneHeld, SessionsAreJoinable, StopProgress
<1> QED
  BY <1>2, <1>3, <1>4, <1>5 DEF ServerIndInv, ServerInv

\* A step that starts and ends no session keeps the count.
LEMMA CountKept ==
    ASSUME ServerIndInv, RunningSessions' = RunningSessions, open' = open
    PROVE  OpenCountsSessions' /\ IsFiniteSet(RunningSessions)'
  BY DEF ServerIndInv, ServerInv, OpenCountsSessions, RunningSessions

\* One connection moves to another stage.
LEMMA StageMoved ==
    ASSUME ServerTypeOK, NEW c \in Connections, NEW s \in Stages,
           stage' = [stage EXCEPT ![c] = s]
    PROVE  /\ stage' \in [Connections -> Stages]
           /\ \A d \in Connections : stage'[d] = IF d = c THEN s ELSE stage[d]
           /\ RunningSessions' = IF s \in Running THEN RunningSessions \cup {c}
                                                  ELSE RunningSessions \ {c}
  BY DEF ServerTypeOK, RunningSessions

\* Connections and publishers: what agents do from outside.
LEMMA AgentsInv ==
    ASSUME ServerIndInv,
           \/ \E c \in Connections : Connect(c)
           \/ \E b \in Publishers : Dies(b)
    PROVE  ServerIndInv'
<1>1. ASSUME NEW c \in Connections, Connect(c)
      PROVE  ServerIndInv'
  <2>1. /\ stage[c] = "none"
        /\ stage' = [stage EXCEPT ![c] = "backlog"]
        /\ UNCHANGED <<handle, own, listed, threads, open, acceptor, stopping, stopper, joining, publishing>>
    BY <1>1 DEF Connect, stopVars
  <2>2. /\ stage' \in [Connections -> Stages]
        /\ \A d \in Connections : stage'[d] = IF d = c THEN "backlog" ELSE stage[d]
        /\ RunningSessions' = RunningSessions \ {c}
        /\ c \notin RunningSessions
    BY <2>1, StageMoved DEF ServerIndInv, ServerInv, Stages, Running, RunningSessions
  <2>3. RunningSessions' = RunningSessions
    BY <2>2
  <2>4. OpenCountsSessions' /\ IsFiniteSet(RunningSessions)'
    BY <2>1, <2>3, CountKept
  <2>5. ServerTypeOK'
    BY <2>1, <2>2 DEF ServerIndInv, ServerInv, ServerTypeOK
  <2>6. OneHeld' /\ SessionsAreJoinable' /\ StopProgress'
    BY <2>1, <2>2, <2>3 DEF ServerIndInv, OneHeld, SessionsAreJoinable, StopProgress
  <2> QED BY <2>4, <2>5, <2>6 DEF ServerIndInv, ServerInv
<1>2. ASSUME NEW b \in Publishers, Dies(b)
      PROVE  ServerIndInv'
  <2>1. /\ publishing' = [publishing EXCEPT ![b] = "dead"]
        /\ UNCHANGED <<stage, handle, own, listed, threads, open, acceptor, stopping, stopper, joining>>
    BY <1>2 DEF Dies, stopVars, threadVars
  <2>2. RunningSessions' = RunningSessions
    BY <2>1 DEF RunningSessions
  <2>3. OpenCountsSessions' /\ IsFiniteSet(RunningSessions)'
    BY <2>1, <2>2, CountKept
  <2>4. ServerTypeOK'
    BY <2>1 DEF ServerIndInv, ServerInv, ServerTypeOK
  <2>5. OneHeld' /\ SessionsAreJoinable' /\ StopProgress'
    BY <2>1, <2>2 DEF ServerIndInv, OneHeld, SessionsAreJoinable, StopProgress
  <2> QED BY <2>3, <2>4, <2>5 DEF ServerIndInv, ServerInv
<1> QED
  BY <1>1, <1>2

\* accept_loop: only Admit starts a session, and it checks the limit.
LEMMA AcceptThreadInv ==
    ASSUME ServerIndInv, AcceptThread
    PROVE  ServerIndInv'
<1>0. /\ ServerTypeOK /\ OneHeld /\ SessionsAreJoinable /\ StopProgress
      /\ stage \in [Connections -> Stages]
      /\ handle \in [Connections -> Handles \cup {None}]
  BY DEF ServerIndInv, ServerInv, ServerTypeOK
<1>1. ASSUME CheckStop \/ AcceptTimesOut
      PROVE  ServerIndInv'
  <2>1. /\ acceptor \in {"checking", "waiting"} /\ acceptor' \in {"checking", "waiting", "done"}
        /\ UNCHANGED <<stage, handle, own, listed, threads, open, stopping, stopper, joining>>
    BY <1>1 DEF CheckStop, AcceptTimesOut, stopVars, threadVars
  <2>2. RunningSessions' = RunningSessions
    BY <2>1 DEF RunningSessions
  <2>3. OpenCountsSessions' /\ IsFiniteSet(RunningSessions)'
    BY <2>1, <2>2, CountKept
  <2>4. publishing' \in [Publishers -> {"live", "dead", "fenced"}]
    BY <1>0, <1>1 DEF CheckStop, AcceptTimesOut, ServerTypeOK
  <2>5. ServerTypeOK'
    BY <1>0, <2>1, <2>4 DEF ServerTypeOK
  <2>6. OneHeld' /\ SessionsAreJoinable' /\ StopProgress'
    BY <1>0, <2>1, <2>2 DEF OneHeld, SessionsAreJoinable, StopProgress
  <2> QED BY <2>3, <2>5, <2>6 DEF ServerIndInv, ServerInv
<1>2. ASSUME NEW c \in Connections, Accept(c)
      PROVE  ServerIndInv'
  <2>1. /\ acceptor = "waiting" /\ stage[c] = "backlog"
        /\ stage' = [stage EXCEPT ![c] = "held"]
        /\ acceptor' = "holding"
        /\ UNCHANGED <<own, listed, threads, open, stopping, stopper, joining, publishing>>
    BY <1>2 DEF Accept, stopVars
  <2>2. handle' \in [Connections -> Handles \cup {None}]
    BY <1>0, <1>2 DEF Accept
  <2>3. /\ stage' \in [Connections -> Stages]
        /\ \A d \in Connections : stage'[d] = IF d = c THEN "held" ELSE stage[d]
        /\ RunningSessions' = RunningSessions \ {c}
        /\ c \notin RunningSessions
    BY <1>0, <2>1, StageMoved DEF Stages, Running, RunningSessions
  <2>4. RunningSessions' = RunningSessions
    BY <2>3
  <2>5. OpenCountsSessions' /\ IsFiniteSet(RunningSessions)'
    BY <2>1, <2>4, CountKept
  <2>6. ServerTypeOK'
    BY <1>0, <2>1, <2>2, <2>3 DEF ServerTypeOK
  <2>7. OneHeld' /\ SessionsAreJoinable' /\ StopProgress'
    BY <1>0, <2>1, <2>3, <2>4 DEF OneHeld, SessionsAreJoinable, StopProgress, ServerTypeOK
  <2> QED BY <2>5, <2>6, <2>7 DEF ServerIndInv, ServerInv
<1>3. ASSUME NEW c \in Connections, Refuse(c)
      PROVE  ServerIndInv'
  <2>1. /\ acceptor = "holding" /\ stage[c] = "held"
        /\ stage' = [stage EXCEPT ![c] = "none"]
        /\ handle' = [handle EXCEPT ![c] = None]
        /\ acceptor' = "checking"
        /\ UNCHANGED <<own, listed, threads, open, stopping, stopper, joining, publishing>>
    BY <1>3 DEF Refuse, stopVars
  <2>2. /\ stage' \in [Connections -> Stages]
        /\ \A d \in Connections : stage'[d] = IF d = c THEN "none" ELSE stage[d]
        /\ RunningSessions' = RunningSessions \ {c}
        /\ c \notin RunningSessions
    BY <1>0, <2>1, StageMoved DEF Stages, Running, RunningSessions
  <2>3. RunningSessions' = RunningSessions
    BY <2>2
  <2>4. OpenCountsSessions' /\ IsFiniteSet(RunningSessions)'
    BY <2>1, <2>3, CountKept
  <2>5. ServerTypeOK'
    BY <1>0, <2>1, <2>2 DEF ServerTypeOK, OneHeld
  <2>6. OneHeld' /\ SessionsAreJoinable' /\ StopProgress'
    BY <1>0, <2>1, <2>2, <2>3 DEF OneHeld, SessionsAreJoinable, StopProgress
  <2> QED BY <2>4, <2>5, <2>6 DEF ServerIndInv, ServerInv
<1>4. ASSUME NEW c \in Connections, Admit(c)
      PROVE  ServerIndInv'
  <2>1. /\ acceptor = "holding" /\ stage[c] = "held"
        /\ open < MaxConnections /\ open' = open + 1
        /\ listed' = listed \cup {c} /\ threads' = threads \cup {c}
        /\ stage' = [stage EXCEPT ![c] = "spawned"]
        /\ acceptor' = "checking"
        /\ UNCHANGED <<handle, own, stopping, stopper, joining, publishing>>
    BY <1>4 DEF Admit, stopVars
  <2>2. /\ stage' \in [Connections -> Stages]
        /\ \A d \in Connections : stage'[d] = IF d = c THEN "spawned" ELSE stage[d]
        /\ RunningSessions' = RunningSessions \cup {c}
        /\ c \notin RunningSessions
    BY <1>0, <2>1, StageMoved DEF Stages, Running, RunningSessions
  <2>3. /\ IsFiniteSet(RunningSessions')
        /\ Cardinality(RunningSessions') = Cardinality(RunningSessions) + 1
    BY <2>2, FS_AddElement DEF ServerIndInv
  <2>4. OpenCountsSessions'
    BY <2>1, <2>3 DEF ServerIndInv, ServerInv, OpenCountsSessions, RunningSessions
  <2>5. open' \in 0..MaxConnections
    BY <1>0, <2>1, CountAssumption DEF ServerTypeOK
  <2>6. ServerTypeOK'
    BY <1>0, <2>1, <2>2, <2>5 DEF ServerTypeOK, OneHeld
  <2>7. OneHeld' /\ SessionsAreJoinable' /\ StopProgress'
    BY <1>0, <2>1, <2>2 DEF OneHeld, SessionsAreJoinable, StopProgress
  <2> QED BY <2>3, <2>4, <2>6, <2>7 DEF ServerIndInv, ServerInv
<1> QED
  BY <1>1, <1>2, <1>3, <1>4 DEF AcceptThread

\* serve: only end_session ends one, and it counts it out.
LEMMA SessionThreadInv ==
    ASSUME ServerIndInv, NEW c \in Connections, SessionThread(c) \/ PeerGone(c)
    PROVE  ServerIndInv'
<1>0. /\ ServerTypeOK /\ OneHeld /\ SessionsAreJoinable /\ StopProgress
      /\ stage \in [Connections -> Stages]
      /\ handle \in [Connections -> Handles \cup {None}]
      /\ own \in [Connections -> Handles \cup {None}]
  BY DEF ServerIndInv, ServerInv, ServerTypeOK
<1>1. ASSUME ServeBegins(c) \/ Introduced(c) \/ NotIntroduced(c) \/ CloseOwn(c)
      PROVE  ServerIndInv'
  <2>1. PICK s \in {"hello", "serving", "leaving"} : stage' = [stage EXCEPT ![c] = s]
    BY <1>1 DEF ServeBegins, Introduced, NotIntroduced, CloseOwn
  <2>2. /\ stage[c] \in {"spawned", "hello", "serving"}
        /\ UNCHANGED <<listed, threads, open, acceptor, stopping, stopper, joining, publishing>>
    BY <1>1 DEF ServeBegins, Introduced, NotIntroduced, CloseOwn, stopVars
  <2>3. /\ handle' \in [Connections -> Handles \cup {None}]
        /\ own' \in [Connections -> Handles \cup {None}]
    BY <1>0, <1>1 DEF ServeBegins, Introduced, NotIntroduced, CloseOwn
  <2>4. s \in Stages /\ s \in Running /\ c \in RunningSessions
    BY <2>2 DEF Stages, Running, RunningSessions
  <2>5. /\ stage' \in [Connections -> Stages]
        /\ \A d \in Connections : stage'[d] = IF d = c THEN s ELSE stage[d]
        /\ RunningSessions' = RunningSessions \cup {c}
    BY <1>0, <2>1, <2>4, StageMoved
  <2>6. RunningSessions' = RunningSessions
    BY <2>4, <2>5
  <2>7. OpenCountsSessions' /\ IsFiniteSet(RunningSessions)'
    BY <2>2, <2>6, CountKept
  <2>8. ServerTypeOK'
    BY <1>0, <2>2, <2>3, <2>5 DEF ServerTypeOK
  <2>9. OneHeld' /\ SessionsAreJoinable' /\ StopProgress'
    BY <1>0, <2>2, <2>5, <2>6 DEF OneHeld, SessionsAreJoinable, StopProgress
  <2> QED BY <2>7, <2>8, <2>9 DEF ServerIndInv, ServerInv
<1>2. ASSUME EndSession(c)
      PROVE  ServerIndInv'
  <2>1. /\ stage[c] = "leaving"
        /\ stage' = [stage EXCEPT ![c] = "ended"]
        /\ listed' \subseteq listed
        /\ open' = IF open > 0 THEN open - 1 ELSE open
        /\ UNCHANGED <<own, threads, acceptor, stopping, stopper, joining, publishing>>
    BY <1>2 DEF EndSession, stopVars
  <2>2. handle' \in [Connections -> Handles \cup {None}]
    BY <1>0, <1>2 DEF EndSession
  <2>3. /\ stage' \in [Connections -> Stages]
        /\ \A d \in Connections : stage'[d] = IF d = c THEN "ended" ELSE stage[d]
        /\ RunningSessions' = RunningSessions \ {c}
        /\ c \in RunningSessions
    BY <1>0, <2>1, StageMoved DEF Stages, Running, RunningSessions
  <2>4. /\ IsFiniteSet(RunningSessions')
        /\ Cardinality(RunningSessions') = Cardinality(RunningSessions) - 1
        /\ Cardinality(RunningSessions') \in Nat
    BY <2>3, FS_RemoveElement, FS_CardinalityType DEF ServerIndInv
  <2>5. open = Cardinality(RunningSessions)
    BY DEF ServerIndInv, ServerInv, OpenCountsSessions, RunningSessions
  <2>6. open \in 0..MaxConnections
    BY <1>0 DEF ServerTypeOK
  <2>7. open' = Cardinality(RunningSessions') /\ open' \in 0..MaxConnections
    BY <2>1, <2>4, <2>5, <2>6, CountAssumption
  <2>8. OpenCountsSessions'
    BY <2>7 DEF OpenCountsSessions, RunningSessions
  <2>9. ServerTypeOK'
    BY <1>0, <2>1, <2>2, <2>3, <2>7 DEF ServerTypeOK
  <2>10. OneHeld' /\ SessionsAreJoinable' /\ StopProgress'
    BY <1>0, <2>1, <2>3 DEF OneHeld, SessionsAreJoinable, StopProgress
  <2> QED BY <2>4, <2>8, <2>9, <2>10 DEF ServerIndInv, ServerInv
<1> QED
  BY <1>1, <1>2 DEF SessionThread, PeerGone, SessionStops

\* stop(): raising the flag, taking the lists, joining what was taken.
LEMMA StopInv ==
    ASSUME ServerIndInv, StopFlag \/ StopThread
    PROVE  ServerIndInv'
<1>0. /\ ServerTypeOK /\ OneHeld /\ SessionsAreJoinable /\ StopProgress
      /\ handle \in [Connections -> Handles \cup {None}]
  BY DEF ServerIndInv, ServerInv, ServerTypeOK
<1>1. UNCHANGED <<stage, own, open, acceptor, publishing>>
  BY DEF StopFlag, StopThread, StopTakes, StopReturns, threadVars
<1>2. RunningSessions' = RunningSessions /\ OneHeld'
  BY <1>0, <1>1 DEF RunningSessions, OneHeld
<1>3. OpenCountsSessions' /\ IsFiniteSet(RunningSessions)'
  BY <1>1, <1>2, CountKept
<1>4. CASE StopFlag
  <2>1. /\ UNCHANGED <<handle, listed, threads, joining>>
        /\ \/ stopper = "running" /\ stopper' = "flagged"
           \/ stopper = "stopped" /\ stopper' = "flagged again"
    BY <1>4 DEF StopFlag, threadVars
  <2>2. ServerTypeOK'
    BY <1>0, <1>1, <2>1 DEF ServerTypeOK
  <2>3. SessionsAreJoinable' /\ StopProgress'
    BY <1>0, <1>1, <1>2, <2>1 DEF SessionsAreJoinable, StopProgress
  <2> QED BY <1>2, <1>3, <2>2, <2>3 DEF ServerIndInv, ServerInv
<1>5. CASE StopTakes
  <2>1. /\ joining' = threads /\ listed' = {} /\ threads' = {}
        /\ \/ stopper = "flagged" /\ stopper' = "closed"
           \/ stopper = "flagged again" /\ stopper' = "closed again"
    BY <1>5 DEF StopTakes
  <2>2. handle' \in [Connections -> Handles \cup {None}]
    BY <1>0, <1>5 DEF StopTakes
  <2>3. ServerTypeOK'
    BY <1>0, <1>1, <2>1, <2>2 DEF ServerTypeOK
  <2>4. SessionsAreJoinable' /\ StopProgress'
    BY <1>0, <1>1, <1>2, <2>1 DEF SessionsAreJoinable, StopProgress
  <2> QED BY <1>2, <1>3, <2>3, <2>4 DEF ServerIndInv, ServerInv
<1>6. CASE StopReturns
  <2>1. /\ acceptor = "done" /\ joining' = {} /\ UNCHANGED <<handle, listed, threads>>
        /\ \A c \in joining : stage[c] = "ended"
        /\ \/ stopper = "closed" /\ stopper' = "stopped"
           \/ stopper = "closed again" /\ stopper' = "destroyed"
    BY <1>6 DEF StopReturns, threadVars
  <2>2. RunningSessions \subseteq threads
    BY <1>0, <2>1 DEF SessionsAreJoinable, RunningSessions, Running
  <2>3. ServerTypeOK'
    BY <1>0, <1>1, <2>1 DEF ServerTypeOK
  <2>4. SessionsAreJoinable' /\ StopProgress'
    BY <1>0, <1>1, <1>2, <2>1, <2>2 DEF SessionsAreJoinable, StopProgress
  <2> QED BY <1>2, <1>3, <2>3, <2>4 DEF ServerIndInv, ServerInv
<1> QED
  BY <1>4, <1>5, <1>6 DEF StopThread

\* Every step of every thread keeps the invariant.
THEOREM ServerStepInv == ServerIndInv /\ [ServerNext]_serverVars => ServerIndInv'
<1> SUFFICES ASSUME ServerIndInv, [ServerNext]_serverVars
             PROVE  ServerIndInv'
  OBVIOUS
<1>1. ASSUME UNCHANGED serverVars
      PROVE  ServerIndInv'
  BY <1>1 DEF serverVars, threadVars, stopVars, ServerIndInv, ServerInv, ServerTypeOK,
              OpenCountsSessions, RunningSessions, OneHeld, SessionsAreJoinable, StopProgress
<1> QED
  BY <1>1, AgentsInv, AcceptThreadInv, SessionThreadInv, StopInv DEF ServerNext

\* The connection counter stands for the running sessions and stays within its
\* limit, under every interleaving of the threads.
THEOREM ServerCorrect == ServerSpec => []ServerInv
<1>1. ServerIndInv => ServerInv
  BY DEF ServerIndInv
<1> QED
  BY <1>1, ServerInitInv, ServerStepInv, PTL DEF ServerSpec

\* No session thread outlives the server object, not even one admitted after
\* stop() took the list of threads.
THEOREM NoThreadOutlives == ServerSpec => []DestroyedLeavesNoThread
<1>1. ServerIndInv => DestroyedLeavesNoThread
  <2> SUFFICES ASSUME ServerIndInv, stopper = "destroyed"
               PROVE  /\ threads = {} /\ listed = {}
                      /\ \A c \in Connections : stage[c] \notin Running \cup {"held"}
    BY DEF DestroyedLeavesNoThread
  <2>1. threads = {} /\ listed = {} /\ joining = {} /\ acceptor = "done"
    BY DEF ServerIndInv, StopProgress
  <2>2. \A c \in Connections : stage[c] \notin Running
    BY <2>1 DEF ServerIndInv, SessionsAreJoinable, RunningSessions
  <2>3. \A c \in Connections : stage[c] # "held"
    BY <2>1 DEF ServerIndInv, ServerInv, ServerTypeOK
  <2> QED BY <2>1, <2>2, <2>3
<1> QED
  BY <1>1, ServerInitInv, ServerStepInv, PTL DEF ServerSpec

-----------------------------------------------------------------------------
(***************************************************************************)
(* Theorems about Session, for any number of records and rounds, every     *)
(* limit of the generation counter, with time-outs or without.             *)
(*                                                                         *)
(* That an answer is taken only for its own request needs the one request  *)
(* that may still be answered to be followed through both channels: it is  *)
(* on its way, or decided and its answer on its way, or concluded, and     *)
(* never two of these.  That an undisturbed agent is never behind needs    *)
(* more, because the two publication counters are equal only between       *)
(* exchanges: while an answer is on its way, the coordinator may have      *)
(* counted what the agent is about to count.                               *)
(***************************************************************************)

\* The types of the variables that SessionTypeOK does not mention.
HistoryOK ==
    /\ rounds \in Nat
    /\ connected \in BOOLEAN /\ serving \in BOOLEAN /\ undisturbed \in BOOLEAN
    /\ verdict \in Outcomes \cup {"none"}
    /\ concluded \in Outcomes \cup {"none", "failed"}

\* Which thread talks: io_mutex is held by the main thread from the start of a
\* round to its end, by the heartbeat thread for one exchange, and whoever awaits
\* an answer is at the point where it asked.
OneTalker ==
    /\ io = "main" <=> main \in {"starting", "introduced", "registering", "round"}
    /\ io = "beat" <=> beat = "talking"
    /\ awaiting = "Hello" => main = "starting"
    /\ awaiting = "Register" => main = "registering"
    /\ awaiting = "Publish" => main = "round" /\ left > 0
    /\ main \in {"down", "starting", "introduced", "registering"} => beat = "off"

\* The request sent last is under way, or decided and its answer under way, or
\* concluded.
Unconcluded == concluded \in {"none", "failed"}

OneCurrent ==
    /\ \A i \in 1..Len(requests) : requests[i].current =>
          /\ \A j \in 1..Len(requests) : requests[j].current => j = i
          /\ \A j \in 1..Len(answers) : ~answers[j].current
          /\ Unconcluded
    /\ \A i \in 1..Len(answers) : answers[i].current =>
          /\ \A j \in 1..Len(answers) : answers[j].current => j = i
          /\ answers[i].outcome = verdict
          /\ Unconcluded

\* The two sides of an agent whose exchanges have all gone well: between
\* exchanges nothing is under way and the coordinator has not counted further than
\* the agent; during one there is the request, under the agent's generation, or
\* its answer, with which the agent catches up.
InStep ==
    /\ Len(requests) + Len(answers) <= 1
    /\ awaiting = "nothing" => Len(requests) = 0 /\ Len(answers) = 0
    /\ \A i \in 1..Len(requests) : /\ requests[i].current
                                   /\ requests[i].kind = awaiting
                                   /\ requests[i].gen = agentGen
    /\ \A i \in 1..Len(answers) :
          /\ answers[i].current
          /\ awaiting = "Register" => coordGen = answers[i].gen
          /\ awaiting = "Publish" => coordGen <= Counted(answers[i].outcome)
          /\ awaiting \in {"Hello", "Heartbeat"} => coordGen <= agentGen
    /\ Len(answers) = 0 => coordGen <= agentGen
    /\ verdict # "behind"

\* The inductive invariant.
SessionIndInv ==
    /\ SessionTypeOK
    /\ HistoryOK
    /\ OneTalker
    /\ OneCurrent
    /\ AnswerIsForThisRequest
    /\ undisturbed => InStep

-----------------------------------------------------------------------------
(* The channels *)

\* Sending a request makes every frame under way a late one and changes nothing
\* else of it.
LEMMA LateRequests ==
    ASSUME NEW frames \in Seq(Frame)
    PROVE  /\ Late(frames) \in Seq(Frame)
           /\ Len(Late(frames)) = Len(frames)
           /\ \A i \in 1..Len(frames) : ~Late(frames)[i].current
<1>1. DOMAIN frames = 1..Len(frames) /\ Len(frames) \in Nat
  BY LenProperties
<1>2. \A i \in 1..Len(frames) : frames[i] \in Frame
  BY ElementOfSeq
<1>3. ASSUME NEW i \in 1..Len(frames)
      PROVE  [frames[i] EXCEPT !.current = FALSE] \in Frame
  BY <1>2 DEF Frame
<1>4. Late(frames) \in [1..Len(frames) -> Frame]
  BY <1>1, <1>3 DEF Late
<1>5. Late(frames) \in Seq(Frame)
  BY <1>1, <1>4, SeqDef
<1>6. \A i \in 1..Len(frames) : ~Late(frames)[i].current
  BY <1>1, <1>2 DEF Late, Frame
<1>7. Len(Late(frames)) = Len(frames)
  BY <1>1, <1>4, <1>5, LenProperties
<1> QED BY <1>5, <1>6, <1>7

\* The same for the answers.
LEMMA LateAnswers ==
    ASSUME NEW frames \in Seq(Answer)
    PROVE  /\ Late(frames) \in Seq(Answer)
           /\ Len(Late(frames)) = Len(frames)
           /\ \A i \in 1..Len(frames) : ~Late(frames)[i].current
<1>1. DOMAIN frames = 1..Len(frames) /\ Len(frames) \in Nat
  BY LenProperties
<1>2. \A i \in 1..Len(frames) : frames[i] \in Answer
  BY ElementOfSeq
<1>3. ASSUME NEW i \in 1..Len(frames)
      PROVE  [frames[i] EXCEPT !.current = FALSE] \in Answer
  BY <1>2 DEF Answer
<1>4. Late(frames) \in [1..Len(frames) -> Answer]
  BY <1>1, <1>3 DEF Late
<1>5. Late(frames) \in Seq(Answer)
  BY <1>1, <1>4, SeqDef
<1>6. \A i \in 1..Len(frames) : ~Late(frames)[i].current
  BY <1>1, <1>2 DEF Late, Answer
<1>7. Len(Late(frames)) = Len(frames)
  BY <1>1, <1>4, <1>5, LenProperties
<1> QED BY <1>5, <1>6, <1>7

\* A frame put on a channel comes last and leaves the others where they are.
LEMMA Appended ==
    ASSUME NEW S, NEW s \in Seq(S), NEW e \in S
    PROVE  /\ Append(s, e) \in Seq(S)
           /\ Len(Append(s, e)) = Len(s) + 1
           /\ \A i \in 1..Len(s) : Append(s, e)[i] = s[i]
           /\ Append(s, e)[Len(s) + 1] = e
  OBVIOUS

\* A frame taken from a channel is its first; the others move up.
LEMMA Taken ==
    ASSUME NEW S, NEW s \in Seq(S), s # <<>>
    PROVE  /\ Len(s) \in Nat \ {0} /\ s[1] = Head(s) /\ s[1] \in S
           /\ Tail(s) \in Seq(S)
           /\ Len(Tail(s)) = Len(s) - 1
           /\ \A i \in 1..Len(Tail(s)) : i + 1 \in 1..Len(s) /\ Tail(s)[i] = s[i + 1]
<1>1. /\ Len(Tail(s)) = Len(s) - 1 /\ Tail(s) \in Seq(S)
      /\ \A i \in 1..Len(Tail(s)) : Tail(s)[i] = s[i + 1]
  BY HeadTailProperties
<1>2. Len(s) \in Nat \ {0}
  BY EmptySeq
<1>3. s[1] = Head(s) /\ s[1] \in S
  BY <1>2, ElementOfSeq
<1> QED BY <1>1, <1>2, <1>3

\* Generation::next stays within the limit and never goes back.
LEMMA NextGenUp ==
    ASSUME NEW g \in 0..MaxGen
    PROVE  NextGen(g) \in 0..MaxGen /\ NextGen(g) >= g
  BY RoundAssumption DEF NextGen

\* No session is there yet.
THEOREM SessionInitInv == SessionInit => SessionIndInv
<1> SUFFICES ASSUME SessionInit
             PROVE  SessionIndInv
  OBVIOUS
<1>0. requests = <<>> /\ answers = <<>> /\ Len(requests) = 0 /\ Len(answers) = 0
  BY DEF SessionInit
<1>1. SessionTypeOK
  BY RoundAssumption, EmptySeq, <1>0 DEF SessionInit, SessionTypeOK
<1>2. HistoryOK /\ OneTalker /\ AnswerIsForThisRequest
  BY DEF SessionInit, HistoryOK, OneTalker, AnswerIsForThisRequest
<1>3. OneCurrent
  BY <1>0 DEF OneCurrent
<1>4. InStep
  BY <1>0 DEF InStep, SessionInit
<1> QED BY <1>1, <1>2, <1>3, <1>4 DEF SessionIndInv

-----------------------------------------------------------------------------
(* Steps that touch the channels *)

\* What the invariant says of the channels and the history.
Channels ==
    /\ requests \in Seq(Frame) /\ answers \in Seq(Answer)
    /\ verdict \in Outcomes \cup {"none"}
    /\ concluded \in Outcomes \cup {"none", "failed"}
    /\ OneCurrent
    /\ AnswerIsForThisRequest
    /\ undisturbed => InStep

\* Sending preserves it: the new request is the only one that can be answered.
LEMMA SendKeeps ==
    ASSUME SessionIndInv, NEW kind \in Kinds, Send(kind), awaiting = "nothing",
           UNCHANGED <<agentGen, coordGen, undisturbed>>
    PROVE  Channels'
<1> DEFINE new == [current |-> TRUE, kind |-> kind, gen |-> agentGen]
<1>0. /\ requests \in Seq(Frame) /\ answers \in Seq(Answer) /\ agentGen \in 0..MaxGen
      /\ new \in Frame
  BY DEF SessionIndInv, SessionTypeOK, Frame
<1>1. /\ Late(requests) \in Seq(Frame) /\ Len(Late(requests)) = Len(requests)
      /\ \A i \in 1..Len(requests) : ~Late(requests)[i].current
  BY <1>0, LateRequests
<1>2. /\ answers' \in Seq(Answer) /\ Len(answers') = Len(answers)
      /\ \A i \in 1..Len(answers) : ~answers'[i].current
  BY <1>0, LateAnswers DEF Send
<1>3. requests' = Append(Late(requests), new)
  BY DEF Send
<1>4. /\ requests' \in Seq(Frame) /\ Len(requests') = Len(requests) + 1
      /\ \A i \in 1..Len(requests) : requests'[i] = Late(requests)[i]
      /\ requests'[Len(requests) + 1] = new
  <2> HIDE DEF new
  <2> QED BY <1>0, <1>1, <1>3, Appended
<1>5. Len(requests) \in Nat /\ Len(answers) \in Nat
  BY <1>0, LenProperties
<1>6. \A i \in 1..Len(requests') : requests'[i].current => i = Len(requests) + 1
  BY <1>1, <1>4, <1>5
<1>7. verdict' = "none" /\ concluded' = "none" /\ awaiting' = kind
  BY DEF Send
<1>8. OneCurrent'
  BY <1>2, <1>4, <1>5, <1>6, <1>7 DEF OneCurrent, Unconcluded
<1>9. ASSUME undisturbed'
      PROVE  InStep'
  <2>1. InStep /\ Len(requests) = 0 /\ Len(answers) = 0 /\ coordGen <= agentGen
    BY <1>9 DEF SessionIndInv, InStep
  <2>2. requests'[1] = new /\ Len(requests') = 1 /\ Len(answers') = 0
    BY <1>2, <1>4, <2>1
  <2>3. requests'[1].current /\ requests'[1].kind = awaiting' /\ requests'[1].gen = agentGen'
    BY <1>7, <2>2
  <2>4. awaiting' # "nothing" /\ coordGen' <= agentGen' /\ verdict' # "behind"
    BY <1>7, <2>1 DEF Kinds
  <2> QED BY <2>2, <2>3, <2>4 DEF InStep
<1> QED
  BY <1>2, <1>4, <1>7, <1>8, <1>9 DEF Channels, AnswerIsForThisRequest

\* An exchange that fails leaves the channels, or takes an answer and drops it.
LEMMA FailureKeeps ==
    ASSUME SessionIndInv, concluded' = "failed", undisturbed' = FALSE,
           UNCHANGED <<requests, verdict>>,
           answers' = answers \/ (answers # <<>> /\ answers' = Tail(answers))
    PROVE  Channels'
<1>0. /\ requests \in Seq(Frame) /\ answers \in Seq(Answer)
      /\ verdict \in Outcomes \cup {"none"}
      /\ OneCurrent
  BY DEF SessionIndInv, SessionTypeOK, HistoryOK
<1>1. CASE answers' = answers
  BY <1>0, <1>1 DEF Channels, OneCurrent, AnswerIsForThisRequest, Unconcluded
<1>2. CASE answers # <<>> /\ answers' = Tail(answers)
  <2>1. /\ Len(answers) \in Nat /\ answers' \in Seq(Answer) /\ Len(answers') = Len(answers) - 1
        /\ \A i \in 1..Len(answers') : i + 1 \in 1..Len(answers) /\ answers'[i] = answers[i + 1]
    BY <1>0, <1>2, Taken
  <2>2. ASSUME NEW i \in 1..Len(answers'), answers'[i].current
        PROVE  /\ \A j \in 1..Len(answers') : answers'[j].current => j = i
               /\ answers'[i].outcome = verdict'
    <3>1. answers[i + 1].current /\ i + 1 \in 1..Len(answers) /\ i \in Nat
      BY <2>1, <2>2
    <3>2. \A j \in 1..Len(answers) : answers[j].current => j = i + 1
      BY <1>0, <3>1 DEF OneCurrent
    <3>3. answers[i + 1].outcome = verdict
      BY <1>0, <3>1 DEF OneCurrent
    <3> QED BY <2>1, <2>2, <3>2, <3>3
  <2>3. ASSUME NEW i \in 1..Len(requests), requests[i].current
        PROVE  \A j \in 1..Len(answers') : ~answers'[j].current
    BY <1>0, <2>1, <2>3 DEF OneCurrent
  <2>4. OneCurrent'
    BY <1>0, <2>2, <2>3 DEF OneCurrent, Unconcluded
  <2> QED BY <1>0, <2>1, <2>4 DEF Channels, AnswerIsForThisRequest
<1> QED BY <1>1, <1>2

\* What a decision does to the counter: it stays in range, and when the request
\* carries the counter or more, it is not refused as behind and counts at most one.
LEMMA Decided ==
    ASSUME NEW frame \in Frame, NEW outcome \in Outcomes, Decide(frame, outcome),
           coordGen \in 0..MaxGen, publisher \in {"absent", "active", "fenced"}
    PROVE  /\ coordGen' \in 0..MaxGen /\ publisher' \in {"absent", "active", "fenced"}
           /\ frame.kind \in {"Hello", "Heartbeat"} => coordGen' = coordGen /\ outcome # "behind"
           /\ frame.kind = "Register" => outcome # "behind"
           /\ frame.kind = "Publish" /\ frame.gen >= coordGen =>
                 /\ outcome # "behind"
                 /\ outcome = "accepted" => coordGen' = NextGen(frame.gen)
                 /\ outcome # "accepted" => coordGen' = coordGen
<1>0. frame.kind \in Kinds /\ frame.gen \in 0..MaxGen
  BY DEF Frame
<1>1. CASE frame.kind = "Hello"
  BY <1>1 DEF Decide
<1>2. CASE frame.kind = "Register"
  BY <1>2, RoundAssumption DEF Decide
<1>3. CASE frame.kind = "Heartbeat"
  BY <1>3 DEF Decide
<1>4. CASE frame.kind = "Publish"
  <2>1. /\ outcome \in PublishOutcomes(frame.gen)
        /\ coordGen' = IF outcome = "accepted" THEN NextGen(coordGen) ELSE coordGen
        /\ publisher' = publisher
    BY <1>4 DEF Decide
  <2>2. coordGen' \in 0..MaxGen
    BY <2>1, NextGenUp
  <2>3. ASSUME frame.gen >= coordGen
        PROVE  outcome # "behind" /\ (outcome = "accepted" => frame.gen = coordGen)
    BY <1>0, <2>1, <2>3 DEF PublishOutcomes
  <2> QED BY <1>4, <2>1, <2>2, <2>3
<1> QED BY <1>0, <1>1, <1>2, <1>3, <1>4 DEF Kinds

\* Serving preserves it: the request that can be answered becomes the answer that
\* can be taken.
LEMMA ServeKeeps ==
    ASSUME SessionIndInv, Serve
    PROVE  /\ Channels'
           /\ coordGen' \in 0..MaxGen /\ publisher' \in {"absent", "active", "fenced"}
<1> DEFINE frame == Head(requests)
<1>0. /\ requests \in Seq(Frame) /\ answers \in Seq(Answer) /\ agentGen \in 0..MaxGen
      /\ coordGen \in 0..MaxGen /\ publisher \in {"absent", "active", "fenced"}
      /\ verdict \in Outcomes \cup {"none"}
      /\ concluded \in Outcomes \cup {"none", "failed"}
      /\ OneCurrent /\ AnswerIsForThisRequest
  BY DEF SessionIndInv, SessionTypeOK, HistoryOK
<1>1. PICK outcome \in Outcomes :
         /\ Decide(frame, outcome)
         /\ answers' = Append(answers,
               [current |-> frame.current, outcome |-> outcome, gen |-> coordGen'])
         /\ verdict' = IF frame.current THEN outcome ELSE verdict
  BY DEF Serve
<1>2. requests # <<>> /\ requests' = Tail(requests) /\ UNCHANGED <<agentVars, concluded, undisturbed>>
  BY DEF Serve
<1>3. /\ Len(requests) \in Nat \ {0} /\ requests[1] = frame /\ frame \in Frame
      /\ requests' \in Seq(Frame) /\ Len(requests') = Len(requests) - 1
      /\ \A i \in 1..Len(requests') : i + 1 \in 1..Len(requests) /\ requests'[i] = requests[i + 1]
  BY <1>0, <1>2, Taken
<1>4. /\ coordGen' \in 0..MaxGen /\ publisher' \in {"absent", "active", "fenced"}
      /\ frame.kind \in {"Hello", "Heartbeat"} => coordGen' = coordGen /\ outcome # "behind"
      /\ frame.kind = "Register" => outcome # "behind"
      /\ frame.kind = "Publish" /\ frame.gen >= coordGen =>
            /\ outcome # "behind"
            /\ outcome = "accepted" => coordGen' = NextGen(frame.gen)
            /\ outcome # "accepted" => coordGen' = coordGen
  <2> HIDE DEF frame
  <2> QED BY <1>0, <1>1, <1>3, Decided
<1>5. PICK new \in Answer : /\ answers' = Append(answers, new)
                            /\ new.current = frame.current /\ new.outcome = outcome
                            /\ new.gen = coordGen'
  <2>1. [current |-> frame.current, outcome |-> outcome, gen |-> coordGen'] \in Answer
    BY <1>3, <1>4 DEF Answer, Frame
  <2> QED BY <1>1, <2>1
<1>6. /\ Len(answers) \in Nat /\ answers' \in Seq(Answer) /\ Len(answers') = Len(answers) + 1
      /\ \A i \in 1..Len(answers) : answers'[i] = answers[i]
      /\ answers'[Len(answers) + 1] = new
  BY <1>0, <1>5, Appended, LenProperties
<1> HIDE DEF frame
<1>7. OneCurrent' /\ AnswerIsForThisRequest'
  <2>1. CASE frame.current
    <3>1. /\ \A j \in 1..Len(requests) : requests[j].current => j = 1
          /\ \A j \in 1..Len(answers) : ~answers[j].current
          /\ Unconcluded
      BY <1>0, <1>3, <2>1 DEF OneCurrent
    <3>2. \A i \in 1..Len(requests') : ~requests'[i].current
      BY <1>3, <3>1
    <3>3. \A i \in 1..Len(answers') : answers'[i].current => i = Len(answers) + 1
      BY <1>6, <3>1
    <3>4. answers'[Len(answers) + 1].outcome = verdict' /\ Unconcluded'
      BY <1>1, <1>2, <1>5, <1>6, <2>1, <3>1 DEF Unconcluded
    <3> QED BY <1>2, <3>2, <3>3, <3>4 DEF OneCurrent, AnswerIsForThisRequest, Unconcluded
  <2>2. CASE ~frame.current
    <3>1. \A i \in 1..Len(answers') : answers'[i].current =>
             i \in 1..Len(answers) /\ answers'[i] = answers[i]
      BY <1>5, <1>6, <2>2
    <3>2. verdict' = verdict /\ concluded' = concluded
      BY <1>1, <1>2, <2>2
    <3>3. ASSUME NEW i \in 1..Len(requests'), requests'[i].current
          PROVE  /\ \A j \in 1..Len(requests') : requests'[j].current => j = i
                 /\ \A j \in 1..Len(answers') : ~answers'[j].current
                 /\ Unconcluded'
      <4>1. requests[i + 1].current /\ i + 1 \in 1..Len(requests) /\ i \in Nat
        BY <1>3, <3>3
      <4>2. /\ \A j \in 1..Len(requests) : requests[j].current => j = i + 1
            /\ \A j \in 1..Len(answers) : ~answers[j].current
            /\ Unconcluded
        BY <1>0, <4>1 DEF OneCurrent
      <4> QED BY <1>3, <3>1, <3>2, <4>2 DEF Unconcluded
    <3>4. ASSUME NEW i \in 1..Len(answers'), answers'[i].current
          PROVE  /\ \A j \in 1..Len(answers') : answers'[j].current => j = i
                 /\ answers'[i].outcome = verdict'
                 /\ Unconcluded'
      BY <1>0, <3>1, <3>2, <3>4 DEF OneCurrent, Unconcluded
    <3> QED BY <1>0, <3>2, <3>3, <3>4 DEF OneCurrent, AnswerIsForThisRequest
  <2> QED BY <2>1, <2>2
<1>8. ASSUME undisturbed'
      PROVE  InStep'
  <2>1. InStep
    BY <1>2, <1>8 DEF SessionIndInv
  <2>2. /\ Len(requests') = 0 /\ Len(answers') = 1 /\ answers'[1] = new
        /\ frame.current /\ frame.kind = awaiting /\ frame.gen = agentGen
        /\ coordGen <= agentGen
    BY <1>3, <1>6, <2>1 DEF InStep
  <2>3. UNCHANGED <<awaiting, agentGen>> /\ awaiting \in Kinds
    BY <1>2, <1>3, <2>2 DEF agentVars, Frame
  <2>4. verdict' = outcome /\ outcome # "behind"
    BY <1>0, <1>1, <1>4, <2>2, <2>3 DEF Kinds
  <2>5. awaiting = "Publish" => coordGen' <= Counted(outcome)
    BY <1>0, <1>4, <2>2, NextGenUp DEF Counted
  <2>6. Counted(outcome)' = Counted(outcome)
    BY <2>3 DEF Counted, NextGen
  <2>7. awaiting' # "nothing"
    BY <2>3 DEF Kinds
  <2>8. /\ answers'[1].current /\ answers'[1].gen = coordGen' /\ answers'[1].outcome = outcome
        /\ awaiting' = "Publish" => coordGen' <= Counted(outcome)'
        /\ awaiting' \in {"Hello", "Heartbeat"} => coordGen' <= agentGen'
    BY <1>0, <1>4, <1>5, <2>2, <2>3, <2>5, <2>6
  <2> QED BY <2>2, <2>4, <2>7, <2>8 DEF InStep, Counted
<1>9. verdict' \in Outcomes \cup {"none"}
  BY <1>0, <1>1
<1> QED BY <1>0, <1>2, <1>3, <1>4, <1>6, <1>7, <1>8, <1>9 DEF Channels

\* Taking the answer to the request awaited preserves it, if the agent counts with
\* the coordinator.
LEMMA ConclusionKeeps ==
    ASSUME SessionIndInv, answers # <<>>, Head(answers).current, awaiting # "nothing",
           answers' = Tail(answers), concluded' = Head(answers).outcome, awaiting' = "nothing",
           UNCHANGED <<requests, verdict, coordGen, undisturbed>>,
           InStep => coordGen <= agentGen'
    PROVE  Channels'
<1>0. /\ requests \in Seq(Frame) /\ answers \in Seq(Answer)
      /\ verdict \in Outcomes \cup {"none"}
      /\ OneCurrent
  BY DEF SessionIndInv, SessionTypeOK, HistoryOK
<1>1. /\ Len(answers) \in Nat \ {0} /\ answers[1] = Head(answers) /\ answers[1] \in Answer
      /\ answers' \in Seq(Answer) /\ Len(answers') = Len(answers) - 1
      /\ \A i \in 1..Len(answers') : i + 1 \in 1..Len(answers) /\ answers'[i] = answers[i + 1]
  BY <1>0, Taken
<1>2. /\ \A j \in 1..Len(answers) : answers[j].current => j = 1
      /\ answers[1].outcome = verdict
  BY <1>0, <1>1 DEF OneCurrent
<1>3. \A i \in 1..Len(requests) : ~requests[i].current
  BY <1>0, <1>1 DEF OneCurrent
<1>4. \A i \in 1..Len(answers') : ~answers'[i].current
  BY <1>1, <1>2
<1>5. OneCurrent' /\ AnswerIsForThisRequest'
  BY <1>1, <1>2, <1>3, <1>4 DEF OneCurrent, AnswerIsForThisRequest
<1>6. concluded' \in Outcomes
  BY <1>1 DEF Answer
<1>7. ASSUME undisturbed'
      PROVE  InStep'
  <2>1. InStep
    BY <1>7 DEF SessionIndInv
  <2>2. Len(requests) \in Nat
    BY <1>0, LenProperties
  <2>3. Len(requests) = 0 /\ Len(answers) = 1
    BY <1>1, <2>1, <2>2 DEF InStep
  <2>4. Len(requests') = 0 /\ Len(answers') = 0
    BY <1>1, <2>3
  <2>5. coordGen' <= agentGen' /\ verdict' # "behind"
    BY <2>1 DEF InStep
  <2>6. 1..Len(requests') = {} /\ 1..Len(answers') = {}
    <3>1. 1..0 = {}
      OBVIOUS
    <3> QED BY <2>4, <3>1, Zenon
  <2>7. Len(requests') + Len(answers') <= 1
    <3>1. 0 + 0 <= 1
      OBVIOUS
    <3> QED BY <2>4, <3>1, Zenon
  <2> QED BY <2>4, <2>5, <2>6, <2>7, Zenon DEF InStep
<1> QED BY <1>0, <1>1, <1>5, <1>6, <1>7 DEF Channels

-----------------------------------------------------------------------------
(* Every step *)

\* What the invariant says of the two ends.
Ends ==
    /\ main \in {"down", "starting", "introduced", "registering", "round", "idle", "failed"}
    /\ left \in 0..Records
    /\ beat \in {"off", "sleeping", "talking", "ended"}
    /\ io \in {"free", "main", "beat"}
    /\ awaiting \in Kinds \cup {"nothing"}
    /\ awaiting = "Heartbeat" <=> io = "beat"
    /\ agentGen \in 0..MaxGen /\ coordGen \in 0..MaxGen
    /\ publisher \in {"absent", "active", "fenced"}
    /\ rounds \in Nat
    /\ connected \in BOOLEAN /\ serving \in BOOLEAN /\ undisturbed \in BOOLEAN
    /\ OneTalker

\* The invariant is about the ends and about the channels.
LEMMA Parts == /\ SessionIndInv <=> Ends /\ Channels
               /\ SessionIndInv' <=> Ends' /\ Channels'
  BY DEF SessionIndInv, SessionTypeOK, HistoryOK, Ends, Channels

\* Steps that leave the channels and the counters alone leave what is said of them.
LEMMA ChannelsStay ==
    ASSUME SessionIndInv,
           UNCHANGED <<requests, answers, verdict, concluded, undisturbed, awaiting, agentGen,
                       coordGen>>
    PROVE  Channels'
  BY Parts DEF Channels, OneCurrent, Unconcluded, AnswerIsForThisRequest, InStep, Counted, NextGen

\* The agent's steps that send.
LEMMA SendSteps ==
    ASSUME SessionIndInv, Start \/ SendRegister \/ SendRecord \/ SendHeartbeat
    PROVE  SessionIndInv'
<1>0. Ends
  BY Parts
<1>1. CASE Start
  <2>1. awaiting = "nothing"
    BY <1>0, <1>1 DEF Start, Ends, OneTalker, Kinds
  <2>2. Channels'
    BY <1>1, <2>1, SendKeeps DEF Start, Kinds
  <2>3. Ends'
    BY <1>0, <1>1 DEF Start, Send, Ends, OneTalker, Kinds
  <2> QED BY <2>2, <2>3, Parts
<1>2. CASE SendRegister
  <2>1. awaiting = "nothing"
    BY <1>0, <1>2 DEF SendRegister, Ends, OneTalker, Kinds
  <2>2. Channels'
    BY <1>2, <2>1, SendKeeps DEF SendRegister, coordinatorVars, Kinds
  <2>3. Ends'
    BY <1>0, <1>2 DEF SendRegister, coordinatorVars, Send, Ends, OneTalker, Kinds
  <2> QED BY <2>2, <2>3, Parts
<1>3. CASE SendRecord
  <2>1. awaiting = "nothing"
    BY <1>3 DEF SendRecord
  <2>2. Channels'
    BY <1>3, <2>1, SendKeeps DEF SendRecord, coordinatorVars, Kinds
  <2>3. Ends'
    BY <1>0, <1>3 DEF SendRecord, coordinatorVars, Send, Ends, OneTalker, Kinds
  <2> QED BY <2>2, <2>3, Parts
<1>4. CASE SendHeartbeat
  <2>1. awaiting = "nothing"
    BY <1>0, <1>4 DEF SendHeartbeat, Ends, OneTalker, Kinds
  <2>2. Channels'
    BY <1>4, <2>1, SendKeeps DEF SendHeartbeat, coordinatorVars, Kinds
  <2>3. Ends'
    BY <1>0, <1>4 DEF SendHeartbeat, coordinatorVars, Send, Ends, OneTalker, Kinds
  <2> QED BY <2>2, <2>3, Parts
<1> QED BY <1>1, <1>2, <1>3, <1>4

\* An exchange that fails gives up what the thread was doing.
LEMMA FailedEnds ==
    ASSUME Ends, ExchangeFails, awaiting # "nothing", UNCHANGED coordinatorVars
    PROVE  Ends'
<1>0. /\ awaiting' = "nothing" /\ undisturbed' = FALSE
      /\ UNCHANGED <<serving, publisher, coordGen>>
  BY DEF ExchangeFails, coordinatorVars
<1>a. 0 \in 0..Records
  BY RoundAssumption
<1>1. CASE awaiting = "Heartbeat"
  <2>1. BeatEnds
    BY <1>1 DEF ExchangeFails
  <2> QED BY <1>0, <1>1, <2>1 DEF BeatEnds, Ends, OneTalker, Kinds
<1>2. CASE awaiting = "Publish"
  <2>1. RoundFails
    BY <1>2 DEF ExchangeFails
  <2> QED BY <1>0, <1>a, <1>2, <2>1 DEF RoundFails, StartFails, Ends, OneTalker, Kinds
<1>3. CASE awaiting \in {"Hello", "Register"}
  <2>1. StartFails
    BY <1>3 DEF ExchangeFails
  <2> QED BY <1>0, <1>a, <1>3, <2>1 DEF StartFails, Ends, OneTalker, Kinds
<1> QED BY <1>1, <1>2, <1>3 DEF Ends, Kinds

\* The steps in which an exchange fails.
LEMMA FailureSteps ==
    ASSUME SessionIndInv,
           \/ Receive /\ ~Matches(Head(answers))
           \/ TimesOut \/ ConnectionLost \/ SendFails
    PROVE  SessionIndInv'
<1>0. Ends
  BY Parts
<1>1. CASE Receive /\ ~Matches(Head(answers))
  <2>1. ExchangeFails /\ awaiting # "nothing" /\ answers # <<>> /\ answers' = Tail(answers)
        /\ UNCHANGED <<requests, coordinatorVars, verdict>>
    BY <1>1 DEF Receive
  <2>2. Channels'
    BY <2>1, FailureKeeps DEF ExchangeFails
  <2> QED BY <1>0, <2>1, <2>2, FailedEnds, Parts
<1>2. CASE TimesOut \/ ConnectionLost
  <2>1. ExchangeFails /\ awaiting # "nothing"
        /\ UNCHANGED <<requests, answers, coordinatorVars, verdict>>
    BY <1>2 DEF TimesOut, ConnectionLost
  <2>2. Channels'
    BY <2>1, FailureKeeps DEF ExchangeFails
  <2> QED BY <1>0, <2>1, <2>2, FailedEnds, Parts
<1>3. CASE SendFails
  <2>1. Channels'
    BY <1>3, FailureKeeps DEF SendFails
  <2>2. /\ awaiting = "nothing" /\ undisturbed' = FALSE
        /\ UNCHANGED <<awaiting, serving, publisher, coordGen>>
    BY <1>3 DEF SendFails, coordinatorVars
  <2>3. CASE main = "round" /\ RoundFails
    <3>1. 0 \in 0..Records
      BY RoundAssumption
    <3>2. Ends'
      BY <1>0, <2>2, <2>3, <3>1 DEF RoundFails, StartFails, Ends, OneTalker, Kinds
    <3> QED BY <2>1, <3>2, Parts
  <2>4. CASE beat = "sleeping" /\ io = "free" /\ BeatEnds
    <3>1. Ends'
      BY <1>0, <2>2, <2>4 DEF BeatEnds, Ends, OneTalker, Kinds
    <3> QED BY <2>1, <3>1, Parts
  <2> QED BY <1>3, <2>3, <2>4 DEF SendFails
<1> QED BY <1>1, <1>2, <1>3

\* The step in which the agent takes the answer it awaits: its counter then is not
\* behind the coordinator's.
LEMMA ConclusionStep ==
    ASSUME SessionIndInv, Receive, Matches(Head(answers))
    PROVE  SessionIndInv'
<1> DEFINE answer == Head(answers)
<1>0. Ends /\ answers \in Seq(Answer)
  BY Parts DEF Channels
<1>1. /\ awaiting # "nothing" /\ answers # <<>> /\ answers' = Tail(answers)
      /\ answer.current /\ Conclude(answer)
      /\ UNCHANGED <<requests, serving, publisher, coordGen, verdict>>
  BY DEF Receive, Matches, coordinatorVars
<1>2. /\ Len(answers) \in Nat \ {0} /\ answers[1] = answer /\ answer \in Answer
  BY <1>0, <1>1, Taken
<1>3. /\ awaiting' = "nothing" /\ concluded' = answer.outcome /\ undisturbed' = undisturbed
  BY <1>1 DEF Conclude
<1>4. answer.gen \in 0..MaxGen /\ Counted(answer.outcome) \in 0..MaxGen
      /\ Counted(answer.outcome) >= agentGen
  <2>1. agentGen \in 0..MaxGen
    BY <1>0 DEF Ends
  <2>2. answer.gen \in 0..MaxGen
    BY <1>2 DEF Answer
  <2>3. NextGen(agentGen) \in 0..MaxGen /\ NextGen(agentGen) >= agentGen
    BY <2>1, NextGenUp
  <2> QED BY <2>1, <2>2, <2>3 DEF Counted
<1>5. InStep =>
        /\ awaiting = "Register" => coordGen = answer.gen
        /\ awaiting = "Publish" => coordGen <= Counted(answer.outcome)
        /\ awaiting \in {"Hello", "Heartbeat"} => coordGen <= agentGen
  BY <1>2 DEF InStep
<1> HIDE DEF answer
<1>6. coordGen \in 0..MaxGen /\ agentGen \in 0..MaxGen
  BY <1>0 DEF Ends
<1>7. CASE awaiting = "Heartbeat"
  <2>1. HeartbeatAnswered(answer.outcome)
    BY <1>1, <1>7 DEF Conclude
  <2>2. Ends'
    BY <1>0, <1>1, <1>3, <1>4, <1>7, <2>1
    DEF HeartbeatAnswered, BeatEnds, Ends, OneTalker, Kinds
  <2>3. InStep => coordGen <= agentGen'
    BY <1>4, <1>5, <1>6, <1>7, <2>1 DEF HeartbeatAnswered, BeatEnds
  <2>4. Channels'
    BY <1>1, <1>3, <2>3, ConclusionKeeps DEF answer
  <2> QED BY <2>2, <2>4, Parts
<1>8. CASE awaiting = "Publish"
  <2>1. /\ agentGen' = Counted(answer.outcome) /\ left' = left - 1
        /\ UNCHANGED <<main, beat, io, connected, rounds>>
    BY <1>1, <1>8 DEF Conclude
  <2>2. Ends'
    BY <1>0, <1>1, <1>3, <1>4, <1>8, <2>1, RoundAssumption DEF Ends, OneTalker, Kinds
  <2>3. InStep => coordGen <= agentGen'
    BY <1>5, <1>8, <2>1
  <2>4. Channels'
    BY <1>1, <1>3, <2>3, ConclusionKeeps DEF answer
  <2> QED BY <2>2, <2>4, Parts
<1>9. CASE awaiting = "Hello"
  <2>1. main' = "introduced" /\ UNCHANGED <<left, beat, io, agentGen, connected, rounds>>
    BY <1>1, <1>9 DEF Conclude
  <2>2. Ends'
    BY <1>0, <1>1, <1>3, <1>9, <2>1 DEF Ends, OneTalker, Kinds
  <2>3. InStep => coordGen <= agentGen'
    BY <1>5, <1>9, <2>1
  <2>4. Channels'
    BY <1>1, <1>3, <2>3, ConclusionKeeps DEF answer
  <2> QED BY <2>2, <2>4, Parts
<1>10. CASE awaiting = "Register"
  <2>1. /\ main' = "round" /\ left' = Records /\ agentGen' = answer.gen
        /\ UNCHANGED <<beat, io, connected, rounds>>
    BY <1>1, <1>10 DEF Conclude
  <2>2. Ends'
    BY <1>0, <1>1, <1>3, <1>4, <1>10, <2>1, RoundAssumption DEF Ends, OneTalker, Kinds
  <2>3. InStep => coordGen <= agentGen'
    BY <1>4, <1>5, <1>6, <1>10, <2>1
  <2>4. Channels'
    BY <1>1, <1>3, <2>3, ConclusionKeeps DEF answer
  <2> QED BY <2>2, <2>4, Parts
<1> QED BY <1>0, <1>1, <1>7, <1>8, <1>9, <1>10 DEF Ends, Kinds

\* Every step of the agent, the coordinator and the connection preserves the
\* invariant.
THEOREM SessionStepInv == SessionIndInv /\ [SessionNext]_sessionVars => SessionIndInv'
<1> SUFFICES ASSUME SessionIndInv, [SessionNext]_sessionVars
             PROVE  SessionIndInv'
  OBVIOUS
<1>0. Ends
  BY Parts
<1>1. CASE PublishNow
  <2>1. Channels'
    BY <1>1, ChannelsStay DEF PublishNow, coordinatorVars
  <2>2. Ends'
    BY <1>0, <1>1, RoundAssumption DEF PublishNow, coordinatorVars, Ends, OneTalker, Kinds
  <2> QED BY <2>1, <2>2, Parts
<1>2. CASE RoundDone
  <2>1. Channels'
    BY <1>2, ChannelsStay DEF RoundDone, coordinatorVars
  <2>2. Ends'
    BY <1>0, <1>2 DEF RoundDone, coordinatorVars, Ends, OneTalker, Kinds
  <2> QED BY <2>1, <2>2, Parts
<1>3. CASE Disconnect
  <2>1. Channels'
    BY <1>3, ChannelsStay DEF Disconnect, coordinatorVars
  <2>2. Ends'
    BY <1>0, <1>3 DEF Disconnect, coordinatorVars, Ends, OneTalker
  <2> QED BY <2>1, <2>2, Parts
<1>4. CASE Serve
  <2>1. Channels' /\ coordGen' \in 0..MaxGen /\ publisher' \in {"absent", "active", "fenced"}
    BY <1>4, ServeKeeps
  <2>2. Ends'
    BY <1>0, <1>4, <2>1 DEF Serve, agentVars, Ends, OneTalker
  <2> QED BY <2>1, <2>2, Parts
<1>5. CASE Fence \/ SessionEnds
  <2>1. Channels'
    BY <1>5, ChannelsStay DEF Fence, SessionEnds, agentVars
  <2>2. Ends'
    BY <1>0, <1>5 DEF Fence, SessionEnds, agentVars, Ends, OneTalker
  <2> QED BY <2>1, <2>2, Parts
<1>6. CASE UNCHANGED sessionVars
  <2>1. Channels'
    BY <1>6, ChannelsStay DEF sessionVars, agentVars, coordinatorVars
  <2>2. Ends'
    BY <1>0, <1>6 DEF sessionVars, agentVars, coordinatorVars, Ends, OneTalker
  <2> QED BY <2>1, <2>2, Parts
<1> QED
  BY <1>1, <1>2, <1>3, <1>4, <1>5, <1>6, SendSteps, FailureSteps, ConclusionStep
  DEF SessionNext, AgentRuns

-----------------------------------------------------------------------------
(* The properties *)

\* SessionInv: both sides stay well formed, and what an exchange returns is what the
\* coordinator decided about that very request, however late answers come.
THEOREM SessionCorrect == SessionSpec => []SessionInv
<1>1. SessionIndInv => SessionInv
  BY DEF SessionIndInv, SessionInv
<1> QED BY <1>1, SessionInitInv, SessionStepInv, PTL DEF SessionSpec

\* UndisturbedIsNeverBehind: however rounds and heartbeats alternate, an agent whose
\* exchanges have all gone well is never refused as behind.
THEOREM NeverBehind == SessionSpec => []UndisturbedIsNeverBehind
<1>1. SessionIndInv => UndisturbedIsNeverBehind
  BY DEF SessionIndInv, InStep, UndisturbedIsNeverBehind
<1> QED BY <1>1, SessionInitInv, SessionStepInv, PTL DEF SessionSpec
=============================================================================
