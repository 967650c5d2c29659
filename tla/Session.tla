------------------------------- MODULE Session -------------------------------
(***************************************************************************)
(* One agent process and its session at the coordinator: the exchanges of  *)
(* requests and answers over one connection, with time-outs, answers that  *)
(* come late, revocation, and connections closed by either side.           *)
(*                                                                         *)
(* The agent has two threads, the one that starts it and later calls       *)
(* publish_now, and the heartbeat thread; io_mutex lets one of them talk   *)
(* at a time, so at most one request is awaited.                           *)
(*                                                                         *)
(* An exchange compares the correlation number of an answer with that of   *)
(* its request.  Numbers are never reused, so a frame is tagged instead    *)
(* with whether it belongs to the request awaited last: sending a new      *)
(* request makes every frame under way a late one.                         *)
(***************************************************************************)
EXTENDS Integers, Sequences

CONSTANTS
    Records,    \* number of records the agent publishes in one round
    MaxGen,     \* largest value of a generation counter
    MaxRounds,  \* bound on the calls of publish_now
    TimeOuts    \* whether an answer may take longer than io_timeout

ASSUME RoundAssumption == Records \in Nat /\ MaxRounds \in Nat /\ MaxGen \in Nat \ {0}
ASSUME TimeOutAssumption == TimeOuts \in BOOLEAN

VARIABLES
    (* Agent *)
    main,       \* where the main thread is
    left,       \* records left in the round being published
    beat,       \* where the heartbeat thread is
    io,         \* who holds io_mutex
    awaiting,   \* the kind of request whose answer is awaited, or "nothing"
    agentGen,   \* Impl::publication_generation
    connected,  \* whether the agent's end of the connection is open
    rounds,     \* calls of publish_now so far
    (* The connection *)
    requests,   \* frames on their way to the coordinator
    answers,    \* frames on their way to the agent
    (* Coordinator *)
    serving,    \* whether the session thread is in its loop
    publisher,  \* the publisher record's state
    coordGen,   \* the publisher record's publication_generation
    (* History *)
    verdict,    \* what the coordinator decided about the request awaited last
    concluded,  \* what the agent's last exchange returned
    undisturbed \* no exchange has failed so far

agentVars == <<main, left, beat, io, awaiting, agentGen, connected, rounds>>
coordinatorVars == <<serving, publisher, coordGen>>
sessionVars == <<agentVars, requests, answers, coordinatorVars, verdict, concluded, undisturbed>>

Kinds == {"Hello", "Register", "Publish", "Heartbeat"}

\* What a request comes to: accepted, no change, refused because the boot is
\* revoked, because its publication generation is behind or ahead, or otherwise.
Outcomes == {"accepted", "unchanged", "revoked", "behind", "ahead", "refused"}

Frame == [current : BOOLEAN, kind : Kinds, gen : 0..MaxGen]
Answer == [current : BOOLEAN, outcome : Outcomes, gen : 0..MaxGen]

SessionInit ==
    /\ main = "down" /\ left = 0 /\ beat = "off" /\ io = "free" /\ awaiting = "nothing"
    /\ agentGen = 0 /\ connected = FALSE /\ rounds = 0
    /\ requests = <<>> /\ answers = <<>>
    /\ serving = FALSE /\ publisher = "absent" /\ coordGen = 0
    /\ verdict = "none" /\ concluded = "none" /\ undisturbed = TRUE

NextGen(g) == IF g < MaxGen THEN g + 1 ELSE g

Late(frames) == [i \in DOMAIN frames |-> [frames[i] EXCEPT !.current = FALSE]]

-----------------------------------------------------------------------------
(* The agent sends *)

\* exchange, first half: the request goes out and its answer is awaited.
Send(kind) ==
    /\ requests' = Append(Late(requests), [current |-> TRUE, kind |-> kind, gen |-> agentGen])
    /\ answers' = Late(answers)
    /\ awaiting' = kind
    /\ verdict' = "none" /\ concluded' = "none"

\* Agent::start: connect and introduce itself.
Start ==
    /\ main = "down"
    /\ main' = "starting" /\ io' = "main"
    /\ connected' = TRUE /\ serving' = TRUE
    /\ Send("Hello")
    /\ UNCHANGED <<left, beat, agentGen, rounds, publisher, coordGen, undisturbed>>

\* Agent::start, once HELLO has been answered.
SendRegister ==
    /\ main = "introduced"
    /\ main' = "registering"
    /\ Send("Register")
    /\ UNCHANGED <<left, beat, io, agentGen, connected, rounds, coordinatorVars, undisturbed>>

\* publish_now: a new round, when nobody else is talking and still connected.
PublishNow ==
    /\ main = "idle" /\ io = "free" /\ connected
    /\ rounds < MaxRounds
    /\ rounds' = rounds + 1
    /\ main' = "round" /\ io' = "main" /\ left' = Records
    /\ UNCHANGED <<beat, awaiting, agentGen, connected, requests, answers, coordinatorVars,
                   verdict, concluded, undisturbed>>

\* do_publish: the next record, under the token of this moment.
SendRecord ==
    /\ main = "round" /\ left > 0 /\ awaiting = "nothing" /\ connected
    /\ Send("Publish")
    /\ UNCHANGED <<main, left, beat, io, agentGen, connected, rounds, coordinatorVars, undisturbed>>

\* do_publish has sent everything; the first round also ends Agent::start, which
\* then starts the heartbeat thread.
RoundDone ==
    /\ main = "round" /\ left = 0 /\ awaiting = "nothing"
    /\ main' = "idle" /\ io' = "free"
    /\ beat' = IF beat = "off" THEN "sleeping" ELSE beat
    /\ UNCHANGED <<left, awaiting, agentGen, connected, rounds, requests, answers,
                   coordinatorVars, verdict, concluded, undisturbed>>

\* heartbeat_loop: the interval is over and io_mutex is free.
SendHeartbeat ==
    /\ beat = "sleeping" /\ io = "free" /\ connected
    /\ beat' = "talking" /\ io' = "beat"
    /\ Send("Heartbeat")
    /\ UNCHANGED <<main, left, agentGen, connected, rounds, coordinatorVars, undisturbed>>

-----------------------------------------------------------------------------
(* The coordinator serves *)

\* What a publication may come to.  Whether its content changes anything, and
\* whether it is valid, is left open.
PublishOutcomes(gen) ==
    IF publisher = "fenced" THEN {"revoked"}
    ELSE IF gen < coordGen THEN {"behind"}
    ELSE IF gen > coordGen THEN {"ahead"}
    ELSE {"accepted", "unchanged", "refused"}

\* The publisher after the request, and what the request comes to.  The agent
\* registers a fresh boot identity, once.
Decide(frame, outcome) ==
    CASE frame.kind = "Hello" ->
           outcome = "accepted" /\ UNCHANGED <<publisher, coordGen>>
      [] frame.kind = "Register" ->
           /\ publisher = "absent"
           /\ outcome = "accepted"
           /\ publisher' = "active" /\ coordGen' = 1
      [] frame.kind = "Publish" ->
           /\ outcome \in PublishOutcomes(frame.gen)
           /\ coordGen' = IF outcome = "accepted" THEN NextGen(coordGen) ELSE coordGen
           /\ UNCHANGED publisher
      [] frame.kind = "Heartbeat" ->
           /\ outcome = IF publisher = "fenced" THEN "revoked" ELSE "accepted"
           /\ UNCHANGED <<publisher, coordGen>>

\* serve: one request is taken, decided and answered.
Serve ==
    /\ serving /\ requests # <<>>
    /\ LET frame == Head(requests) IN
       \E outcome \in Outcomes :
          /\ Decide(frame, outcome)
          /\ answers' = Append(answers,
                [current |-> frame.current, outcome |-> outcome, gen |-> coordGen'])
          /\ verdict' = IF frame.current THEN outcome ELSE verdict
    /\ requests' = Tail(requests)
    /\ UNCHANGED <<agentVars, serving, concluded, undisturbed>>

\* fence_publisher or expire_publishers, at any time.
Fence ==
    /\ publisher = "active"
    /\ publisher' = "fenced"
    /\ UNCHANGED <<agentVars, requests, answers, serving, coordGen, verdict, concluded, undisturbed>>

\* The session ends: the agent is gone and its requests are served, or the
\* coordinator stops.
SessionEnds ==
    /\ serving
    /\ serving' = FALSE
    /\ UNCHANGED <<agentVars, requests, answers, publisher, coordGen, verdict, concluded, undisturbed>>

-----------------------------------------------------------------------------
(* The agent receives *)

\* Mutated form of Matches: any answer will do.
MatchesAnything(answer) == TRUE

\* exchange: the answer carries the correlation number of the request.
Matches(answer) == answer.current

\* Agent::start gives up; the connection is closed with the agent.
StartFails ==
    /\ main' = "failed" /\ connected' = FALSE /\ io' = "free" /\ left' = 0
    /\ UNCHANGED <<beat, agentGen, rounds>>

\* do_publish gives up: the round ends, and the connection stays open.
RoundFails ==
    IF beat = "off" THEN StartFails
    ELSE /\ main' = "idle" /\ io' = "free" /\ left' = 0
         /\ UNCHANGED <<beat, agentGen, connected, rounds>>

\* The heartbeat thread closes the connection and ends.
BeatEnds ==
    /\ beat' = "ended" /\ io' = "free" /\ connected' = FALSE
    /\ UNCHANGED <<main, left, agentGen, rounds>>

\* The exchange returned false, to whoever asked.
ExchangeFails ==
    /\ awaiting' = "nothing" /\ concluded' = "failed" /\ undisturbed' = FALSE
    /\ CASE awaiting = "Heartbeat" -> BeatEnds
         [] awaiting = "Publish" -> RoundFails
         [] OTHER -> StartFails

\* Mutated form of Counted: an accepted request is not counted.
CountedNever(outcome) == agentGen

\* send_and_expect_result counts every accepted request, a heartbeat too.
Counted(outcome) == IF outcome = "accepted" THEN NextGen(agentGen) ELSE agentGen

\* Mutated form of HeartbeatAnswered: a revoked agent keeps talking.
HeartbeatAnsweredOnly(outcome) ==
    /\ agentGen' = Counted(outcome)
    /\ beat' = "sleeping" /\ io' = "free"
    /\ UNCHANGED <<main, left, connected, rounds>>

HeartbeatAnswered(outcome) ==
    IF outcome = "revoked" THEN BeatEnds
    ELSE /\ agentGen' = Counted(outcome)
         /\ beat' = "sleeping" /\ io' = "free"
         /\ UNCHANGED <<main, left, connected, rounds>>

\* What the agent does with the answer to the request it awaits.
Conclude(answer) ==
    /\ awaiting' = "nothing" /\ concluded' = answer.outcome /\ UNCHANGED undisturbed
    /\ CASE awaiting = "Heartbeat" -> HeartbeatAnswered(answer.outcome)
         [] awaiting = "Publish" ->
              /\ agentGen' = Counted(answer.outcome)
              /\ left' = left - 1
              /\ UNCHANGED <<main, beat, io, connected, rounds>>
         [] awaiting = "Hello" ->
              main' = "introduced" /\ UNCHANGED <<left, beat, io, agentGen, connected, rounds>>
         [] awaiting = "Register" ->
              /\ main' = "round" /\ left' = Records
              /\ agentGen' = answer.gen
              /\ UNCHANGED <<beat, io, connected, rounds>>

\* exchange, second half: the next answer on the connection is taken.
Receive ==
    /\ awaiting # "nothing" /\ connected /\ answers # <<>>
    /\ answers' = Tail(answers)
    /\ IF Matches(Head(answers)) THEN Conclude(Head(answers)) ELSE ExchangeFails
    /\ UNCHANGED <<requests, coordinatorVars, verdict>>

\* No answer within io_timeout.  It may still come.
TimesOut ==
    /\ TimeOuts
    /\ awaiting # "nothing" /\ connected
    /\ ExchangeFails
    /\ UNCHANGED <<requests, answers, coordinatorVars, verdict>>

\* The connection is closed at one end; answers still on it may be lost.
ConnectionLost ==
    /\ awaiting # "nothing"
    /\ ~connected \/ ~serving
    /\ ExchangeFails
    /\ UNCHANGED <<requests, answers, coordinatorVars, verdict>>

\* send fails at once on a connection the agent has closed itself; a heartbeat
\* thread that finds the stop flag raised ends in the same way.
SendFails ==
    /\ awaiting = "nothing" /\ ~connected
    /\ undisturbed' = FALSE /\ concluded' = "failed"
    /\ \/ main = "round" /\ left > 0 /\ RoundFails
       \/ beat = "sleeping" /\ io = "free" /\ BeatEnds
    /\ UNCHANGED <<awaiting, requests, answers, coordinatorVars, verdict>>

\* Agent::disconnect and the first half of stop(): close the connection under
\* whatever the heartbeat thread is doing.
Disconnect ==
    /\ main = "idle" /\ connected
    /\ connected' = FALSE
    /\ UNCHANGED <<main, left, beat, io, awaiting, agentGen, rounds, requests, answers,
                   coordinatorVars, verdict, concluded, undisturbed>>

-----------------------------------------------------------------------------
\* The steps the agent's two threads take by themselves.
AgentRuns ==
    \/ SendRegister \/ SendRecord \/ RoundDone \/ SendHeartbeat
    \/ Receive \/ TimesOut \/ ConnectionLost \/ SendFails

SessionNext ==
    \/ Start \/ PublishNow \/ Disconnect
    \/ AgentRuns
    \/ Serve \/ Fence \/ SessionEnds

\* The agent's threads keep running (every wait is bounded by io_timeout or the
\* heartbeat interval) and so does the session thread, while it serves.
SessionSpec ==
    /\ SessionInit /\ [][SessionNext]_sessionVars
    /\ WF_sessionVars(AgentRuns)
    /\ WF_sessionVars(Serve)

-----------------------------------------------------------------------------
(* Properties *)

\* The shape of the session.  A request is awaited only by who holds io_mutex.
SessionTypeOK ==
    /\ main \in {"down", "starting", "introduced", "registering", "round", "idle", "failed"}
    /\ left \in 0..Records
    /\ beat \in {"off", "sleeping", "talking", "ended"}
    /\ io \in {"free", "main", "beat"}
    /\ awaiting \in Kinds \cup {"nothing"}
    /\ awaiting = "Heartbeat" <=> io = "beat"
    /\ agentGen \in 0..MaxGen /\ coordGen \in 0..MaxGen
    /\ requests \in Seq(Frame) /\ answers \in Seq(Answer)
    /\ publisher \in {"absent", "active", "fenced"}

\* What an exchange returns is what the coordinator decided about that very
\* request, never a late answer to an earlier one that had timed out.
AnswerIsForThisRequest == concluded \notin {"none", "failed"} => concluded = verdict

\* Both sides are well formed, and an answer is taken only for the request it is to.
SessionInv ==
    /\ SessionTypeOK
    /\ AnswerIsForThisRequest

\* An agent whose exchanges have all gone well is never behind: however rounds
\* and heartbeats alternate, nothing it sends is refused as a stale generation.
UndisturbedIsNeverBehind == undisturbed => verdict # "behind"

\* A revoked agent falls silent: once its boot is fenced the heartbeat thread
\* finds out, closes the connection and ends, whatever was on its way.
RevokedAgentFallsSilent ==
    publisher = "fenced" /\ beat \in {"sleeping", "talking"} ~> ~connected /\ beat = "ended"

\* What the documentation of publish_now states: it republishes the evidence
\* under the current authority.  An agent whose exchanges have all gone well is
\* not refused for the publication generation it presents.
RepublishIsAccepted ==
    undisturbed /\ publisher = "active" => verdict \notin {"behind", "ahead"}
==============================================================================
