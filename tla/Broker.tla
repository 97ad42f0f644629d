------------------------------- MODULE Broker -------------------------------
(***************************************************************************)
(* System mode on Linux: the broker's IPC thread                           *)
(* (crates/session/src/broker.rs), which forwards one capture agent's      *)
(* frames to the viewer, and the agents (crates/session/src/agent.rs), one *)
(* per graphical session, each with its socket reader, its capture-control *)
(* thread, its encode thread and its logind session.                       *)
(*                                                                         *)
(* A session has one agent at a time, which systemd restarts, and a        *)
(* connection is known by its session: a new one is made only when the     *)
(* broker has seen the end of the last.  Payloads, time, the geometry the  *)
(* host core polls, and the commands that neither start nor stop a capture *)
(* (keyframes, bitrate, display and cursor) are left out.                  *)
(***************************************************************************)
EXTENDS Naturals, Sequences, SequencesExt

CONSTANTS
    Sessions,    \* graphical sessions
    NoAgent,     \* NO_AGENT
    Gated,       \* those with RMD_SESSION_LOCK
    Flaky,       \* those where a retry loop may run dry and an agent be killed
    MaxQueue     \* bound: messages waiting in a channel or socket

ASSUME BrokerAssumption ==
    /\ NoAgent \notin Sessions
    /\ Gated \subseteq Sessions /\ Flaky \subseteq Sessions
    /\ MaxQueue \in Nat \ {0}

VARIABLES
    \* the host core, above the VideoPlane
    watched,     \* whether it last asked for capture (a viewer is authorized)
    cmdq,        \* PlaneCmds on their way to the broker
    \* the broker's IPC thread
    pending, active, capturing,
    evq,         \* AgentEvents
    shown,       \* history: the session of the last frame sent to the viewer
    \* the agents
    login,       \* the graphical session: "out", "in", or "over"
    stage,       \* the agent process
    up,          \* its socket, from agent to broker
    down,        \* commands on their way to its capture-control thread: the
                 \* broker's channel, the socket and the thread's own channel in
                 \* one, until "end", behind which the last is closed
    hung,        \* the broker has dropped its end of `down`
    thread,      \* where that thread stands
    agent        \* what it controls: a record

coreVars   == <<watched, cmdq>>
brokerVars == <<pending, active, capturing, evq, shown>>
wireVars   == <<login, stage, up, down, hung>>
agentVars  == <<thread, agent>>
vars == <<coreVars, brokerVars, wireVars, agentVars>>

\* `leaving`: the reader loop is over; `cut`: the last lock or capture start ran
\* out of retries, or the process was killed.  `locked` is logind's LockedHint and
\* outlives the process.
FreshAgent(locked) ==
    [handle |-> FALSE, leaving |-> FALSE, inhibited |-> FALSE,
     cut |-> FALSE, locked |-> locked]

Running(a) == stage[a] \in {"connecting", "connected"}

Init ==
    /\ watched = FALSE /\ cmdq = << >>
    /\ pending = {} /\ active = NoAgent /\ capturing = FALSE
    /\ evq = << >> /\ shown = NoAgent
    /\ login = [a \in Sessions |-> "out"]
    /\ stage = [a \in Sessions |-> "off"]
    /\ up = [a \in Sessions |-> << >>] /\ down = [a \in Sessions |-> << >>]
    /\ hung = [a \in Sessions |-> FALSE]
    /\ thread = [a \in Sessions |-> "none"]
    /\ agent = [a \in Sessions |-> FreshAgent(FALSE)]

-----------------------------------------------------------------------------
(* The host core: commands through the VideoPlane.                          *)

Issue(cmd) == Len(cmdq) < MaxQueue /\ cmdq' = Append(cmdq, cmd)

\* resume on an accepted Hello, pause when the viewer is gone.
Watch(on) ==
    /\ on \/ watched
    /\ Len(cmdq) < MaxQueue /\ \A a \in Sessions : Len(down[a]) < MaxQueue
    /\ cmdq' = Append(cmdq, IF on THEN "start" ELSE "stop")
    /\ watched' = on
    /\ UNCHANGED <<brokerVars, wireVars, agentVars>>

-----------------------------------------------------------------------------
(* broker_loop                                                              *)

\* What an agent that reads no more is told is lost.
Tell(a, msgs) ==
    down' = IF Running(a) /\ ~agent[a].leaving THEN [down EXCEPT ![a] = @ \o msgs] ELSE down

\* The connection gets a control channel and a task; that of a system account
\* would be dropped, but none runs an agent.
Accept(a) ==
    /\ stage[a] = "connecting"
    /\ stage' = [stage EXCEPT ![a] = "connected"]
    /\ pending' = pending \cup {a}
    /\ UNCHANGED <<coreVars, active, capturing, evq, shown, login, up, down, hung,
                   agentVars>>

Event(kind) ==
    /\ evq # << >>
    /\ Head(evq).kind = kind
    /\ evq' = Tail(evq)

\* The agent that says Hello becomes the active one, if it still waits to; the
\* one before loses its control channel.  While a viewer watches it starts.
HangUpMutant(a) == hung   \* mutant: the replaced agent keeps its channel
HangUp(a) == [b \in Sessions |-> hung[b] \/ (b = active /\ b # a)]

GreetMutant(a) == << >>   \* mutant: the new agent waits for the next command
Greet(a) == IF capturing THEN <<"start">> ELSE << >>

HandleHello ==
    /\ Event("hello")
    /\ LET a == Head(evq).from IN
          IF a \in pending
            THEN /\ pending' = pending \ {a}
                 /\ active' = a
                 /\ hung' = HangUp(a)
                 /\ Tell(a, Greet(a))
            ELSE UNCHANGED <<pending, active, hung, down>>
    /\ UNCHANGED <<coreVars, capturing, shown, login, stage, up, agentVars>>

\* Only the end of the active agent leaves the broker without one.
Closes(a) == active = a

HandleClosed ==
    /\ Event("closed")
    /\ LET a == Head(evq).from IN
          /\ pending' = pending \ {a}
          /\ active' = IF Closes(a) THEN NoAgent ELSE active
          /\ stage' = [stage EXCEPT ![a] = "off"]
          /\ down' = [down EXCEPT ![a] = << >>]
          /\ hung' = [hung EXCEPT ![a] = FALSE]
    /\ UNCHANGED <<coreVars, capturing, shown, login, up, agentVars>>

\* SetCapturing is kept for the next agent, and goes to the active one if any.
Commanded ==
    /\ cmdq # << >>
    /\ LET cmd == Head(cmdq) IN
          /\ capturing' = (cmd = "start")
          /\ IF active # NoAgent
               THEN Tell(active, <<cmd>>)
               ELSE UNCHANGED down
    /\ cmdq' = Tail(cmdq)
    /\ UNCHANGED <<watched, pending, active, evq, shown,
                   login, stage, up, hung, agentVars>>

\* agent_conn: the socket's messages in order.
ForwardsMutant(a) == TRUE   \* mutant: whoever sends a frame is shown
Forwards(a) == active = a

ReadAgent(a) ==
    /\ stage[a] \in {"connected", "exited"}
    /\ up[a] # << >>
    /\ up' = [up EXCEPT ![a] = Tail(@)]
    /\ IF Head(up[a]) = "hello"
         THEN /\ evq' = Append(evq, [kind |-> "hello", from |-> a])
              /\ UNCHANGED shown
         ELSE /\ shown' = IF Forwards(a) THEN a ELSE shown
              /\ UNCHANGED evq
    /\ UNCHANGED <<coreVars, pending, active, capturing, login, stage, down,
                   hung, agentVars>>

ReadAgentEnd(a) ==
    /\ stage[a] = "exited"
    /\ up[a] = << >>
    /\ stage' = [stage EXCEPT ![a] = "closing"]
    /\ evq' = Append(evq, [kind |-> "closed", from |-> a])
    /\ UNCHANGED <<coreVars, pending, active, capturing, shown, login,
                   up, down, hung, agentVars>>

-----------------------------------------------------------------------------
(* The graphical session and the agent process systemd runs in it.          *)

LogIn(a) ==
    /\ login[a] = "out"
    /\ login' = [login EXCEPT ![a] = "in"]
    /\ UNCHANGED <<coreVars, brokerVars, stage, up, down, hung, agentVars>>

\* run_agent: it connects, says Hello and starts its threads.  Restart=always
\* repeats this; in a greeter session it exits first, so those have no agent.
StartAgent(a) ==
    /\ login[a] = "in"
    /\ stage[a] = "off"
    /\ stage' = [stage EXCEPT ![a] = "connecting"]
    /\ up' = [up EXCEPT ![a] = <<"hello">>]
    /\ thread' = [thread EXCEPT ![a] = "starting"]
    /\ agent' = [agent EXCEPT ![a] = FreshAgent(@.locked)]
    /\ UNCHANGED <<coreVars, pending, active, capturing, evq, shown, login,
                   down, hung>>

\* The reader loop ends when the broker has hung up and all is read, or on the
\* SIGTERM of a logout, when a part may be unread: a last stop is queued, and the
\* channel closed behind it.
Leaves(a, kept) == down' = [down EXCEPT ![a] = kept \o <<"stop", "end">>]

AgentLeaves(a) ==
    /\ Running(a) /\ ~agent[a].leaving
    /\ \/ /\ hung[a]
          /\ Leaves(a, down[a])
          /\ UNCHANGED login
       \/ /\ login[a] = "in"
          /\ login' = [login EXCEPT ![a] = "over"]
          /\ \E kept \in Prefixes(down[a]) : Leaves(a, kept)
    /\ agent' = [agent EXCEPT ![a].leaving = TRUE]
    /\ UNCHANGED <<coreVars, brokerVars, stage, up, hung, thread>>

\* The process is gone, and its socket with it.
Gone(a) ==
    /\ stage' = [stage EXCEPT ![a] = "exited"]
    /\ thread' = [thread EXCEPT ![a] = "none"]
    /\ down' = [down EXCEPT ![a] = << >>]

\* run_agent_async returns once the capture-control thread is joined.
AgentExits(a) ==
    /\ thread[a] = "done"
    /\ stage[a] # "connecting"
    /\ Gone(a)
    /\ UNCHANGED <<coreVars, brokerVars, login, up, hung, agent>>

\* It may die instead, or be killed when systemd tires of waiting: the capture and
\* the inhibitor go with it, the session stays as it is.
AgentKilled(a) ==
    /\ a \in Flaky
    /\ stage[a] = "connected"
    /\ Gone(a)
    /\ agent' = [agent EXCEPT ![a].handle = FALSE, ![a].inhibited = FALSE, ![a].cut = TRUE]
    /\ UNCHANGED <<coreVars, brokerVars, login, up, hung>>

-----------------------------------------------------------------------------
(* The capture-control thread: SessionGate and CaptureController.  A retry   *)
(* loop is one step, which succeeds or, in a Flaky session, runs dry.              *)

ThreadAt(a, here, next) ==
    /\ thread[a] = here
    /\ thread' = [thread EXCEPT ![a] = next]
    /\ UNCHANGED <<coreVars, brokerVars, login, stage, up, hung>>

\* SessionGate.lock
Lock(a) ==
    IF a \notin Gated THEN UNCHANGED agent
    ELSE \/ agent' = [agent EXCEPT ![a].locked = TRUE, ![a].cut = FALSE]
         \/ /\ a \in Flaky /\ ~agent[a].locked
            /\ agent' = [agent EXCEPT ![a].cut = TRUE]

FirstLock(a) == ThreadAt(a, "starting", "idle") /\ Lock(a) /\ UNCHANGED down

Recv(a, cmd, next) ==
    /\ down[a] # << >>
    /\ Head(down[a]) = cmd
    /\ down' = [down EXCEPT ![a] = Tail(@)]
    /\ ThreadAt(a, "idle", next)

\* SetCapturing(true): SessionGate.unlock, with its idle inhibitor, and then
\* CaptureController.resume until capture runs; a locked session refuses it.
RecvStart(a) == Recv(a, "start", "unlocking") /\ UNCHANGED agent

Unlock(a) ==
    /\ ThreadAt(a, "unlocking", "resuming") /\ UNCHANGED down
    /\ IF a \in Gated
         THEN \/ agent' = [agent EXCEPT ![a].locked = FALSE, ![a].inhibited = TRUE]
              \/ /\ a \in Flaky
                 /\ \E spawned \in BOOLEAN :
                       agent' = [agent EXCEPT ![a].inhibited = @ \/ spawned]
         ELSE UNCHANGED agent
   

Resume(a) ==
    /\ ThreadAt(a, "resuming", "idle") /\ UNCHANGED down
    /\ \/ /\ agent[a].handle \/ a \notin Gated \/ ~agent[a].locked
          /\ agent' = [agent EXCEPT ![a].handle = TRUE]
       \/ /\ ~agent[a].handle /\ (a \in Flaky \/ (a \in Gated /\ agent[a].locked))
          /\ agent' = [agent EXCEPT ![a].cut = TRUE]
   

\* SetCapturing(false): pause, release_idle, lock.
StopsMutant(a) ==   \* mutant: the inhibitor stays
    agent' = [agent EXCEPT ![a].handle = FALSE]
Stops(a) == agent' = [agent EXCEPT ![a].handle = FALSE, ![a].inhibited = FALSE]

RecvStop(a) == Recv(a, "stop", "relocking") /\ Stops(a)

Relock(a) == ThreadAt(a, "relocking", "idle") /\ Lock(a) /\ UNCHANGED down

\* The channel is closed: capture is dropped, and the session locked once more.
RecvEnd(a)  == Recv(a, "end", "ending") /\ Stops(a)
LastLock(a) == ThreadAt(a, "ending", "done") /\ Lock(a) /\ UNCHANGED down

ThreadStep(a) ==
    \/ FirstLock(a) \/ RecvStart(a) \/ Unlock(a) \/ Resume(a)
    \/ RecvStop(a) \/ Relock(a) \/ RecvEnd(a) \/ LastLock(a)

\* The encode and writer threads: a captured frame reaches the socket.
SendFrame(a) ==
    /\ agent[a].handle
    /\ stage[a] = "connected"
    /\ Len(up[a]) < MaxQueue
    /\ up' = [up EXCEPT ![a] = Append(@, "video")]
    /\ UNCHANGED <<coreVars, brokerVars, login, stage, down, hung, agentVars>>

-----------------------------------------------------------------------------

AgentEnvironment(a) == LogIn(a) \/ AgentKilled(a) \/ SendFrame(a)

AgentStep(a) ==
    \/ StartAgent(a) \/ AgentLeaves(a) \/ AgentExits(a)

BrokerStep ==
    \/ HandleHello \/ HandleClosed \/ Commanded
    \/ \E a \in Sessions : Accept(a) \/ ReadAgent(a) \/ ReadAgentEnd(a)

Next ==
    \/ (\E on \in BOOLEAN : Watch(on)) \/ BrokerStep
    \/ \E a \in Sessions : AgentStep(a) \/ ThreadStep(a) \/ AgentEnvironment(a)

Spec == Init /\ [][Next]_vars

\* The threads and tasks run on; nobody is made to log in or out, to watch, or
\* to move on the screen.
Fairness ==
    /\ WF_vars(HandleHello \/ HandleClosed) /\ WF_vars(Commanded)
    /\ \A a \in Sessions :
          /\ WF_vars(Accept(a)) /\ WF_vars(ReadAgent(a) \/ ReadAgentEnd(a))
          /\ WF_vars(StartAgent(a))
          /\ WF_vars(hung[a] /\ AgentLeaves(a)) /\ WF_vars(AgentExits(a))
          /\ WF_vars(ThreadStep(a))

FairSpec == Spec /\ Fairness

-----------------------------------------------------------------------------

TypeOK ==
    /\ watched \in BOOLEAN /\ capturing \in BOOLEAN
    /\ cmdq \in Seq({"start", "stop"})
    /\ pending \subseteq Sessions
    /\ {active, shown} \subseteq Sessions \cup {NoAgent}
    /\ evq \in Seq([kind : {"hello", "closed"}, from : Sessions])
    /\ login \in [Sessions -> {"out", "in", "over"}]
    /\ stage \in [Sessions -> {"off", "connecting", "connected", "exited", "closing"}]
    /\ up \in [Sessions -> Seq({"hello", "video"})]
    /\ hung \in [Sessions -> BOOLEAN]
    /\ down \in [Sessions -> Seq({"start", "stop", "end"})]
    /\ thread \in [Sessions -> {"none", "starting", "idle", "unlocking", "resuming",
                                "relocking", "ending", "done"}]
    /\ agent \in [Sessions -> [handle : BOOLEAN, leaving : BOOLEAN,
                               inhibited : BOOLEAN, cut : BOOLEAN, locked : BOOLEAN]]

\* An agent that was replaced still captures, sends and at last closes.  The viewer's
\* picture never changes to one of its frames, and its end, however late, does not
\* leave the broker without the agent that replaced it (the active_id checks).
OnlyTheActiveCounts ==
    [][ /\ shown' # shown => ~hung[shown']
        /\ active # NoAgent /\ active' = NoAgent => stage[active] = "closing" ]_vars

\* "Never leave the session unlocked behind us": with lock-gating, a session whose
\* agent is at rest or has ended is locked, and free of the idle inhibitor, unless
\* it is captured or the agent was cut short.
LockedAtRest ==
    \A a \in Gated :
        login[a] # "out" /\ thread[a] \in {"none", "idle", "done"}
          /\ ~agent[a].handle /\ ~agent[a].cut
          /\ stage[a] # "off"
        => agent[a].locked /\ ~agent[a].inhibited

\* When the last viewer is gone, every agent stops capturing for good, the
\* replaced ones too, though only the active one is told.
CaptureEndsWithTheViewer ==
    <>[]~watched => <>[](\A a \in Sessions : ~agent[a].handle)

\* A handover while a viewer watches brings its picture back: the active agent
\* captures, unless its retries ran out or it is on its way out.
HandoverResumes ==
    \A a \in Sessions :
        watched /\ active = a
          ~> \/ ~watched \/ active # a \/ agent[a].handle
             \/ agent[a].cut \/ agent[a].leaving

-----------------------------------------------------------------------------
(* What the source's comments say and the code does not keep.               *)

\* "The new agent connects, becomes the active provider, and the video continues"
\* (broker.rs:9-11).  Not while two sessions are logged in: the replaced agent exits,
\* systemd restarts it, and its Hello takes the broker back, without end.
HandoverSettles ==
    \E a \in Sessions \cup {NoAgent} : <>[](active = a)

\* "Never stream the screen to an unauthorized peer" (the encode thread's check in
\* host.rs): in system mode no encode thread is asked, and the active agent's frames
\* go to the transport until it has heard of the stop.
StreamsOnlyWhileCapturing ==
    [][\A a \in Sessions :
          active = a /\ up'[a] # up[a] /\ Len(up'[a]) < Len(up[a])
            /\ Head(up[a]) = "video" => capturing]_vars
=============================================================================
