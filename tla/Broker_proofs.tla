----------------------------- MODULE Broker_proofs -----------------------------
(***************************************************************************)
(* For every set of graphical sessions, locked or not, whose agents die or *)
(* run out of retries or not: only the active agent counts, and no session *)
(* is left unlocked behind an agent at rest.                               *)
(*                                                                         *)
(* The first goes by the order of connections and events: an agent that    *)
(* waits in `pending` has not been hung up on, and the end of a connection *)
(* is reported once.  The second, by where the capture-control thread is.  *)
(***************************************************************************)
EXTENDS Broker, SequenceTheorems, TLAPS

Commands == {"start", "stop", "end"}
Events   == [kind : {"hello", "closed"}, from : Sessions]
Agents   == [handle : BOOLEAN, leaving : BOOLEAN, inhibited : BOOLEAN, cut : BOOLEAN,
             locked : BOOLEAN]

\* The agent the broker shows, and those that wait to be, still have their channel.
Channels ==
    /\ active \in Sessions => ~hung[active] /\ active \notin pending
    /\ \A a \in pending : ~hung[a]
    /\ \A a \in Sessions : stage[a] \in {"off", "connecting"} =>
          ~hung[a] /\ a \notin pending /\ active # a

\* A process that is gone has no thread.
Threads ==
    \A a \in Sessions : stage[a] \in {"off", "exited", "closing"} => thread[a] = "none"

\* The end of a connection is on its way to the broker's loop once.
ClosedOnce ==
    /\ \A i \in 1..Len(evq) : evq[i].kind = "closed" => stage[evq[i].from] = "closing"
    /\ \A i, j \in 1..Len(evq) :
          evq[i].kind = "closed" /\ evq[j].kind = "closed" /\ evq[i].from = evq[j].from => i = j

Connected == Channels /\ Threads /\ ClosedOnce

\* What the thread has done to the session by the time it is there.
Rested ==
    \A a \in Gated :
        /\ thread[a] \in {"starting", "relocking", "ending"} =>
              ~agent[a].handle /\ ~agent[a].inhibited
        /\ thread[a] \in {"none", "idle", "done"} /\ stage[a] # "off"
              /\ ~agent[a].handle /\ ~agent[a].cut
           => agent[a].locked /\ ~agent[a].inhibited

-----------------------------------------------------------------------------
(* Type correctness.                                                        *)

USE BrokerAssumption

\* The queues hold what they should.
Queues ==
    /\ evq \in Seq(Events)
    /\ cmdq \in Seq({"start", "stop"})
    /\ down \in [Sessions -> Seq(Commands)]
    /\ up \in [Sessions -> Seq({"hello", "video"})]

LEMMA TypeInit == Init => TypeOK
<1>1. \A locked \in BOOLEAN : FreshAgent(locked) \in Agents
  BY DEF FreshAgent, Agents
<1>2. Init => agent \in [Sessions -> Agents]
  BY <1>1, ZenonT(60) DEF Init
<1>3. Init => Queues
  BY DEF Init, Queues
<1> QED
  BY <1>2, <1>3 DEF Init, TypeOK, Queues, Agents, Events, Commands

LEMMA QueuesTyped == TypeOK => Queues
  BY DEF TypeOK, Queues, Events, Commands

\* What is put on the wire to an agent is a command.
LEMMA Told ==
  ASSUME Queues, NEW a \in Sessions, NEW msgs \in Seq(Commands), Tell(a, msgs)
  PROVE  down' \in [Sessions -> Seq(Commands)]
<1>1. down[a] \o msgs \in Seq(Commands)
  BY ConcatProperties DEF Queues
<1> QED
  BY <1>1 DEF Tell, Queues

\* An event is taken from the head of the queue.
LEMMA EventTaken ==
  ASSUME Queues, NEW kind, Event(kind)
  PROVE  /\ Head(evq).from \in Sessions /\ Head(evq).kind = kind
         /\ evq' = Tail(evq) /\ evq' \in Seq(Events)
         /\ Len(evq) \in Nat /\ Len(evq) > 0 /\ Head(evq) = evq[1]
         /\ Len(evq') = Len(evq) - 1
         /\ \A i \in 1..Len(evq') : evq'[i] = evq[i + 1]
<1>1. evq # << >> /\ Head(evq).kind = kind /\ evq' = Tail(evq)
  BY DEF Event
<1>2. Head(evq) \in Events /\ Tail(evq) \in Seq(Events)
  BY <1>1, HeadTailProperties DEF Queues
<1>3. Head(evq).from \in Sessions
  BY <1>2 DEF Events
<1> QED
  BY <1>1, <1>2, <1>3 DEF Queues

LEMMA TypeBroker ==
  ASSUME TypeOK, BrokerStep
  PROVE  TypeOK'
<1> USE QueuesTyped DEF coreVars, agentVars
<1>1. CASE HandleHello
  <2> DEFINE a == Head(evq).from
  <2>1. a \in Sessions /\ evq' \in Seq(Events)
    BY <1>1, EventTaken DEF HandleHello
  <2>2. down' \in [Sessions -> Seq(Commands)]
    <3>1. CASE UNCHANGED down
      BY <3>1 DEF Queues
    <3>2. CASE Tell(a, Greet(a))
      <4>1. "start" \in Commands
        BY DEF Commands
      <4>2. Greet(a) \in Seq(Commands)
        BY <4>1 DEF Greet
      <4> QED
        BY <2>1, <3>2, <4>2, Told
    <3> QED
      BY <1>1, <3>1, <3>2 DEF HandleHello
  <2>3. /\ pending' \subseteq Sessions /\ active' \in Sessions \cup {NoAgent}
        /\ hung' \in [Sessions -> BOOLEAN]
    BY <1>1, <2>1 DEF HandleHello, HangUp, TypeOK
  <2> QED
    BY <1>1, <2>1, <2>2, <2>3 DEF HandleHello, TypeOK, Commands, Events
<1>2. CASE HandleClosed
  <2>1. Head(evq).from \in Sessions /\ evq' \in Seq(Events)
    BY <1>2, EventTaken DEF HandleClosed
  <2> QED
    BY <1>2, <2>1 DEF HandleClosed, Closes, Events, TypeOK
<1>3. CASE Commanded
  <2>1. /\ Head(cmdq) \in {"start", "stop"} /\ cmdq' \in Seq({"start", "stop"})
        /\ capturing' \in BOOLEAN
    BY <1>3 DEF Commanded, Queues
  <2>2. down' \in [Sessions -> Seq(Commands)]
    <3>1. CASE UNCHANGED down
      BY <3>1 DEF Queues
    <3>2. CASE active # NoAgent
      <4>1. <<Head(cmdq)>> \in Seq(Commands) /\ active \in Sessions
        BY <2>1, <3>2 DEF Commands, TypeOK
      <4>2. Tell(active, <<Head(cmdq)>>)
        BY <1>3, <3>2 DEF Commanded
      <4> QED
        BY <4>1, <4>2, Told
    <3> QED
      BY <1>3, <3>1, <3>2 DEF Commanded
  <2> QED
    BY <1>3, <2>1, <2>2 DEF Commanded, Commands, TypeOK
<1>4. ASSUME NEW a \in Sessions, Accept(a)
      PROVE  TypeOK'
  BY <1>4 DEF Accept, TypeOK
<1>5. ASSUME NEW a \in Sessions, ReadAgent(a)
      PROVE  TypeOK'
  <2>1. up' \in [Sessions -> Seq({"hello", "video"})]
    BY <1>5 DEF ReadAgent, TypeOK
  <2>2. evq' \in Seq(Events) /\ shown' \in Sessions \cup {NoAgent}
    <3>1. CASE Head(up[a]) = "hello"
      <4>1. [kind |-> "hello", from |-> a] \in Events
        BY DEF Events
      <4>2. evq' = Append(evq, [kind |-> "hello", from |-> a]) /\ UNCHANGED shown
        BY <1>5, <3>1 DEF ReadAgent
      <4>3. evq' \in Seq(Events)
        BY <4>1, <4>2, AppendProperties DEF Queues
      <4> QED
        BY <4>2, <4>3 DEF TypeOK
    <3>2. CASE Head(up[a]) # "hello"
      BY <1>5, <3>2 DEF ReadAgent, Queues, TypeOK
    <3> QED
      BY <3>1, <3>2
  <2> QED
    BY <1>5, <2>1, <2>2 DEF ReadAgent, Events, TypeOK
<1>6. ASSUME NEW a \in Sessions, ReadAgentEnd(a)
      PROVE  TypeOK'
  BY <1>6 DEF ReadAgentEnd, TypeOK
<1> QED
  BY <1>1, <1>2, <1>3, <1>4, <1>5, <1>6 DEF BrokerStep

LEMMA TypeThread ==
  ASSUME TypeOK, NEW a \in Sessions, ThreadStep(a)
  PROVE  TypeOK'
<1>1. /\ \E next \in {"idle", "unlocking", "resuming", "relocking", "ending", "done"} :
            thread' = [thread EXCEPT ![a] = next]
      /\ UNCHANGED <<coreVars, brokerVars, login, stage, up, hung>>
  BY DEF ThreadStep, FirstLock, RecvStart, Unlock, Resume, RecvStop, Relock, RecvEnd,
     LastLock, Recv, ThreadAt
<1>2. down' \in [Sessions -> Seq(Commands)]
  <2>1. CASE UNCHANGED down
    BY <2>1, QueuesTyped DEF Queues
  <2>2. CASE down[a] # << >> /\ down' = [down EXCEPT ![a] = Tail(@)]
    <3> Tail(down[a]) \in Seq(Commands)
      BY <2>2, QueuesTyped DEF Queues
    <3> QED
      BY <2>2, QueuesTyped DEF Queues
  <2> QED
    BY <2>1, <2>2 DEF ThreadStep, FirstLock, RecvStart, Unlock, Resume, RecvStop, Relock,
       RecvEnd, LastLock, Recv
<1>3. agent' \in [Sessions -> Agents]
  <2>1. agent \in [Sessions -> Agents]
    BY DEF TypeOK, Agents
  <2>2. CASE UNCHANGED agent
    BY <2>1, <2>2
  <2>3. CASE Lock(a)
    <3>1. CASE agent' = [agent EXCEPT ![a].locked = TRUE, ![a].cut = FALSE]
      BY <2>1, <3>1 DEF Agents
    <3>2. CASE agent' = [agent EXCEPT ![a].cut = TRUE]
      BY <2>1, <3>2 DEF Agents
    <3> QED
      BY <2>2, <2>3, <3>1, <3>2 DEF Lock
  <2>4. CASE Unlock(a)
    <3>1. CASE agent' = [agent EXCEPT ![a].locked = FALSE, ![a].inhibited = TRUE]
      BY <2>1, <3>1 DEF Agents
    <3>2. ASSUME NEW spawned \in BOOLEAN,
                 agent' = [agent EXCEPT ![a].inhibited = @ \/ spawned]
          PROVE  agent' \in [Sessions -> Agents]
      BY <2>1, <3>2 DEF Agents
    <3> QED
      BY <2>2, <2>4, <3>1, <3>2 DEF Unlock
  <2>5. CASE Resume(a)
    BY <2>1, <2>5, ZenonT(60) DEF Resume, Agents
  <2>6. CASE Stops(a)
    BY <2>1, <2>6 DEF Stops, Agents
  <2> QED
    BY <2>2, <2>3, <2>4, <2>5, <2>6 DEF ThreadStep, FirstLock, RecvStart, RecvStop, Relock,
       RecvEnd, LastLock
<1>4. thread' \in [Sessions -> {"none", "starting", "idle", "unlocking", "resuming",
                                "relocking", "ending", "done"}]
  BY <1>1 DEF TypeOK
<1> QED
  BY <1>1, <1>2, <1>3, <1>4 DEF TypeOK, Commands, Agents, coreVars, brokerVars

LEMMA TypeAgent ==
  ASSUME TypeOK, NEW a \in Sessions, AgentStep(a) \/ AgentEnvironment(a)
  PROVE  TypeOK'
<1> USE DEF coreVars, brokerVars, agentVars
<1>1. CASE StartAgent(a)
  <2>1. up' \in [Sessions -> Seq({"hello", "video"})]
    BY <1>1 DEF StartAgent, TypeOK
  <2>2. agent' \in [Sessions -> Agents]
    BY <1>1 DEF StartAgent, TypeOK, FreshAgent, Agents
  <2> QED
    BY <1>1, <2>1, <2>2 DEF StartAgent, TypeOK, Agents
<1>2. CASE AgentLeaves(a)
  <2>1. down[a] \in Seq(Commands)
    BY QueuesTyped DEF Queues
  <2>2. ASSUME NEW l \in 0..Len(down[a])
        PROVE  SubSeq(down[a], 1, l) \in Seq(Commands)
    BY <2>1
  <2>3. \A kept \in Prefixes(down[a]) : kept \in Seq(Commands)
    BY <2>2 DEF Prefixes
  <2>4. down' \in [Sessions -> Seq(Commands)]
    <3>1. PICK kept \in Seq(Commands) :
             down' = [down EXCEPT ![a] = kept \o <<"stop", "end">>]
      BY <1>2, <2>1, <2>3 DEF AgentLeaves, Leaves
    <3>2. <<"stop", "end">> \in Seq(Commands)
      BY DEF Commands
    <3>3. kept \o <<"stop", "end">> \in Seq(Commands)
      BY <3>2, ConcatProperties
    <3> QED
      BY <3>1, <3>3, QueuesTyped DEF Queues
  <2>5. agent' \in [Sessions -> Agents]
    <3>1. agent \in [Sessions -> Agents]
      BY DEF TypeOK, Agents
    <3> QED
      BY <1>2, <3>1 DEF AgentLeaves, Agents
  <2> QED
    BY <1>2, <2>4, <2>5 DEF AgentLeaves, TypeOK, Commands, Agents
<1>3. CASE AgentExits(a)
  BY <1>3 DEF AgentExits, Gone, TypeOK
<1>4. CASE LogIn(a)
  BY <1>4 DEF LogIn, TypeOK
<1>5. CASE AgentKilled(a)
  <2>1. agent \in [Sessions -> Agents]
    BY DEF TypeOK, Agents
  <2>2. agent' \in [Sessions -> Agents]
    BY <1>5, <2>1, ZenonT(60) DEF AgentKilled, Agents
  <2> QED
    BY <1>5, <2>2 DEF AgentKilled, Gone, TypeOK, Agents
<1>6. CASE SendFrame(a)
  <2>1. up' \in [Sessions -> Seq({"hello", "video"})]
    BY <1>6, AppendProperties DEF SendFrame, TypeOK
  <2> QED
    BY <1>6, <2>1 DEF SendFrame, TypeOK
<1> QED
  BY <1>1, <1>2, <1>3, <1>4, <1>5, <1>6 DEF AgentStep, AgentEnvironment

LEMMA TypeNext == TypeOK /\ [Next]_vars => TypeOK'
<1> SUFFICES ASSUME TypeOK, [Next]_vars PROVE TypeOK'
  OBVIOUS
<1>1. ASSUME NEW on \in BOOLEAN, Watch(on)
      PROVE  TypeOK'
  <2>1. cmdq' \in Seq({"start", "stop"})
    BY <1>1 DEF Watch, TypeOK
  <2> QED
    BY <1>1, <2>1 DEF Watch, TypeOK, brokerVars, wireVars, agentVars
<1>2. CASE UNCHANGED vars
  BY <1>2 DEF vars, coreVars, brokerVars, wireVars, agentVars, TypeOK
<1> QED
  BY <1>1, <1>2, TypeBroker, TypeThread, TypeAgent DEF Next

\* The broker's queues hold events and commands, an agent's socket its messages, and
\* every thread stands where the source lets it.
THEOREM TypeCorrect == Spec => []TypeOK
  BY TypeInit, TypeNext, PTL DEF Spec

-----------------------------------------------------------------------------
(* Connections and their events.                                            *)

\* One event more, at the end of the queue.
LEMMA EventSent ==
  ASSUME Queues, NEW e \in Events, evq' = Append(evq, e)
  PROVE  /\ Len(evq) \in Nat /\ Len(evq') = Len(evq) + 1
         /\ evq'[Len(evq) + 1] = e
         /\ \A i \in 1..Len(evq) : evq'[i] = evq[i]
  BY AppendProperties DEF Queues

LEMMA ConnectedBroker ==
  ASSUME TypeOK, Connected, BrokerStep
  PROVE  Connected'
<1> USE QueuesTyped DEF Connected
<1>1. CASE HandleHello
  <2>1. /\ Len(evq) \in Nat /\ Len(evq') = Len(evq) - 1
        /\ \A i \in 1..Len(evq') : evq'[i] = evq[i + 1]
        /\ Head(evq).from \in Sessions
    BY <1>1, EventTaken DEF HandleHello
  <2>2. UNCHANGED <<stage, thread>>
    BY <1>1 DEF HandleHello, agentVars
  <2>3. ClosedOnce'
    BY <2>1, <2>2, SMTT(60) DEF ClosedOnce
  <2>4. Channels'
    <3> DEFINE a == Head(evq).from
    <3>1. CASE a \in pending
      <4>1. /\ pending' = pending \ {a} /\ active' = a
            /\ \A b \in Sessions : hung'[b] = (hung[b] \/ (b = active /\ b # a))
        BY <1>1, <3>1 DEF HandleHello, HangUp
      <4>2. ~hung[a] /\ stage[a] \notin {"off", "connecting"} /\ pending \subseteq Sessions
        BY <2>1, <3>1 DEF Channels, TypeOK
      <4> HIDE DEF a
      <4> QED
        BY <2>2, <4>1, <4>2 DEF Channels, TypeOK
    <3>2. CASE a \notin pending
      <4> UNCHANGED <<pending, active, hung>>
        BY <1>1, <3>2 DEF HandleHello
      <4> QED
        BY <2>2 DEF Channels
    <3> QED
      BY <3>1, <3>2
  <2> QED
    BY <2>2, <2>3, <2>4 DEF Threads
<1>2. CASE HandleClosed
  <2> DEFINE a == Head(evq).from
  <2>1. /\ Len(evq) \in Nat /\ Len(evq) > 0 /\ Len(evq') = Len(evq) - 1
        /\ \A i \in 1..Len(evq') : evq'[i] = evq[i + 1]
        /\ a \in Sessions /\ evq[1].from = a /\ evq[1].kind = "closed"
    BY <1>2, EventTaken DEF HandleClosed
  <2>2. /\ pending' = pending \ {a}
        /\ active' = IF active = a THEN NoAgent ELSE active
        /\ stage' = [stage EXCEPT ![a] = "off"]
        /\ hung' = [hung EXCEPT ![a] = FALSE]
        /\ UNCHANGED thread
    BY <1>2 DEF HandleClosed, Closes, agentVars
  <2> HIDE DEF a
  <2>3. stage[a] = "closing" /\ thread[a] = "none"
    BY <2>1 DEF ClosedOnce, Threads
  <2>4. \A i \in 1..Len(evq') : evq'[i].kind = "closed" => evq'[i].from # a
    <3> SUFFICES ASSUME NEW i \in 1..Len(evq'), evq'[i].kind = "closed", evq'[i].from = a
                 PROVE  FALSE
      OBVIOUS
    <3>1. i + 1 \in 1..Len(evq) /\ 1 \in 1..Len(evq) /\ i + 1 # 1
      BY <2>1
    <3> QED
      BY <2>1, <3>1 DEF ClosedOnce
  <2>5. ClosedOnce'
    <3>1. \A i \in 1..Len(evq') : i + 1 \in 1..Len(evq)
      BY <2>1
    <3>2. \A i \in 1..Len(evq') : evq'[i].kind = "closed" => stage'[evq'[i].from] = "closing"
      <4> SUFFICES ASSUME NEW i \in 1..Len(evq'), evq'[i].kind = "closed"
                   PROVE  stage'[evq'[i].from] = "closing"
        OBVIOUS
      <4>1. evq'[i] = evq[i + 1] /\ stage[evq[i + 1].from] = "closing"
        BY <2>1, <3>1 DEF ClosedOnce
      <4>2. evq'[i].from # a
        BY <2>4
      <4>3. evq'[i].from \in Sessions
        <5>1. evq[i + 1] \in Events
          BY <3>1, QueuesTyped, ElementOfSeq DEF Queues
        <5> QED
          BY <4>1, <5>1 DEF Events
      <4> QED
        BY <2>2, <4>1, <4>2, <4>3 DEF TypeOK
    <3>3. \A i, j \in 1..Len(evq') :
             evq'[i].kind = "closed" /\ evq'[j].kind = "closed" /\ evq'[i].from = evq'[j].from
             => i + 1 = j + 1
      BY <2>1, <3>1 DEF ClosedOnce
    <3> QED
      BY <2>1, <3>2, <3>3 DEF ClosedOnce
  <2>6. Channels'
    BY <2>1, <2>2 DEF Channels, TypeOK
  <2>7. Threads'
    BY <2>2, <2>3 DEF Threads, TypeOK
  <2> QED
    BY <2>5, <2>6, <2>7
<1>3. CASE Commanded
  BY <1>3 DEF Commanded, Channels, Threads, ClosedOnce, agentVars
<1>4. ASSUME NEW a \in Sessions, Accept(a)
      PROVE  Connected'
  <2>1. /\ stage[a] = "connecting" /\ stage' = [stage EXCEPT ![a] = "connected"]
        /\ pending' = pending \cup {a}
        /\ UNCHANGED <<active, evq, hung, thread>>
    BY <1>4 DEF Accept, agentVars
  <2>2. Channels'
    BY <2>1 DEF Channels, TypeOK
  <2>3. Threads'
    BY <2>1 DEF Threads, TypeOK
  <2>4. ClosedOnce'
    BY <2>1, QueuesTyped DEF ClosedOnce, TypeOK
  <2> QED
    BY <2>2, <2>3, <2>4
<1>5. ASSUME NEW a \in Sessions, ReadAgent(a)
      PROVE  Connected'
  <2>1. UNCHANGED <<pending, active, hung, stage, thread>>
    BY <1>5 DEF ReadAgent, agentVars
  <2>2. ClosedOnce'
    <3>1. CASE UNCHANGED evq
      BY <2>1, <3>1 DEF ClosedOnce
    <3>2. CASE evq' = Append(evq, [kind |-> "hello", from |-> a])
      <4>1. [kind |-> "hello", from |-> a] \in Events
        BY DEF Events
      <4>2. /\ Len(evq) \in Nat /\ Len(evq') = Len(evq) + 1
            /\ evq'[Len(evq) + 1].kind = "hello"
            /\ \A i \in 1..Len(evq) : evq'[i] = evq[i]
        BY <3>2, <4>1, EventSent
      <4> QED
        BY <2>1, <4>2 DEF ClosedOnce
    <3> QED
      BY <1>5, <3>1, <3>2 DEF ReadAgent
  <2> QED
    BY <2>1, <2>2 DEF Channels, Threads
<1>6. ASSUME NEW a \in Sessions, ReadAgentEnd(a)
      PROVE  Connected'
  <2>1. /\ stage[a] = "exited" /\ stage' = [stage EXCEPT ![a] = "closing"]
        /\ evq' = Append(evq, [kind |-> "closed", from |-> a])
        /\ UNCHANGED <<pending, active, hung, thread>>
    BY <1>6 DEF ReadAgentEnd, agentVars
  <2>2. ClosedOnce'
    <3>1. [kind |-> "closed", from |-> a] \in Events
      BY DEF Events
    <3>2. /\ Len(evq) \in Nat /\ Len(evq') = Len(evq) + 1
          /\ evq'[Len(evq) + 1].from = a
          /\ \A i \in 1..Len(evq) : evq'[i] = evq[i] /\ evq[i] \in Events
      BY <2>1, <3>1, EventSent, ElementOfSeq DEF Queues
    <3>3. \A i \in 1..Len(evq) : evq[i].kind = "closed" => evq[i].from # a
      BY <2>1 DEF ClosedOnce
    <3> QED
      BY <2>1, <3>2, <3>3, SMTT(60) DEF ClosedOnce, TypeOK
  <2>3. Channels' /\ Threads'
    BY <2>1 DEF Channels, Threads, TypeOK
  <2> QED
    BY <2>2, <2>3
<1> QED
  BY <1>1, <1>2, <1>3, <1>4, <1>5, <1>6 DEF BrokerStep

LEMMA ConnectedAgent ==
  ASSUME TypeOK, Connected, NEW a \in Sessions,
         AgentStep(a) \/ AgentEnvironment(a) \/ ThreadStep(a)
  PROVE  Connected'
<1> USE DEF Connected
<1>1. UNCHANGED <<pending, active, evq, hung>>
  BY DEF AgentStep, AgentEnvironment, ThreadStep, StartAgent, AgentLeaves, AgentExits, LogIn,
     AgentKilled, SendFrame, FirstLock, RecvStart, Unlock, Resume, RecvStop, Relock, RecvEnd,
     LastLock, Recv, ThreadAt, brokerVars
<1>2. CASE StartAgent(a)
  <2>1. /\ stage[a] = "off" /\ stage' = [stage EXCEPT ![a] = "connecting"]
        /\ thread' = [thread EXCEPT ![a] = "starting"]
    BY <1>2 DEF StartAgent
  <2> QED
    BY <1>1, <2>1 DEF Channels, Threads, ClosedOnce, TypeOK
<1>3. CASE AgentExits(a) \/ AgentKilled(a)
  <2>1. /\ stage[a] \notin {"off", "connecting", "exited", "closing"}
        /\ stage' = [stage EXCEPT ![a] = "exited"]
        /\ thread' = [thread EXCEPT ![a] = "none"]
    BY <1>3 DEF AgentExits, AgentKilled, Gone, Threads
  <2> QED
    BY <1>1, <2>1 DEF Channels, Threads, ClosedOnce, TypeOK
<1>4. CASE AgentLeaves(a) \/ LogIn(a) \/ SendFrame(a)
  BY <1>1, <1>4 DEF AgentLeaves, LogIn, SendFrame, agentVars, Channels, Threads, ClosedOnce
<1>5. CASE ThreadStep(a)
  <2>1. UNCHANGED stage /\ thread[a] # "none"
        /\ \A b \in Sessions : b # a => thread'[b] = thread[b]
    BY <1>5 DEF TypeOK, ThreadStep, FirstLock, RecvStart, Unlock, Resume, RecvStop, Relock,
       RecvEnd, LastLock, Recv, ThreadAt
  <2> QED
    BY <1>1, <2>1 DEF Channels, Threads, ClosedOnce
<1> QED
  BY <1>2, <1>3, <1>4, <1>5 DEF AgentStep, AgentEnvironment

LEMMA ConnectedNext == TypeOK /\ Connected /\ [Next]_vars => Connected'
<1> SUFFICES ASSUME TypeOK, Connected, [Next]_vars PROVE Connected'
  OBVIOUS
<1>1. ASSUME NEW on \in BOOLEAN, Watch(on)
      PROVE  Connected'
  BY <1>1 DEF Watch, brokerVars, wireVars, agentVars, Connected, Channels, Threads, ClosedOnce
<1>2. CASE UNCHANGED vars
  BY <1>2 DEF vars, brokerVars, wireVars, agentVars, Connected, Channels, Threads, ClosedOnce
<1> QED
  BY <1>1, <1>2, ConnectedBroker, ConnectedAgent DEF Next

LEMMA ConnectedInit == Init => Connected
  BY DEF Init, Connected, Channels, Threads, ClosedOnce

-----------------------------------------------------------------------------
(* What the thread leaves of the session.                                   *)

\* Lock succeeds, or it is noted that it did not.
LEMMA LockDoes ==
  ASSUME agent \in [Sessions -> Agents], NEW a \in Gated, Lock(a)
  PROVE  /\ agent'[a].handle = agent[a].handle /\ agent'[a].inhibited = agent[a].inhibited
         /\ agent'[a].locked \/ agent'[a].cut
<1>1. a \in Sessions
  OBVIOUS
<1>2. CASE agent' = [agent EXCEPT ![a].locked = TRUE, ![a].cut = FALSE]
  BY <1>1, <1>2 DEF Agents
<1>3. CASE agent' = [agent EXCEPT ![a].cut = TRUE]
  BY <1>1, <1>3 DEF Agents
<1> QED
  BY <1>2, <1>3 DEF Lock

LEMMA ThreadFrame ==
  ASSUME TypeOK, NEW a \in Sessions, ThreadStep(a)
  PROVE  /\ \A b \in Sessions : b # a => thread'[b] = thread[b] /\ agent'[b] = agent[b]
         /\ UNCHANGED stage
<1>1. /\ \A b \in Sessions : b # a => thread'[b] = thread[b]
      /\ UNCHANGED stage
  BY DEF TypeOK, ThreadStep, FirstLock, RecvStart, Unlock, Resume, RecvStop, Relock, RecvEnd,
     LastLock, Recv, ThreadAt
<1>2. \A b \in Sessions : b # a => agent'[b] = agent[b]
  BY DEF TypeOK, ThreadStep, FirstLock, RecvStart, Unlock, Resume, RecvStop, Relock, RecvEnd,
     LastLock, Lock, Stops
<1> QED
  BY <1>1, <1>2

\* One session's part of Rested.
RestedAt(a) ==
    /\ thread[a] \in {"starting", "relocking", "ending"} =>
          ~agent[a].handle /\ ~agent[a].inhibited
    /\ thread[a] \in {"none", "idle", "done"} /\ stage[a] # "off"
          /\ ~agent[a].handle /\ ~agent[a].cut
       => agent[a].locked /\ ~agent[a].inhibited

LEMMA RestedThread ==
  ASSUME TypeOK, Rested, NEW a \in Sessions, ThreadStep(a)
  PROVE  Rested'
<1>1. agent \in [Sessions -> Agents] /\ agent' \in [Sessions -> Agents]
  BY TypeThread DEF TypeOK, Agents
<1>2. ASSUME NEW b \in Gated, b # a
      PROVE  RestedAt(b)'
  BY <1>2, ThreadFrame DEF Rested, RestedAt
<1>3. ASSUME a \in Gated
      PROVE  RestedAt(a)'
  <2>1. RestedAt(a)
    BY <1>3 DEF Rested, RestedAt
  <2>2. CASE FirstLock(a) \/ Relock(a) \/ LastLock(a)
    <3>1. /\ thread[a] \in {"starting", "relocking", "ending"}
          /\ thread'[a] \in {"idle", "done"} /\ Lock(a)
      BY <2>2 DEF FirstLock, Relock, LastLock, ThreadAt, TypeOK
    <3> QED
      BY <1>1, <1>3, <2>1, <3>1, LockDoes DEF RestedAt
  <2>3. CASE RecvStart(a)
    <3>1. thread'[a] = "unlocking"
      BY <2>3 DEF RecvStart, Recv, ThreadAt, TypeOK
    <3> QED
      BY <3>1 DEF RestedAt
  <2>4. CASE Unlock(a)
    <3>1. thread'[a] = "resuming"
      BY <2>4 DEF Unlock, ThreadAt, TypeOK
    <3> QED
      BY <3>1 DEF RestedAt
  <2>5. CASE Resume(a)
    <3>1. thread'[a] = "idle"
      BY <2>5 DEF Resume, ThreadAt, TypeOK
    <3>2. agent'[a].handle \/ agent'[a].cut
      BY <1>1, <2>5 DEF Resume, Agents
    <3> QED
      BY <3>1, <3>2 DEF RestedAt
  <2>6. CASE RecvStop(a) \/ RecvEnd(a)
    <3>1. thread'[a] \in {"relocking", "ending"} /\ Stops(a)
      BY <2>6 DEF RecvStop, RecvEnd, Recv, ThreadAt, TypeOK
    <3>2. ~agent'[a].handle /\ ~agent'[a].inhibited
      BY <1>1, <3>1 DEF Stops, Agents
    <3> QED
      BY <3>1, <3>2 DEF RestedAt
  <2> QED
    BY <2>2, <2>3, <2>4, <2>5, <2>6 DEF ThreadStep
<1> QED
  BY <1>2, <1>3 DEF Rested, RestedAt

\* A process starts before its first lock, and one that ends early is noted.
LEMMA RestedAgent ==
  ASSUME TypeOK, Threads, Rested, NEW a \in Sessions, AgentStep(a) \/ AgentEnvironment(a)
  PROVE  Rested'
<1>1. agent \in [Sessions -> Agents]
  BY DEF TypeOK, Agents
<1>2. CASE StartAgent(a)
  <2>1. /\ thread'[a] = "starting" /\ ~agent'[a].handle /\ ~agent'[a].inhibited
        /\ \A b \in Sessions : b # a =>
             thread'[b] = thread[b] /\ agent'[b] = agent[b] /\ stage'[b] = stage[b]
    BY <1>1, <1>2 DEF StartAgent, TypeOK, FreshAgent
  <2> QED
    BY <2>1 DEF Rested
<1>3. CASE AgentLeaves(a)
  <2>1. /\ agent'[a].handle = agent[a].handle /\ agent'[a].inhibited = agent[a].inhibited
        /\ agent'[a].cut = agent[a].cut /\ agent'[a].locked = agent[a].locked
        /\ \A b \in Sessions : b # a => agent'[b] = agent[b]
    BY <1>1, <1>3 DEF AgentLeaves, Agents
  <2>2. UNCHANGED <<stage, thread>>
    BY <1>3 DEF AgentLeaves
  <2> QED
    BY <2>1, <2>2 DEF Rested
<1>4. CASE AgentExits(a)
  <2>1. /\ thread[a] = "done" /\ thread' = [thread EXCEPT ![a] = "none"]
        /\ stage' = [stage EXCEPT ![a] = "exited"] /\ UNCHANGED agent
    BY <1>4 DEF AgentExits, Gone
  <2>2. stage[a] # "off"
    BY <2>1 DEF Threads
  <2> QED
    BY <2>1, <2>2 DEF Rested, TypeOK
<1>5. CASE AgentKilled(a)
  <2>1. /\ agent'[a].cut
        /\ thread'[a] = "none"
        /\ \A b \in Sessions : b # a =>
             thread'[b] = thread[b] /\ agent'[b] = agent[b] /\ stage'[b] = stage[b]
    BY <1>1, <1>5 DEF AgentKilled, Gone, TypeOK, Agents
  <2> QED
    BY <2>1 DEF Rested
<1>6. CASE LogIn(a) \/ SendFrame(a)
  BY <1>6 DEF LogIn, SendFrame, Rested, agentVars
<1> QED
  BY <1>2, <1>3, <1>4, <1>5, <1>6 DEF AgentStep, AgentEnvironment

LEMMA RestedNext == TypeOK /\ Threads /\ Rested /\ [Next]_vars => Rested'
<1> SUFFICES ASSUME TypeOK, Threads, Rested, [Next]_vars PROVE Rested'
  OBVIOUS
<1>1. ASSUME NEW on \in BOOLEAN, Watch(on)
      PROVE  Rested'
  BY <1>1 DEF Watch, wireVars, agentVars, Rested
<1>2. CASE BrokerStep
  <2>1. UNCHANGED <<thread, agent>>
    BY <1>2 DEF BrokerStep, HandleHello, HandleClosed, Commanded, Accept, ReadAgent,
       ReadAgentEnd, agentVars
  <2>2. \A a \in Sessions : stage'[a] # "off" => stage[a] # "off"
    BY <1>2, QueuesTyped, EventTaken, ZenonT(60) DEF BrokerStep, HandleHello, HandleClosed, Commanded,
       Accept, ReadAgent, ReadAgentEnd, TypeOK
  <2> QED
    BY <2>1, <2>2 DEF Rested
<1>3. CASE UNCHANGED vars
  BY <1>3 DEF vars, wireVars, agentVars, Rested
<1> QED
  BY <1>1, <1>2, <1>3, RestedThread, RestedAgent DEF Next

-----------------------------------------------------------------------------

\* A session behind an agent at rest is locked and free of the idle inhibitor,
\* whatever starts, stops, handovers, logouts and deaths went before (SessionGate,
\* capture_control in agent.rs).
THEOREM NeverLeftUnlocked == Spec => []LockedAtRest
<1>1. Init => Rested
  BY DEF Init, Rested, FreshAgent
<1>2. Connected => Threads
  BY DEF Connected
<1>3. Rested => LockedAtRest
  BY DEF Rested, LockedAtRest
<1> QED
  BY <1>1, <1>2, <1>3, ConnectedInit, ConnectedNext, RestedNext, TypeCorrect, PTL DEF Spec

\* No frame of a replaced agent becomes the viewer's picture, and no late end of one
\* takes the broker's active agent from it (active_id in broker.rs).
THEOREM TheActiveAgentCounts == Spec => OnlyTheActiveCounts
<1> DEFINE Counts == /\ shown' # shown => ~hung[shown']
                     /\ active # NoAgent /\ active' = NoAgent => stage[active] = "closing"
<1>1. TypeOK /\ Connected /\ [Next]_vars => [Counts]_vars
  <2> SUFFICES ASSUME TypeOK, Connected, Next PROVE Counts
    BY DEF vars
  <2>1. CASE HandleClosed
    <3>1. /\ Len(evq) > 0 /\ Len(evq) \in Nat /\ evq[1] = Head(evq)
          /\ evq[1].kind = "closed" /\ UNCHANGED shown
      BY <2>1, QueuesTyped, EventTaken DEF HandleClosed
    <3>2. stage[Head(evq).from] = "closing"
      BY <3>1 DEF Connected, ClosedOnce
    <3> QED
      BY <2>1, <3>1, <3>2 DEF HandleClosed, Closes
  <2>2. ASSUME NEW a \in Sessions, ReadAgent(a)
        PROVE  Counts
    BY <2>2 DEF ReadAgent, Forwards, Connected, Channels
  <2>3. CASE HandleHello
    <3>1. Head(evq).from \in Sessions /\ UNCHANGED shown
      BY <2>3, QueuesTyped, EventTaken DEF HandleHello
    <3> QED
      BY <2>3, <3>1 DEF HandleHello
  <2>4. CASE UNCHANGED <<active, shown>>
    BY <2>4
  <2> QED
    BY <2>1, <2>2, <2>3, <2>4 DEF Next, BrokerStep, Commanded, Accept, ReadAgentEnd, Watch,
       AgentStep, AgentEnvironment, ThreadStep, StartAgent, AgentLeaves, AgentExits, LogIn,
       AgentKilled, SendFrame, FirstLock, RecvStart, Unlock, Resume, RecvStop, Relock, RecvEnd,
       LastLock, Recv, ThreadAt, brokerVars
<1> QED
  BY <1>1, ConnectedInit, ConnectedNext, TypeCorrect, PTL DEF Spec, OnlyTheActiveCounts
=============================================================================
