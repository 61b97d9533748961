-------------------------- MODULE RabbitConnection --------------------------
(* The life cycle of the AMQP connection of one backend process              *)
(* (backend/src/modules/rabbitmq/rabbitmq.service.ts): connect, the close    *)
(* handlers of connection and channel, handleDisconnect, scheduleReconnect   *)
(* and the two lifecycle hooks. `connection` stands for connection, channel  *)
(* and isConnected, which every line of the code assigns together. A member  *)
(* of Conns is one call of connect() with the connection it opens; it is     *)
(* used again once that connection is gone.                                  *)
EXTENDS Naturals

CONSTANTS
  Conns,      \* calls of connect() and the connections they open
  NoConn,     \* null
  SameChunk,  \* may a close arrive in one chunk with the last reply of a call?
  MaxFaults   \* bound on what the network and the broker refuse or close

ASSUME ConnectionAssumption ==
  NoConn \notin Conns /\ SameChunk \in BOOLEAN /\ MaxFaults \in Nat

VARIABLES
  connection,  \* this.connection, with this.channel and this.isConnected
  connecting,  \* this.connecting
  timer,       \* a reconnectTimer is pending
  stopped,     \* this.stopped
  booted,      \* onModuleInit has been called
  pc,          \* the await a call of connect() is at
  net,         \* a connection as amqplib sees it; "lame": only its channel is closed
  faults       \* failures so far

flags == <<connection, connecting, timer, stopped, booted>>
vars  == <<flags, pc, net, faults>>

PCs  == {"idle", "dial", "channel", "topology", "adopt", "catch"}
Nets == {"none", "open", "lame", "closing"}

Init ==
  /\ connection = NoConn
  /\ connecting = FALSE /\ timer = FALSE /\ stopped = FALSE /\ booted = FALSE
  /\ pc = [c \in Conns |-> "idle"]
  /\ net = [c \in Conns |-> "none"]
  /\ faults = 0

Fault == faults < MaxFaults /\ faults' = faults + 1

Goto(c, l) == pc' = [pc EXCEPT ![c] = l]

(* conn.close(): rejected, to no effect, when the connection is gone. *)
Closing(n, c) == [d \in Conns |-> IF d = c /\ n[d] # "none" THEN "closing" ELSE n[d]]

Unused(c) == pc[c] = "idle" /\ net[c] = "none" /\ connection # c

ScheduleAlways == timer' = TRUE  \* mutant: schedules after shutdown too

(* scheduleReconnect: nothing once stopped or when a timer is pending. *)
ScheduleReconnect == timer' = (timer \/ ~stopped)

-----------------------------------------------------------------------------
(* connect() up to its first await, or its early return. *)
Call ==
  IF connecting \/ stopped \/ connection # NoConn
  THEN UNCHANGED <<connecting, pc>>
  ELSE /\ connecting' = TRUE
       /\ \E c \in Conns : Unused(c) /\ Goto(c, "dial")

OnModuleInit ==
  /\ ~booted /\ booted' = TRUE
  /\ Call
  /\ UNCHANGED <<connection, timer, stopped, net, faults>>

TimerFires ==
  /\ timer /\ timer' = FALSE
  /\ Call
  /\ UNCHANGED <<connection, stopped, booted, net, faults>>

Dialled(c) ==
  /\ pc[c] = "dial" /\ Goto(c, "channel")
  /\ net' = [net EXCEPT ![c] = "open"]
  /\ UNCHANGED <<flags, faults>>

(* amqp.connect rejects: conn is still null, nothing to close. *)
DialFails(c) ==
  /\ pc[c] = "dial" /\ Fault /\ Goto(c, "idle")
  /\ ScheduleReconnect /\ connecting' = FALSE
  /\ UNCHANGED <<connection, stopped, booted, net>>

(* createConfirmChannel, then the assertions of the topology, are answered. *)
Replied(c) ==
  /\ \/ pc[c] = "channel" /\ Goto(c, "topology")
     \/ pc[c] = "topology" /\ Goto(c, "adopt")
  /\ UNCHANGED <<flags, net, faults>>

(* The continuation of the last reply runs. *)
Adopt(c) ==
  /\ pc[c] = "adopt" /\ Goto(c, "idle")
  /\ connection' = c /\ connecting' = FALSE
  /\ UNCHANGED <<timer, stopped, booted, net, faults>>

CaughtForgetsFlag(c) ==  \* mutant: no `finally`, connecting stays set
  /\ pc[c] = "catch" /\ net[c] # "closing" /\ Goto(c, "idle")
  /\ ScheduleReconnect
  /\ UNCHANGED <<connection, connecting, stopped, booted, net, faults>>

(* The rest of the catch block, once conn.close() has settled. *)
Caught(c) ==
  /\ pc[c] = "catch" /\ net[c] # "closing" /\ Goto(c, "idle")
  /\ ScheduleReconnect /\ connecting' = FALSE
  /\ UNCHANGED <<connection, stopped, booted, net, faults>>

-----------------------------------------------------------------------------
(* A reply that is awaited when its connection or channel closes is refused; *)
(* one that has arrived is not (pc "adopt").                                 *)
Refused(c) ==
  IF pc[c] \in {"channel", "topology"} THEN Goto(c, "catch") ELSE UNCHANGED pc

MayClose(c) == pc[c] = "adopt" => SameChunk

HandleDisconnectNoClose(n) ==  \* mutant: leaves the connection of a dead channel open
  /\ connection' = NoConn /\ ScheduleReconnect /\ net' = n

(* handleDisconnect; n is what the event has left of the connections.        *)
HandleDisconnect(n) ==
  /\ connection' = NoConn
  /\ ScheduleReconnect
  /\ net' = IF stopped THEN n ELSE Closing(n, connection)

EventAny(c, left) ==  \* mutant: handlers that only check that something is adopted
  LET n == [net EXCEPT ![c] = left] IN
  IF connection # NoConn
  THEN HandleDisconnect(n)
  ELSE /\ net' = IF pc'[c] = "catch" THEN Closing(n, c) ELSE n
       /\ UNCHANGED <<connection, timer>>

(* Something of c closes and leaves it in the state left. The handlers       *)
(* ignore it unless c is the adopted connection; connect() closes a          *)
(* connection it fails to set up.                                            *)
Event(c, left) ==
  LET n == [net EXCEPT ![c] = left] IN
  IF connection = c
  THEN HandleDisconnect(n)
  ELSE /\ net' = IF pc'[c] = "catch" THEN Closing(n, c) ELSE n
       /\ UNCHANGED <<connection, timer>>

ConnectionCloses(c) ==
  /\ net[c] \in {"open", "lame"} /\ MayClose(c) /\ Fault
  /\ Refused(c) /\ Event(c, "none")
  /\ UNCHANGED <<connecting, stopped, booted>>

ChannelClosesUnheard(c) ==  \* mutant: no 'close' handler on the channel
  /\ net[c] = "open" /\ MayClose(c) /\ Fault
  /\ Refused(c)
  /\ net' = [net EXCEPT ![c] = IF pc'[c] = "catch" THEN "closing" ELSE "lame"]
  /\ UNCHANGED flags

ChannelCloses(c) ==
  /\ net[c] = "open" /\ MayClose(c) /\ Fault
  /\ Refused(c) /\ Event(c, "lame")
  /\ UNCHANGED <<connecting, stopped, booted>>

(* The answer to conn.close(); the 'close' event comes with it. *)
CloseOk(c) ==
  /\ net[c] = "closing"
  /\ UNCHANGED <<connecting, stopped, booted, pc, faults>>
  /\ Event(c, "none")

OnModuleDestroy ==
  /\ ~stopped /\ stopped' = TRUE
  /\ timer' = FALSE
  /\ connection' = NoConn
  /\ net' = Closing(net, connection)
  /\ UNCHANGED <<connecting, booted, pc, faults>>

-----------------------------------------------------------------------------
Progress(c) == Dialled(c) \/ Replied(c) \/ Adopt(c) \/ Caught(c)

Next ==
  \/ OnModuleInit \/ TimerFires \/ OnModuleDestroy
  \/ \E c \in Conns : \/ Progress(c) \/ CloseOk(c)
                      \/ DialFails(c) \/ ConnectionCloses(c) \/ ChannelCloses(c)

Spec == Init /\ [][Next]_vars

(* The module is initialised, a timer fires, every await ends; nothing is    *)
(* fair about failures and shutdown.                                         *)
FairSpec ==
  /\ Spec
  /\ WF_vars(OnModuleInit) /\ WF_vars(TimerFires)
  /\ \A c \in Conns : WF_vars(Progress(c)) /\ WF_vars(CloseOk(c))
=============================================================================
