----------------------- MODULE RabbitConnectionProofs -----------------------
(* Proofs about the connection of one backend process, for any number of     *)
(* calls of connect() and any number of failures.                            *)
EXTENDS RabbitConnectionInv, TLAPS

(* An event of c is handled: the adopted connection is given up, the one of  *)
(* a call that awaits it is closed, any other is left as the event leaves it.*)
LEMMA EventKeeps ==
  ASSUME IInv, NEW c \in Conns, NEW left \in {"none", "lame"},
         MayClose(c),
         \/ net[c] \in {"open", "lame"} /\ Refused(c)
         \/ net[c] = "closing" /\ left = "none" /\ pc' = pc,
         Event(c, left), connecting' = connecting, stopped' = stopped,
         booted' = booted, faults' \in Nat
  PROVE  IInv'
<1> USE ConnectionAssumption DEF IInv, TypeOK, CallsMatch, PCs, Nets, MayClose, Closing, Goto
<1>1. CASE connection = c
  <2>1. pc[c] = "idle" /\ pc' = pc
    BY <1>1 DEF OneRecoveryPath, Refused
  <2>2. /\ connection' = NoConn /\ timer' = (timer \/ ~stopped)
        /\ net' \in [Conns -> Nets]
        /\ \A d \in Conns \ {c} : net'[d] = net[d]
        /\ ~stopped => net'[c] \in {"none", "closing"}
    BY <1>1 DEF Event, HandleDisconnect, ScheduleReconnect
  <2>3. ~timer /\ ~connecting
    BY <1>1 DEF OneRecoveryPath
  <2>4. TypeOK'
    BY <2>1, <2>2
  <2>8. booted
    BY <1>1, <2>3 DEF OneRecoveryPath
  <2>9. /\ ~connecting' /\ (\A d \in Conns : pc'[d] = "idle")
        /\ timer' => ~stopped'
        /\ ~stopped' => timer'
    BY <2>1, <2>2, <2>3 DEF OneRecoveryPath
  <2>5. OneRecoveryPath' /\ (timer' => booted' /\ ~stopped') /\ (connecting' \/ connection' # NoConn => booted')
    BY <2>2, <2>8, <2>9 DEF OneRecoveryPath
  <2>6. OpenIsWanted'
    BY <2>1, <2>2, <1>1 DEF OpenIsWanted, IsOpen
  <2>7. AdoptedIsOpen'
    BY <2>2 DEF AdoptedIsOpen
  <2> QED BY <2>4, <2>5, <2>6, <2>7
<1>2. CASE connection # c
  <2>1. /\ connection' = connection /\ timer' = timer
        /\ net' \in [Conns -> Nets]
        /\ \A d \in Conns \ {c} : net'[d] = net[d]
        /\ net'[c] \in {left, "closing"}
        /\ pc'[c] = "catch" => net'[c] \in {"none", "closing"}
    BY <1>2 DEF Event
  <2>2. /\ pc' \in [Conns -> PCs]
        /\ \A d \in Conns \ {c} : pc'[d] = pc[d]
        /\ \/ pc'[c] = pc[c]
           \/ pc[c] \in {"channel", "topology"} /\ pc'[c] = "catch"
        /\ pc[c] \in {"channel", "topology"} => pc'[c] = "catch"
    <3>1. CASE Refused(c) /\ pc[c] \in {"channel", "topology"}
      <4>1. pc' = [pc EXCEPT ![c] = "catch"]
        BY <3>1 DEF Refused
      <4> QED BY <3>1, <4>1
    <3>2. CASE pc' = pc /\ pc[c] \notin {"channel", "topology"}
      <4> HIDE DEF Closing
      <4> QED BY <3>2
    <3> QED BY <3>1, <3>2 DEF Refused
  <2>10. \A d \in Conns \ {c} : pc'[d] = pc[d] /\ net'[d] = net[d]
    BY <2>1, <2>2
  <2>3. CallsMatch'
    <3> DEFINE M(d) == /\ pc'[d] = "dial" => net'[d] = "none"
                       /\ pc'[d] \in {"channel", "topology"} => net'[d] = "open"
                       /\ pc'[d] = "adopt" => SameChunk \/ net'[d] = "open"
                       /\ pc'[d] = "catch" => net'[d] \in {"closing", "none"}
    <3>1. ASSUME NEW d \in Conns, d # c PROVE M(d)
      BY <3>1, <2>10
    <3>2. ASSUME pc'[c] \in {"idle", "catch"} PROVE M(c)
      BY <3>2, <2>1
    <3>3. ASSUME pc'[c] \notin {"idle", "catch"} PROVE M(c)
      <4>1. pc[c] = pc'[c] /\ pc[c] = "adopt"
        BY <3>3, <2>2
      <4> QED BY <4>1
    <3> QED BY <3>1, <3>2, <3>3
  <2>4. TypeOK'
    BY <2>1, <2>2, <2>3
  <2>5. OneRecoveryPath' /\ (timer' => booted' /\ ~stopped') /\ (connecting' \/ connection' # NoConn => booted')
    <3>1. \A d \in Conns : pc'[d] # "idle" <=> pc[d] # "idle"
      BY <2>2
    <3> QED BY <3>1, <2>1 DEF OneRecoveryPath
  <2>6. OpenIsWanted'
    <3> SUFFICES ASSUME ~stopped, NEW d \in Conns, net'[d] \in {"open", "lame"}
                 PROVE  connection' = d \/ pc'[d] # "idle"
      BY DEF OpenIsWanted, IsOpen
    <3>1. CASE d = c
      <4>1. net[c] \in {"open", "lame"}
        BY <3>1, <2>1
      <4> QED BY <4>1, <3>1, <1>2, <2>2 DEF OpenIsWanted, IsOpen
    <3>2. CASE d # c
      BY <3>2, <2>1, <2>2 DEF OpenIsWanted, IsOpen
    <3> QED BY <3>1, <3>2
  <2>7. SameChunk \/ AdoptedIsOpen'
    BY <2>1, <1>2 DEF AdoptedIsOpen
  <2> QED BY <2>4, <2>5, <2>6, <2>7
<1> QED BY <1>1, <1>2

(* A call of connect() starts when nothing else tries, or returns at once.   *)
LEMMA CallKeeps ==
  ASSUME IInv, Call, connection' = connection, stopped' = stopped,
         net' = net, faults' = faults, booted' = TRUE,
         \/ ~booted /\ timer' = timer
         \/ timer /\ timer' = FALSE
  PROVE  IInv'
<1> USE ConnectionAssumption DEF IInv, TypeOK, CallsMatch, PCs, Nets
<1>0. ~connecting /\ timer' = FALSE
  BY DEF OneRecoveryPath
<1>1. CASE stopped \/ connection # NoConn
  <2>1. connecting' = connecting /\ pc' = pc
    BY <1>1 DEF Call
  <2> QED BY <2>1, <1>0, <1>1 DEF OneRecoveryPath, OpenIsWanted, IsOpen, AdoptedIsOpen
<1>2. CASE ~stopped /\ connection = NoConn
  <2> PICK c \in Conns : Unused(c) /\ Goto(c, "dial") /\ connecting' = TRUE
    BY <1>0, <1>2 DEF Call
  <2>1. /\ pc' \in [Conns -> PCs] /\ pc'[c] = "dial" /\ net[c] = "none"
        /\ \A d \in Conns \ {c} : pc'[d] = "idle" /\ pc[d] = "idle"
    BY <1>0 DEF Unused, Goto, OneRecoveryPath
  <2>2. TypeOK'
    BY <2>1
  <2>3. OneRecoveryPath'
    BY <2>1, <1>0, <1>2 DEF OneRecoveryPath
  <2>4. OpenIsWanted' /\ AdoptedIsOpen'
    BY <2>1, <1>2 DEF OpenIsWanted, IsOpen, AdoptedIsOpen
  <2> QED BY <2>2, <2>3, <2>4, <1>0
<1> QED BY <1>1, <1>2

(* A call ends in failure: its timer is the path of recovery.                *)
LEMMA FailureKeeps ==
  ASSUME IInv, NEW c \in Conns, pc[c] # "idle", net[c] \in {"none", "closing"},
         Goto(c, "idle"), ScheduleReconnect, connecting' = FALSE,
         UNCHANGED <<connection, stopped, booted, net>>, faults' \in Nat
  PROVE  IInv'
<1> USE ConnectionAssumption DEF IInv, TypeOK, CallsMatch, PCs, Nets
<1>1. connecting /\ connection = NoConn /\ ~timer /\ booted
  BY DEF OneRecoveryPath
<1>2. /\ pc' \in [Conns -> PCs]
      /\ \A d \in Conns : pc'[d] = "idle"
      /\ \A d \in Conns \ {c} : pc[d] = "idle"
  BY DEF Goto, OneRecoveryPath
<1>3. TypeOK'
  BY <1>2 DEF ScheduleReconnect
<1>4. OneRecoveryPath' /\ (timer' => booted' /\ ~stopped')
  BY <1>1, <1>2 DEF OneRecoveryPath, ScheduleReconnect
<1>5. OpenIsWanted' /\ AdoptedIsOpen'
  BY <1>1, <1>2 DEF OpenIsWanted, IsOpen, AdoptedIsOpen
<1> QED BY <1>1, <1>3, <1>4, <1>5

LEMMA Step ==
  ASSUME IInv, [Next]_vars
  PROVE  IInv'
<1> USE ConnectionAssumption
<1>0. CASE UNCHANGED vars
  BY <1>0 DEF vars, flags, IInv, TypeOK, CallsMatch, OneRecoveryPath, OpenIsWanted, IsOpen, AdoptedIsOpen
<1>1. CASE OnModuleInit
  BY <1>1, CallKeeps DEF OnModuleInit
<1>2. CASE TimerFires
  BY <1>2, CallKeeps DEF TimerFires, IInv
<1>3. CASE OnModuleDestroy
  <2> USE DEF IInv, TypeOK, CallsMatch, PCs, Nets
  <2>1. /\ net' \in [Conns -> Nets] /\ connection' = NoConn /\ timer' = FALSE
        /\ stopped' /\ pc' = pc /\ connecting' = connecting /\ booted' = booted /\ faults' = faults
        /\ \A d \in Conns : d # connection => net'[d] = net[d]
    BY <1>3 DEF OnModuleDestroy, Closing
  <2>2. \A d \in Conns : d = connection => pc[d] = "idle"
    BY DEF OneRecoveryPath
  <2>3. TypeOK'
    BY <2>1, <2>2
  <2>4. OneRecoveryPath' /\ OpenIsWanted' /\ AdoptedIsOpen'
    BY <2>1 DEF OneRecoveryPath, OpenIsWanted, IsOpen, AdoptedIsOpen
  <2> QED BY <2>1, <2>3, <2>4
<1>4. ASSUME NEW c \in Conns, Dialled(c) \/ Replied(c) PROVE IInv'
  <2> USE DEF IInv, TypeOK, CallsMatch, PCs, Nets, Goto
  <2>1. /\ pc' \in [Conns -> PCs] /\ pc[c] # "idle" /\ pc'[c] # "idle"
        /\ net' \in [Conns -> Nets] /\ net'[c] = "open"
        /\ \A d \in Conns \ {c} : pc'[d] = pc[d] /\ net'[d] = net[d]
        /\ pc'[c] \in {"channel", "topology", "adopt"}
        /\ UNCHANGED <<connection, connecting, timer, stopped, booted, faults>>
    BY <1>4 DEF Dialled, Replied, flags
  <2>2. TypeOK'
    BY <2>1
  <2>3. OneRecoveryPath'
    BY <2>1 DEF OneRecoveryPath
  <2>4. OpenIsWanted' /\ (SameChunk \/ AdoptedIsOpen')
    BY <2>1 DEF OpenIsWanted, IsOpen, AdoptedIsOpen
  <2> QED BY <2>1, <2>2, <2>3, <2>4
<1>5. ASSUME NEW c \in Conns, Adopt(c) PROVE IInv'
  <2> USE DEF IInv, TypeOK, CallsMatch, PCs, Nets, Goto
  <2>1. connecting /\ connection = NoConn /\ ~timer /\ pc[c] = "adopt" /\ (SameChunk \/ net[c] = "open")
    BY <1>5 DEF Adopt, OneRecoveryPath
  <2>2. /\ pc' \in [Conns -> PCs] /\ connection' = c /\ ~connecting' /\ ~timer' /\ connecting' \in BOOLEAN
        /\ \A d \in Conns : pc'[d] = "idle"
        /\ \A d \in Conns \ {c} : pc[d] = "idle"
        /\ UNCHANGED <<timer, stopped, booted, net, faults>>
    BY <1>5, <2>1 DEF Adopt, OneRecoveryPath
  <2>3. TypeOK'
    BY <2>2
  <2>4. OneRecoveryPath'
    BY <2>2 DEF OneRecoveryPath
  <2>5. OpenIsWanted' /\ (SameChunk \/ AdoptedIsOpen')
    BY <2>1, <2>2 DEF OpenIsWanted, IsOpen, AdoptedIsOpen
  <2> QED BY <2>1, <2>2, <2>3, <2>4, <2>5
<1>6. ASSUME NEW c \in Conns, DialFails(c) PROVE IInv'
  <2>1. pc[c] # "idle" /\ net[c] = "none" /\ faults' \in Nat
    BY <1>6 DEF DialFails, Fault, IInv, TypeOK, CallsMatch
  <2> QED BY <1>6, <2>1, FailureKeeps DEF DialFails
<1>7. ASSUME NEW c \in Conns, Caught(c) PROVE IInv'
  BY <1>7, FailureKeeps DEF Caught, IInv, TypeOK, CallsMatch
<1>8. ASSUME NEW c \in Conns, ConnectionCloses(c) PROVE IInv'
  BY <1>8, EventKeeps DEF ConnectionCloses, Fault, IInv, TypeOK
<1>9. ASSUME NEW c \in Conns, ChannelCloses(c) PROVE IInv'
  BY <1>9, EventKeeps DEF ChannelCloses, Fault, IInv, TypeOK
<1>10. ASSUME NEW c \in Conns, CloseOk(c) PROVE IInv'
  <2>1. MayClose(c)
    BY <1>10 DEF CloseOk, MayClose, IInv, TypeOK, CallsMatch
  <2> QED BY <1>10, <2>1, EventKeeps DEF CloseOk, IInv, TypeOK
<1> QED
  BY <1>0, <1>1, <1>2, <1>3, <1>4, <1>5, <1>6, <1>7, <1>8, <1>9, <1>10 DEF Next, Progress

(* A connection that is adopted, or about to be, is not being closed.        *)
LEMMA NotClosingStep == IInv /\ NotClosing /\ [Next]_vars => NotClosing'
<1> SUFFICES ASSUME IInv, NotClosing, [Next]_vars PROVE NotClosing'
  OBVIOUS
<1> USE ConnectionAssumption DEF NotClosing
<1>1. IInv'
  BY Step
<1>2. ASSUME UNCHANGED <<pc, net>>, connection' = connection PROVE NotClosing'
  BY <1>2
<1>3. CASE UNCHANGED vars
  BY <1>3, <1>2 DEF vars, flags
<1>4. CASE OnModuleInit \/ TimerFires
  <2>1. connection' = connection /\ net' = net /\ Call
    BY <1>4 DEF OnModuleInit, TimerFires
  <2>2. \A c \in Conns : pc'[c] = pc[c] \/ pc'[c] = "dial"
    BY <2>1 DEF Call, Goto, IInv, TypeOK
  <2> QED BY <2>1, <2>2
<1>5. CASE OnModuleDestroy
  <2>1. \A c \in Conns : pc[c] = "adopt" => connection # c
    BY DEF IInv, OneRecoveryPath
  <2> QED BY <1>5, <2>1 DEF OnModuleDestroy, Closing
<1>6. ASSUME NEW c \in Conns, Dialled(c) \/ Replied(c) \/ Adopt(c) \/ Caught(c) \/ DialFails(c)
      PROVE  NotClosing'
  BY <1>6 DEF Dialled, Replied, Adopt, Caught, DialFails, Goto, flags, IInv, TypeOK, CallsMatch
<1>7. ASSUME NEW c \in Conns, CloseOk(c) \/ ConnectionCloses(c) \/ ChannelCloses(c)
      PROVE  NotClosing'
  <2>1. PICK left \in {"none", "lame"} : Event(c, left)
    BY <1>7 DEF CloseOk, ConnectionCloses, ChannelCloses
  <2>2. \A d \in Conns : pc'[d] = pc[d] \/ pc'[d] = "catch"
    BY <1>7 DEF CloseOk, ConnectionCloses, ChannelCloses, Refused, Goto, IInv, TypeOK
  <2>3. CASE connection = c
    <3>1. connection' = NoConn /\ pc[c] = "idle"
      BY <2>1, <2>3 DEF Event, HandleDisconnect, IInv, OneRecoveryPath
    <3>2. \A d \in Conns \ {c} : net'[d] = net[d]
      BY <2>1, <2>3 DEF Event, HandleDisconnect, Closing, IInv, TypeOK
    <3> QED BY <2>2, <3>1, <3>2
  <2>4. CASE connection # c
    <3>1. connection' = connection /\ \A d \in Conns \ {c} : net'[d] = net[d]
      BY <2>1, <2>4 DEF Event, Closing, IInv, TypeOK
    <3>2. pc'[c] = "catch" \/ net'[c] = left
      BY <2>1, <2>4 DEF Event, IInv, TypeOK
    <3> QED BY <2>2, <2>4, <3>1, <3>2
  <2> QED BY <2>3, <2>4
<1> QED BY <1>3, <1>4, <1>5, <1>6, <1>7 DEF Next, Progress

(* Only a call of connect() opens a connection, and none is left by then.    *)
LEMMA OneOpenStep == IInv /\ OneOpen /\ LeftBehind /\ [Next]_vars => OneOpen' /\ LeftBehind'
<1> SUFFICES ASSUME IInv, OneOpen, LeftBehind, [Next]_vars PROVE OneOpen' /\ LeftBehind'
  OBVIOUS
<1> USE ConnectionAssumption DEF OneOpen, LeftBehind, IsOpen
<1>1. ASSUME UNCHANGED <<connection, connecting, stopped, pc, net>> PROVE OneOpen' /\ LeftBehind'
  BY <1>1
<1>2. CASE UNCHANGED vars
  BY <1>2, <1>1 DEF vars, flags
<1>3. CASE OnModuleInit \/ TimerFires
  <2>1. UNCHANGED <<connection, stopped, net>> /\ Call
    BY <1>3 DEF OnModuleInit, TimerFires
  <2>2. CASE stopped
    BY <1>1, <2>1, <2>2 DEF Call
  <2>3. CASE ~ stopped
    BY <2>1, <2>3 DEF IInv, OpenIsWanted, OneRecoveryPath, Call, Goto, TypeOK
  <2> QED BY <2>2, <2>3
<1>4. CASE OnModuleDestroy
  <2>1. /\ stopped' /\ connection' = NoConn /\ pc' = pc /\ connecting' = connecting
        /\ \A c \in Conns : IsOpen(c)' => IsOpen(c) /\ connection # c
    BY <1>4 DEF OnModuleDestroy, Closing, IInv, TypeOK
  <2>2. \A c \in Conns : IsOpen(c)' => pc[c] # "idle"
    BY <1>4, <2>1 DEF OnModuleDestroy, IInv, OpenIsWanted
  <2> QED BY <2>1, <2>2
<1>5. ASSUME NEW c \in Conns, Dialled(c) PROVE OneOpen' /\ LeftBehind'
  <2>1. connecting /\ connection = NoConn /\ \A d \in Conns \ {c} : pc[d] = "idle"
    BY <1>5 DEF Dialled, IInv, OneRecoveryPath
  <2>2. \A d \in Conns \ {c} : ~ IsOpen(d)
    BY <2>1
  <2>3. pc'[c] # "idle" /\ \A d \in Conns \ {c} : net'[d] = net[d]
    BY <1>5 DEF Dialled, Goto, IInv, TypeOK
  <2> QED BY <2>2, <2>3
<1>6. ASSUME NEW c \in Conns, Replied(c) PROVE OneOpen' /\ LeftBehind'
  BY <1>6 DEF Replied, flags, Goto, IInv, TypeOK
<1>7. ASSUME NEW c \in Conns, Adopt(c) PROVE OneOpen' /\ LeftBehind'
  <2>1. connecting
    BY <1>7 DEF Adopt, IInv, OneRecoveryPath
  <2>2. \A d \in Conns \ {c} : ~ IsOpen(d)
    BY <1>7, <2>1 DEF Adopt, IInv, OneRecoveryPath
  <2> QED BY <1>7, <2>2 DEF Adopt, Goto, IInv, TypeOK
<1>8. ASSUME NEW c \in Conns, Caught(c) \/ DialFails(c) PROVE OneOpen' /\ LeftBehind'
  <2>1. /\ connecting /\ ~ IsOpen(c) /\ pc[c] # "idle"
        /\ UNCHANGED <<connection, stopped, net>>
        /\ \A d \in Conns \ {c} : pc'[d] = pc[d] /\ pc[d] = "idle"
    BY <1>8 DEF Caught, DialFails, Goto, IInv, TypeOK, CallsMatch, OneRecoveryPath
  <2>2. \A d \in Conns : IsOpen(d) => connection = d
    BY <2>1
  <2> QED BY <2>1, <2>2
<1>9. ASSUME NEW c \in Conns, CloseOk(c) \/ ConnectionCloses(c) \/ ChannelCloses(c)
      PROVE  OneOpen' /\ LeftBehind'
  <2>1. PICK left \in {"none", "lame"} :
          Event(c, left) /\ (left = "lame" => net[c] = "open")
    BY <1>9 DEF CloseOk, ConnectionCloses, ChannelCloses
  <2>2. /\ UNCHANGED <<connecting, stopped>>
        /\ \A d \in Conns : pc'[d] = "idle" <=> pc[d] = "idle"
    BY <1>9 DEF CloseOk, ConnectionCloses, ChannelCloses, Refused, Goto, IInv, TypeOK
  <2>3. CASE connection = c
    <3>1. /\ connection' = NoConn /\ ~ connecting
          /\ net' = IF stopped THEN [net EXCEPT ![c] = left] ELSE Closing([net EXCEPT ![c] = left], c)
      BY <2>1, <2>3 DEF Event, HandleDisconnect, IInv, OneRecoveryPath
    <3>2. \A d \in Conns : IsOpen(d)' => IsOpen(d) /\ (~ stopped => d # c)
      BY <2>1, <3>1 DEF Closing, IInv, TypeOK
    <3>3. \A d \in Conns : IsOpen(d)' /\ pc'[d] = "idle" => stopped
      BY <2>2, <2>3, <3>2
    <3> QED BY <2>2, <3>1, <3>2, <3>3
  <2>4. CASE connection # c
    <3>1. connection' = connection
      BY <2>1, <2>4 DEF Event
    <3>2. \A d \in Conns : IsOpen(d)' => IsOpen(d)
      BY <2>1, <2>4 DEF Event, Closing, IInv, TypeOK
    <3> QED BY <2>2, <3>1, <3>2
  <2> QED BY <2>3, <2>4
<1> QED BY <1>2, <1>3, <1>4, <1>5, <1>6, <1>7, <1>8, <1>9 DEF Next, Progress

(* The distance is that of the only call under way, or of what waits for one.*)
LEMMA Distances ==
  IInv => /\ ToConnection \in 0..8
          /\ connection # NoConn => ToConnection = 0
          /\ connection = NoConn /\ ~ connecting => ToConnection = IF timer THEN 5 ELSE IF ~ booted THEN 8 ELSE 6
          /\ \A c \in Conns :
               /\ pc[c] = "adopt" => ToConnection = 1
               /\ pc[c] = "topology" => ToConnection = 2
               /\ pc[c] = "channel" => ToConnection = 3
               /\ pc[c] = "dial" => ToConnection = 4
               /\ pc[c] = "catch" => ToConnection = IF net[c] = "closing" THEN 7 ELSE 6
<1> SUFFICES ASSUME IInv
             PROVE  /\ ToConnection \in 0..8
                    /\ connection # NoConn => ToConnection = 0
                    /\ connection = NoConn /\ ~ connecting => ToConnection = IF timer THEN 5 ELSE IF ~ booted THEN 8 ELSE 6
                    /\ \A c \in Conns :
                         /\ pc[c] = "adopt" => ToConnection = 1
                         /\ pc[c] = "topology" => ToConnection = 2
                         /\ pc[c] = "channel" => ToConnection = 3
                         /\ pc[c] = "dial" => ToConnection = 4
                         /\ pc[c] = "catch" => ToConnection = IF net[c] = "closing" THEN 7 ELSE 6
  OBVIOUS
<1>1. ToConnection \in 0..8
  BY DEF ToConnection
<1>2. connection # NoConn => ToConnection = 0
  BY DEF ToConnection
<1>3. ASSUME connection = NoConn, ~ connecting
      PROVE  ToConnection = IF timer THEN 5 ELSE IF ~ booted THEN 8 ELSE 6
  <2>1. \A c \in Conns : pc[c] = "idle"
    BY <1>3 DEF IInv, OneRecoveryPath
  <2> QED BY <1>3, <2>1 DEF ToConnection, At
<1>4. ASSUME NEW c \in Conns, pc[c] # "idle"
      PROVE  connection = NoConn /\ ~ timer /\ booted /\ \A d \in Conns : pc[d] # "idle" => d = c
  BY <1>4 DEF IInv, OneRecoveryPath
<1>5. ASSUME NEW c \in Conns
      PROVE  /\ pc[c] = "adopt" => ToConnection = 1
             /\ pc[c] = "topology" => ToConnection = 2
             /\ pc[c] = "channel" => ToConnection = 3
             /\ pc[c] = "dial" => ToConnection = 4
             /\ pc[c] = "catch" => ToConnection = IF net[c] = "closing" THEN 7 ELSE 6
  <2>1. CASE pc[c] = "idle"
    BY <2>1
  <2>2. CASE pc[c] # "idle"
    <3>1. \A label \in PCs \ {"idle"} : At(label) <=> pc[c] = label
      BY <1>4, <2>2 DEF At
    <3>2. (\E d \in Conns : pc[d] = "catch" /\ net[d] = "closing") <=> pc[c] = "catch" /\ net[c] = "closing"
      BY <1>4, <2>2
    <3> QED BY <3>1, <3>2, <1>4, <2>2 DEF ToConnection, PCs
  <2> QED BY <2>1, <2>2
<1> QED BY <1>1, <1>2, <1>3, <1>5

(* The inductive invariant of the connection.                                *)
THEOREM Invariance == Spec => []IInv
<1>1. Init => IInv
  <2> SUFFICES ASSUME Init PROVE IInv
    OBVIOUS
  <2>1. TypeOK
    BY DEF Init, TypeOK, CallsMatch, PCs, Nets
  <2>2. OneRecoveryPath /\ OpenIsWanted /\ AdoptedIsOpen
    BY ConnectionAssumption DEF Init, OneRecoveryPath, OpenIsWanted, IsOpen, AdoptedIsOpen
  <2> QED BY <2>1, <2>2 DEF Init, IInv
<1> QED BY <1>1, Step, PTL DEF Spec

(* Every variable keeps its type, and a call of connect() its connection.    *)
THEOREM Typing == Spec => []TypeOK
BY Invariance, PTL DEF IInv

(* There is never a second path of recovery, and before shutdown never none. *)
THEOREM OnePath == Spec => []OneRecoveryPath
BY Invariance, PTL DEF IInv

(* No failure of connect() and no close leaks an open connection, and never  *)
(* are two of them open.                                                     *)
THEOREM NoLeak == Spec => []NoStrayConnection
<1>1. Init => OneOpen /\ LeftBehind
  BY DEF Init, OneOpen, LeftBehind, IsOpen
<1>2. IInv /\ OneOpen => NoStrayConnection
  BY DEF IInv, NoStrayConnection
<1> QED BY <1>1, <1>2, OneOpenStep, Invariance, PTL DEF Spec

(* Unless a close comes in the chunk of a reply, an adopted connection whose *)
(* close was seen is no longer adopted.                                      *)
THEOREM AdoptedStaysOpen ==
  ASSUME ~SameChunk
  PROVE  Spec => []AdoptedIsOpen
<1>1. IInv => AdoptedIsOpen
  BY DEF IInv
<1> QED BY <1>1, Invariance, PTL

(* A service that is shut down starts no attempt and no timer.               *)
THEOREM QuietAfterShutdown == Spec => NothingStartsAfterShutdown
<1> DEFINE Quiet == stopped => (connecting' => connecting) /\ (timer' => timer)
<1>1. IInv /\ [Next]_vars => [Quiet]_vars
  <2> SUFFICES ASSUME IInv, Next, stopped PROVE (connecting' => connecting) /\ (timer' => timer)
    OBVIOUS
  <2>0. /\ timer \in BOOLEAN /\ timer' \in BOOLEAN
        /\ connecting \in BOOLEAN /\ connecting' \in BOOLEAN
    BY Step DEF IInv, TypeOK
  <2>1. CASE OnModuleInit \/ TimerFires \/ OnModuleDestroy
    <3>1. Call => connecting' = connecting
      BY DEF Call
    <3>2. connecting' = connecting /\ (timer' = timer \/ timer' = FALSE)
      BY <2>1, <3>1 DEF OnModuleInit, TimerFires, OnModuleDestroy
    <3> QED BY <3>2, <2>0
  <2>2. ASSUME NEW c \in Conns, Progress(c) \/ DialFails(c)
        PROVE  (connecting' => connecting) /\ (timer' => timer)
    <3>1. /\ connecting' = connecting \/ connecting' = FALSE
          /\ timer' = timer \/ timer' = (timer \/ ~stopped)
      BY <2>2, Zenon DEF Progress, Dialled, Replied, Adopt, Caught, DialFails, ScheduleReconnect, flags
    <3> QED BY <3>1, <2>0
  <2>3. ASSUME NEW c \in Conns, CloseOk(c) \/ ConnectionCloses(c) \/ ChannelCloses(c)
        PROVE  (connecting' => connecting) /\ (timer' => timer)
    <3>1. connecting' = connecting /\ \E left \in {"none", "lame"} : Event(c, left)
      BY <2>3 DEF CloseOk, ConnectionCloses, ChannelCloses
    <3>2. timer' = timer \/ timer' = (timer \/ ~stopped)
      BY <3>1, Zenon DEF Event, HandleDisconnect, ScheduleReconnect
    <3> QED BY <3>1, <3>2, <2>0
  <2> QED BY <2>1, <2>2, <2>3 DEF Next
<1> QED BY <1>1, Invariance, PTL DEF Spec, NothingStartsAfterShutdown

(* The adopted connection is given up only on its own events or at shutdown. *)
THEOREM OwnEvents == Spec => OnlyItsOwnEvents
<1> DEFINE Own == connection # NoConn /\ connection' = NoConn /\ stopped' = stopped
                    => \A d \in Conns \ {connection} : net'[d] = net[d]
<1>1. IInv /\ [Next]_vars => [Own]_vars
  <2> SUFFICES ASSUME IInv, Next, connection # NoConn, connection' = NoConn, stopped' = stopped,
                      NEW d \in Conns, d # connection
               PROVE  net'[d] = net[d]
    OBVIOUS
  <2>1. connection' # connection
    OBVIOUS
  <2>2. ~ (OnModuleInit \/ TimerFires \/ OnModuleDestroy)
    BY <2>1 DEF OnModuleInit, TimerFires, OnModuleDestroy
  <2>3. \A c \in Conns : ~ (Progress(c) \/ DialFails(c))
    BY <2>1, ConnectionAssumption DEF Progress, Dialled, Replied, Adopt, Caught, DialFails, flags
  <2>4. PICK c \in Conns : CloseOk(c) \/ ConnectionCloses(c) \/ ChannelCloses(c)
    BY <2>2, <2>3 DEF Next
  <2>5. PICK left \in {"none", "lame"} : Event(c, left)
    BY <2>4 DEF CloseOk, ConnectionCloses, ChannelCloses
  <2>6. connection = c /\ HandleDisconnect([net EXCEPT ![c] = left])
    BY <2>1, <2>5 DEF Event
  <2> QED BY <2>6 DEF HandleDisconnect, Closing, IInv, TypeOK
<1> QED BY <1>1, Invariance, PTL DEF Spec, OnlyItsOwnEvents

(* Until shutdown the recovery never goes round: without a new failure       *)
(* every step of it brings the service nearer to a connection, of which it   *)
(* is never more than eight steps away, and keeps the one it has (the safety *)
(* half of Reconnects).                                                      *)
THEOREM RecoveryAdvances == Spec => OnlyFailuresSetBack /\ [](ToConnection \in 0..8)
<1> DEFINE Nearer == /\ ToConnection' <= ToConnection
                     /\ <<flags, pc>>' # <<flags, pc>> => ToConnection' < ToConnection
           Onward == faults' = faults /\ ~ stopped' => Nearer
           Where == /\ ToConnection \in 0..8
                    /\ connection # NoConn => ToConnection = 0
                    /\ connection = NoConn /\ ~ connecting =>
                         ToConnection = IF timer THEN 5 ELSE IF ~ booted THEN 8 ELSE 6
                    /\ \A c \in Conns :
                         /\ pc[c] = "adopt" => ToConnection = 1
                         /\ pc[c] = "topology" => ToConnection = 2
                         /\ pc[c] = "channel" => ToConnection = 3
                         /\ pc[c] = "dial" => ToConnection = 4
                         /\ pc[c] = "catch" => ToConnection = IF net[c] = "closing" THEN 7 ELSE 6
<1>1. IInv => Where
  BY Distances
<1>2. ASSUME IInv, NotClosing, Where, Where', Next, IInv', faults' = faults, ~ stopped'
      PROVE  Nearer
  <2> USE <1>2, ConnectionAssumption
  <2>0. ToConnection \in Nat /\ ToConnection' \in Nat
    OBVIOUS
  <2>1. ASSUME <<flags, pc>>' = <<flags, pc>>, ToConnection' <= ToConnection PROVE Nearer
    BY <2>1
  <2>2. CASE OnModuleInit \/ TimerFires
    <3>1. /\ ~ connecting /\ connection = NoConn /\ ~ stopped
          /\ ToConnection \in {5, 8}
      BY <2>2 DEF OnModuleInit, TimerFires, IInv, OneRecoveryPath
    <3>2. PICK c \in Conns : Goto(c, "dial")
      BY <2>2, <3>1 DEF OnModuleInit, TimerFires, Call
    <3>3. pc'[c] = "dial"
      BY <3>2 DEF Goto, IInv, TypeOK
    <3> QED BY <3>1, <3>3
  <2>3. ASSUME NEW c \in Conns, Dialled(c) \/ Replied(c) \/ Adopt(c) \/ Caught(c) PROVE Nearer
    <3>1. CASE Dialled(c)
      <4>1. pc[c] = "dial" /\ pc'[c] = "channel"
        BY <3>1 DEF Dialled, Goto, IInv, TypeOK
      <4> QED BY <4>1
    <3>2. CASE Replied(c)
      <4>1. \/ pc[c] = "channel" /\ pc'[c] = "topology"
            \/ pc[c] = "topology" /\ pc'[c] = "adopt"
        BY <3>2 DEF Replied, Goto, IInv, TypeOK
      <4> QED BY <4>1
    <3>3. CASE Adopt(c)
      <4>1. pc[c] = "adopt" /\ connection' # NoConn
        BY <3>3 DEF Adopt
      <4> QED BY <4>1
    <3>4. CASE Caught(c)
      <4>1. /\ pc[c] = "catch" /\ net[c] # "closing" /\ connection' = connection /\ ~ connecting'
            /\ stopped' = stopped /\ timer' = (timer \/ ~ stopped)
        BY <3>4 DEF Caught, ScheduleReconnect
      <4>2. connection = NoConn
        BY <4>1 DEF IInv, OneRecoveryPath
      <4>3. timer'
        BY <4>1
      <4>4. ToConnection = 6 /\ ToConnection' = 5
        BY <4>1, <4>2, <4>3
      <4> QED BY <4>4
    <3> QED BY <2>3, <3>1, <3>2, <3>3, <3>4
  <2>4. ASSUME NEW c \in Conns, CloseOk(c) PROVE Nearer
    <3>1. connection # c
      BY <2>4 DEF CloseOk, NotClosing
    <3>2. /\ UNCHANGED <<connection, connecting, timer, stopped, booted, pc>>
          /\ \A d \in Conns : net'[d] = "closing" => net[d] = "closing"
      <4>1. /\ connection' = connection /\ timer' = timer
            /\ net' = IF pc'[c] = "catch" THEN Closing([net EXCEPT ![c] = "none"], c) ELSE [net EXCEPT ![c] = "none"]
        BY <2>4, <3>1 DEF CloseOk, Event
      <4>2. net' = [net EXCEPT ![c] = "none"]
        BY <4>1 DEF Closing, IInv, TypeOK
      <4> QED BY <2>4, <4>1, <4>2 DEF CloseOk, IInv, TypeOK
    <3>3. ToConnection' <= ToConnection
      BY <3>2 DEF ToConnection, At
    <3> QED BY <2>1, <3>2, <3>3 DEF flags
  <2>5. ~ OnModuleDestroy
    BY DEF OnModuleDestroy
  <2>6. \A c \in Conns : ~ DialFails(c) /\ ~ ConnectionCloses(c) /\ ~ ChannelCloses(c)
    BY DEF DialFails, ConnectionCloses, ChannelCloses, Fault, IInv, TypeOK
  <2> QED BY <2>2, <2>3, <2>4, <2>5, <2>6 DEF Next, Progress
<1>3. IInv /\ NotClosing /\ Where /\ Where' /\ IInv' /\ [Next]_vars => [Onward]_vars
  BY <1>2
<1>4. Init => NotClosing
  BY ConnectionAssumption DEF Init, NotClosing
<1>5. Where => ToConnection \in 0..8
  OBVIOUS
<1> QED BY <1>1, <1>3, <1>4, <1>5, NotClosingStep, Invariance, PTL DEF Spec, OnlyFailuresSetBack
=============================================================================
