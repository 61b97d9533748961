------------------------ MODULE RabbitConnectionInv -------------------------
(* What the connection of one backend process must keep, and the invariant   *)
(* that carries the proofs.                                                  *)
EXTENDS RabbitConnection

(* Where a call of connect() is and what its connection is must match.       *)
CallsMatch ==
  \A c \in Conns :
    /\ pc[c] = "dial" => net[c] = "none"
    /\ pc[c] \in {"channel", "topology"} => net[c] = "open"
    /\ pc[c] = "adopt" => SameChunk \/ net[c] = "open"
    /\ pc[c] = "catch" => net[c] \in {"closing", "none"}

(* Type invariant, with what a call of connect() and its connection share. *)
TypeOK ==
  /\ connection \in Conns \union {NoConn}
  /\ connecting \in BOOLEAN /\ timer \in BOOLEAN
  /\ stopped \in BOOLEAN /\ booted \in BOOLEAN
  /\ pc \in [Conns -> PCs]
  /\ net \in [Conns -> Nets]
  /\ faults \in Nat
  /\ CallsMatch

(* One path of recovery (comment of handleDisconnect): from onModuleInit to  *)
(* shutdown the service is connected, or connecting, or waits for its timer, *)
(* and never two of them. None would be a service that has given up, two     *)
(* would open two connections.                                               *)
OneRecoveryPath ==
  /\ timer => ~connecting /\ connection = NoConn
  /\ connecting => connection = NoConn
  /\ connecting <=> \E c \in Conns : pc[c] # "idle"
  /\ \A c, d \in Conns : pc[c] # "idle" /\ pc[d] # "idle" => c = d
  /\ booted /\ ~stopped => timer \/ connecting \/ connection # NoConn

IsOpen(c) == net[c] \in {"open", "lame"}

(* As long as the service runs, an open connection is adopted or being set   *)
(* up by the only call of connect().                                         *)
OpenIsWanted ==
  ~stopped => \A c \in Conns : IsOpen(c) => connection = c \/ pc[c] # "idle"

(* There are never two open connections, before or after shutdown.           *)
OneOpen == \A c, d \in Conns : IsOpen(c) /\ IsOpen(d) => c = d

(* No connection is left open by accident, whatever failed and in whichever  *)
(* order the close events come. A call of connect() that is pending at       *)
(* shutdown may still adopt its connection, which nothing closes then; the   *)
(* one it opens is all that can be left.                                     *)
NoStrayConnection == OpenIsWanted /\ OneOpen

(* publishEvent is never given a channel that is known to be closed.         *)
AdoptedIsOpen == \A c \in Conns : connection = c => net[c] = "open"

(* Late events of an old connection do not cost the new one: the service     *)
(* drops its connection only on an event of that connection or at shutdown.  *)
OnlyItsOwnEvents ==
  [][connection # NoConn /\ connection' = NoConn /\ stopped' = stopped
       => \A d \in Conns \ {connection} : net'[d] = net[d]]_vars

(* "Reconexion ... sin limite de intentos, tambien tras un 'close'" (header): *)
(* unless it is shut down, the service has an open connection again and      *)
(* again, whatever closed.                                                   *)
Reconnects == []<>(stopped \/ \E c \in Conns : connection = c /\ net[c] = "open")

(* A service that is shut down starts no connection attempt and no timer.    *)
NothingStartsAfterShutdown ==
  [][stopped => (connecting' => connecting) /\ (timer' => timer)]_vars

-----------------------------------------------------------------------------
(* The inductive invariant: an adopted connection has no call under way and, *)
(* unless closes come in the chunk of a reply, is open.                      *)
IInv ==
  /\ TypeOK /\ OneRecoveryPath /\ OpenIsWanted
  /\ timer => booted /\ ~stopped
  /\ connecting \/ connection # NoConn => booted
  /\ SameChunk \/ AdoptedIsOpen

-----------------------------------------------------------------------------
(* conn.close() is only ever called on a connection that has been given up.  *)
NotClosing ==
  \A c \in Conns : connection = c \/ pc[c] = "adopt" => net[c] # "closing"

(* An open connection that nobody refers to was left there after shutdown,   *)
(* and nothing opens another.                                                *)
LeftBehind ==
  \A c \in Conns : IsOpen(c) /\ pc[c] = "idle" /\ connection # c =>
    stopped /\ ~connecting /\ connection = NoConn

At(label) == \E c \in Conns : pc[c] = label

(* How many steps the service is from an adopted connection: the awaits of   *)
(* the call under way, the timer, the conn.close() of a failed call, boot.   *)
ToConnection ==
  IF connection # NoConn THEN 0
  ELSE IF At("adopt") THEN 1 ELSE IF At("topology") THEN 2
  ELSE IF At("channel") THEN 3 ELSE IF At("dial") THEN 4
  ELSE IF timer THEN 5
  ELSE IF ~ booted THEN 8
  ELSE IF \E c \in Conns : pc[c] = "catch" /\ net[c] = "closing" THEN 7 ELSE 6

(* The recovery is going somewhere: until the service is shut down, only a   *)
(* failure takes it away from a connection or costs it one, and all else     *)
(* that it does brings it nearer.                                            *)
OnlyFailuresSetBack ==
  [][faults' = faults /\ ~ stopped' =>
       /\ ToConnection' <= ToConnection
       /\ <<flags, pc>>' # <<flags, pc>> => ToConnection' < ToConnection]_vars
=============================================================================
