------------------------------- MODULE Network ------------------------------
(***************************************************************************)
(* The network side of the program (net/server.rs, net/client.rs and the   *)
(* incoming consumer of main.rs): clients connect to a port, get what is   *)
(* published for that port and send messages of their own, which the       *)
(* incoming consumer feeds into the tracker.                               *)
(*                                                                         *)
(* Both directions go through tokio broadcast channels.  A channel keeps   *)
(* the last Capacity values; a receiver that has fallen further behind     *)
(* gets Lagged once and is moved to the oldest value kept.  The k-th value *)
(* published on a port is represented by k.                                *)
(***************************************************************************)
EXTENDS Integers, Sequences

CONSTANTS
  Client,
  Port,          (* the ports opened: a subset of {"hex", "sbs"}            *)
  OutCapacity,   (* capacity of an outgoing channel                         *)
  InCapacity,    (* capacity of the incoming channel                        *)
  NoPort,
  MaxOut,        (* bound on the values published per port                  *)
  MaxIn,         (* bound on the messages received from clients             *)
  MaxPerRead     (* bound on the messages in one read of a socket           *)

ASSUME NetworkAssumption ==
  /\ Port \subseteq {"hex", "sbs"}
  /\ NoPort \notin Port
  /\ OutCapacity \in Nat \ {0}
  /\ InCapacity \in Nat \ {0}
  /\ MaxOut \in Nat
  /\ MaxIn \in Nat
  /\ MaxPerRead \in Nat

VARIABLES
  server,      (* whether the accept loop still runs                        *)
  out,         (* how many values each port has published                   *)
  conn,        (* the port each client is connected to                      *)
  next,        (* the position of each client's outgoing receiver           *)
  writing,     (* the value its write_loop is writing, 0 when it waits      *)
  pending,     (* what its read_loop has parsed but not yet sent on         *)
  since,       (* history: the first value published after it connected     *)
  got,         (* history: the values written to it                         *)
  overrun,     (* history: a value it had not taken was overwritten         *)
  incoming,    (* history: all messages sent on the incoming channel        *)
  cpc,         (* where the incoming consumer is                            *)
  cnext,       (* the position of its receiver                              *)
  fed          (* history: the positions of the messages fed to the tracker *)

clientVars   == <<conn, next, writing, pending, since, got, overrun>>
consumerVars == <<cpc, cnext, fed>>
vars == <<server, out, clientVars, incoming, consumerVars>>

(* A DecodedMessage, by what parse_modes_message makes of its data: a      *)
(* frame with a good or bad checksum, or bytes of no frame's length.       *)
Data == {"good", "bad", "ident"}

(* The line of a hex client carries a frame; what is passed on of an SBS   *)
(* client's line are the six characters of its address field.              *)
Parse(port, line) == IF port = "sbs" THEN "ident" ELSE line

Lines == {"good", "bad"}

Feedable(data) == data = "good"

TypeOK ==
  /\ server \in {"listening", "ended"}
  /\ out \in [Port -> 0 .. MaxOut]
  /\ conn \in [Client -> Port \cup {NoPort}]
  /\ next \in [Client -> 1 .. MaxOut + 1]
  /\ \A c \in Client, p \in Port : conn[c] = p => next[c] <= out[p] + 1
  /\ writing \in [Client -> 0 .. MaxOut]
  /\ pending \in [Client -> Seq(Data)]
  /\ since \in [Client -> 1 .. MaxOut + 1]
  /\ got \in [Client -> Seq(1 .. MaxOut)]
  /\ overrun \in [Client -> BOOLEAN]
  /\ incoming \in Seq(Data) /\ Len(incoming) <= MaxIn
  /\ cpc \in {"recv", "work", "ended"}
  /\ cnext \in 1 .. MaxIn + 1
  /\ fed \in Seq(1 .. MaxIn)

Init ==
  /\ server = "listening"
  /\ out = [p \in Port |-> 0]
  /\ conn = [c \in Client |-> NoPort]
  /\ next = [c \in Client |-> 1]
  /\ writing = [c \in Client |-> 0]
  /\ pending = [c \in Client |-> <<>>]
  /\ since = [c \in Client |-> 1]
  /\ got = [c \in Client |-> <<>>]
  /\ overrun = [c \in Client |-> FALSE]
  /\ incoming = <<>>
  /\ cpc = "recv"
  /\ cnext = 1
  /\ fed = <<>>

Open(c) == conn[c] # NoPort

-----------------------------------------------------------------------------
(* The accept loop.                                                        *)

Accept_SkipsOne(c, p) ==            \* mutant: subscribes one message too late
  /\ server = "listening"
  /\ ~Open(c)
  /\ conn' = [conn EXCEPT ![c] = p]
  /\ next' = [next EXCEPT ![c] = out[p] + 2]
  /\ since' = [since EXCEPT ![c] = out[p] + 1]
  /\ UNCHANGED <<server, out, writing, pending, got, overrun, incoming, consumerVars>>

Accept_FromOldest(c, p) ==          \* mutant: replays what the channel holds
  /\ server = "listening"
  /\ ~Open(c)
  /\ conn' = [conn EXCEPT ![c] = p]
  /\ next' = [next EXCEPT ![c] = IF out[p] < OutCapacity THEN 1 ELSE out[p] - OutCapacity + 1]
  /\ since' = [since EXCEPT ![c] = out[p] + 1]
  /\ UNCHANGED <<server, out, writing, pending, got, overrun, incoming, consumerVars>>

(* The client gets its own receiver, which starts after what has already   *)
(* been published, before its task is spawned.                             *)
Accept(c, p) ==
  /\ server = "listening"
  /\ ~Open(c)
  /\ conn' = [conn EXCEPT ![c] = p]
  /\ next' = [next EXCEPT ![c] = out[p] + 1]
  /\ since' = [since EXCEPT ![c] = out[p] + 1]
  /\ UNCHANGED <<server, out, writing, pending, got, overrun, incoming, consumerVars>>

(* An error of accept ends the loop; the clients connected stay.           *)
AcceptFails ==
  /\ server = "listening"
  /\ server' = "ended"
  /\ UNCHANGED <<out, clientVars, incoming, consumerVars>>

-----------------------------------------------------------------------------
(* The main loop and the SBS task publish without waiting for anybody.     *)
Publish(p) ==
  /\ out[p] < MaxOut
  /\ out' = [out EXCEPT ![p] = @ + 1]
  /\ overrun' = [c \in Client |->
                   overrun[c] \/ (conn[c] = p /\ next[c] <= out'[p] - OutCapacity)]
  /\ UNCHANGED <<server, conn, next, writing, pending, since, got, incoming, consumerVars>>

-----------------------------------------------------------------------------
(* write_loop.  It shares a task with read_loop, which does not yield      *)
(* while it works on the bytes of one read.                                *)

Take_LagKeepsPlace(c) ==            \* mutant: reads the slot, not its value
  LET oldest == out[conn[c]] - OutCapacity + 1 IN
  /\ Open(c)
  /\ pending[c] = <<>>
  /\ writing[c] = 0
  /\ next[c] <= out[conn[c]]
  /\ next' = [next EXCEPT ![c] = @ + 1]
  /\ writing' = [writing EXCEPT ![c] = IF next[c] < oldest THEN next[c] + OutCapacity ELSE next[c]]
  /\ UNCHANGED <<server, out, conn, pending, since, got, overrun, incoming, consumerVars>>

(* recv: the next value, or Lagged and on to the oldest one kept.          *)
Take(c) ==
  LET oldest == out[conn[c]] - OutCapacity + 1 IN
  /\ Open(c)
  /\ pending[c] = <<>>
  /\ writing[c] = 0
  /\ next[c] <= out[conn[c]]
  /\ IF next[c] < oldest
     THEN next' = [next EXCEPT ![c] = oldest] /\ UNCHANGED writing
     ELSE next' = [next EXCEPT ![c] = @ + 1] /\ writing' = [writing EXCEPT ![c] = next[c]]
  /\ UNCHANGED <<server, out, conn, pending, since, got, overrun, incoming, consumerVars>>

(* write_all finished.                                                     *)
Written(c) ==
  /\ Open(c)
  /\ pending[c] = <<>>
  /\ writing[c] # 0
  /\ got' = [got EXCEPT ![c] = Append(@, writing[c])]
  /\ writing' = [writing EXCEPT ![c] = 0]
  /\ UNCHANGED <<server, out, conn, next, pending, since, overrun, incoming, consumerVars>>

-----------------------------------------------------------------------------
(* read_loop                                                               *)

(* One read, and everything parsed from it.                                *)
ReadLines(c, lines) ==
  /\ Open(c)
  /\ pending[c] = <<>>
  /\ Len(incoming) + Len(lines) <= MaxIn
  /\ pending' = [pending EXCEPT ![c] = [i \in DOMAIN lines |-> Parse(conn[c], lines[i])]]
  /\ UNCHANGED <<server, out, conn, next, writing, since, got, overrun, incoming, consumerVars>>

(* incoming_tx.send, whose error (no receiver) is ignored.                 *)
SendOn(c) ==
  /\ pending[c] # <<>>
  /\ Len(incoming) < MaxIn
  /\ pending' = [pending EXCEPT ![c] = Tail(@)]
  /\ incoming' = Append(incoming, Head(pending[c]))
  /\ UNCHANGED <<server, out, conn, next, writing, since, got, overrun, consumerVars>>

(* End of input, a read error or a write error: select! drops the other    *)
(* loop and the connection, a write in progress included, and with them    *)
(* the receiver of the outgoing channel.                                   *)
Disconnect(c) ==
  /\ Open(c)
  /\ pending[c] = <<>>
  /\ conn' = [conn EXCEPT ![c] = NoPort]
  /\ next' = [next EXCEPT ![c] = 1]
  /\ writing' = [writing EXCEPT ![c] = 0]
  /\ since' = [since EXCEPT ![c] = 1]
  /\ got' = [got EXCEPT ![c] = <<>>]
  /\ overrun' = [overrun EXCEPT ![c] = FALSE]
  /\ UNCHANGED <<server, out, pending, incoming, consumerVars>>

-----------------------------------------------------------------------------
(* The incoming consumer: `while let Ok(msg) = recv().await`.              *)

(* The pattern of the loop matches no error: Lagged ends it for good.      *)
ConsumerRecv ==
  LET oldest == Len(incoming) - InCapacity + 1 IN
  /\ cpc = "recv"
  /\ cnext <= Len(incoming)
  /\ IF cnext < oldest
     THEN cpc' = "ended" /\ UNCHANGED cnext
     ELSE cpc' = "work" /\ cnext' = cnext + 1
  /\ UNCHANGED <<server, out, clientVars, incoming, fed>>

ConsumerFeed_Unchecked ==           \* mutant: crc_ok is not tested
  /\ cpc = "work"
  /\ cpc' = "recv"
  /\ fed' = IF incoming[cnext - 1] # "ident" THEN Append(fed, cnext - 1) ELSE fed
  /\ UNCHANGED <<server, out, clientVars, incoming, cnext>>

(* Parsed, tested and fed; what is no frame or a bad one is dropped.       *)
ConsumerFeed ==
  /\ cpc = "work"
  /\ cpc' = "recv"
  /\ fed' = IF Feedable(incoming[cnext - 1]) THEN Append(fed, cnext - 1) ELSE fed
  /\ UNCHANGED <<server, out, clientVars, incoming, cnext>>

-----------------------------------------------------------------------------
Next ==
  \/ \E c \in Client :
       \/ \E p \in Port : Accept(c, p)
       \/ Take(c)
       \/ Written(c)
       \/ \E n \in 1 .. MaxPerRead : \E lines \in [1 .. n -> Lines] : ReadLines(c, lines)
       \/ SendOn(c)
       \/ Disconnect(c)
  \/ AcceptFails
  \/ \E p \in Port : Publish(p)
  \/ ConsumerRecv
  \/ ConsumerFeed

Spec == Init /\ [][Next]_vars

-----------------------------------------------------------------------------
(* A connected client that was never more than the capacity of the channel *)
(* behind has got everything published since it connected and nothing      *)
(* else, in order, whatever the other clients did.                         *)
CompleteUnlessOverrun ==
  \A c \in Client :
    Open(c) /\ ~overrun[c] =>
      LET taken == IF writing[c] = 0 THEN got[c] ELSE Append(got[c], writing[c])
      IN  taken = [i \in 1 .. next[c] - since[c] |-> since[c] + i - 1]

(* A client that was overrun still gets increasing values: a gap, but      *)
(* nothing twice and nothing out of order.                                 *)
NothingTwice ==
  \A c \in Client : \A i \in 1 .. Len(got[c]) - 1 : got[c][i] < got[c][i + 1]

(* Between two messages, and when it has ended, the good frames among the  *)
(* ones the consumer has passed are exactly the ones it fed to the         *)
(* tracker, each once and in the order in which they arrived.              *)
FramesAreFed ==
  cpc # "work" =>
    /\ \A i, j \in DOMAIN fed : i < j => fed[i] < fed[j]
    /\ {fed[i] : i \in DOMAIN fed} = {k \in 1 .. cnext - 1 : incoming[k] = "good"}

(* "Beast/Hex/SBS data received on network ports (30002/30003/30005) is    *)
(* now dispatched to the appropriate parser and fed into the tracker"      *)
(* (CHANGELOG, 0.4.0): the consumer keeps running.  A burst longer than    *)
(* the channel (one 64 KiB read of hex lines is) ends it.                  *)
InputStaysOn == cpc # "ended"

=============================================================================
