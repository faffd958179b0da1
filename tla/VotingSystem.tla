---------------------------- MODULE VotingSystem ----------------------------
(***************************************************************************)
(* Clients and server together: connection c of ServerSocket is the one    *)
(* the run c of the client program opens. Between them is net[c], what is  *)
(* on its way from the client: the request to connect, the end of the TLS  *)
(* handshake, the vote. A connection may break at any time, which loses    *)
(* what is still on its way, in both directions.                           *)
(***************************************************************************)
EXTENDS ServerSocket

CONSTANTS
  BadEntry,     \* a typed id that makes a message the server rejects
  NoEntry,
  NoResponse

VARIABLES
  pc, held, voter_id, candidate, connect_error, response, shown, net

C == INSTANCE VotingClient
       WITH Clients <- Conns, Entries <- VoterIds \cup {BadEntry},
            Responses <- Reply

serverVars == vars
clientVars ==
  <<pc, held, voter_id, candidate, connect_error, response, shown>>
systemVars == <<vars, clientVars, net>>

(* Mutant: the list's default is sent, whatever the voter has chosen.      *)
VoteMessageDefaulted(c) ==
  IF voter_id[c] = BadEntry
  THEN Malformed
  ELSE [voter |-> voter_id[c], candidate |-> CHOOSE k \in Candidates : TRUE]

(* send_vote's "%s %s", as parse_vote_message will take it. *)
VoteMessage(c) ==
  IF voter_id[c] = BadEntry
  THEN Malformed
  ELSE [voter |-> voter_id[c], candidate |-> candidate[c]]

Ship(c, item) == net' = [net EXCEPT ![c] = Append(@, item)]

Arrives(c, item) ==
  /\ net[c] # <<>> /\ Head(net[c]) = item
  /\ net' = [net EXCEPT ![c] = Tail(@)]

Syn == [kind |-> "syn"]
Finished == [kind |-> "finished"]
Carrying(m) == [kind |-> "vote", vote |-> m]

-----------------------------------------------------------------------------
SystemInit ==
  /\ Init
  /\ C!Init
  /\ net = [c \in Conns |-> <<>>]

(* Steps of the server that take no part of the peer. *)
ServerAlone ==
  /\ \/ Start
     \/ Listen
     \/ ProcessEnds
     \/ AcceptLoop
     \/ \E c \in Conns : HandleClient(c)
  /\ UNCHANGED <<clientVars, net>>

(* Steps of the client that take no part of the server. The handshake      *)
(* cannot succeed before the server's part of it, nor the connect before   *)
(* the server's kernel has taken the connection; both may always fail.     *)
ClientAlone(c) ==
  /\ \/ C!ShowLogin(c)
     \/ /\ C!CallReturns(c)
        /\ pc[c] # "connect"
        /\ pc[c] = "getsockopt" => handler[c] # "idle"
        /\ pc[c] = "ssl_connect" =>
             net[c] = <<Finished>> \/ handler[c] \in Open
     \/ C!CallFails(c)
     \/ C!ShowConnectError(c)
     \/ C!ShowVotingMenu(c)
     \/ C!CloseConnection(c)
     \/ C!Killed(c)
  /\ UNCHANGED <<serverVars, net>>

(* connect sends its request and does not wait. *)
ClientConnects(c) ==
  /\ pc[c] = "connect" /\ C!CallReturns(c)
  /\ Ship(c, Syn)
  /\ UNCHANGED serverVars

ClientConnectsAtOnce(c) ==
  /\ C!ConnectsAtOnce(c)
  /\ PeerConnects(c)
  /\ UNCHANGED net

(* The kernel of the server takes the connection, which may be after the   *)
(* client has stopped waiting for it.                                      *)
Established(c) ==
  /\ Arrives(c, Syn)
  /\ PeerConnects(c)
  /\ UNCHANGED clientVars

(* SSL_connect sends the last message of the client's handshake. *)
ClientFinishes(c) ==
  /\ pc[c] = "ssl_connect" /\ handler[c] = "ssl_accept" /\ net[c] = <<>>
  /\ Ship(c, Finished)
  /\ UNCHANGED <<serverVars, clientVars>>

HandshakeSucceeds(c) ==
  /\ Arrives(c, Finished)
  /\ Handshake(c) /\ handler'[c] = "enter"
  /\ UNCHANGED clientVars

HandshakeFails(c) ==
  /\ Handshake(c) /\ handler'[c] = "failed"
  /\ UNCHANGED <<clientVars, net>>

ClientSendsVote(c) ==
  /\ C!SendVote(c)
  /\ Ship(c, Carrying(VoteMessage(c)))
  /\ UNCHANGED serverVars

VoteArrives(c) ==
  /\ PeerSends(c)
  /\ Arrives(c, Carrying(sent'[c][Len(sent'[c])]))
  /\ UNCHANGED clientVars

(* Mutant: main takes the answer of send_vote the wrong way round. *)
ClientGetsReplyMisread(c) ==
  /\ replies[c] # <<>>
  /\ C!ShowSendError(c)
  /\ UNCHANGED <<serverVars, net>>

(* The first reply of the server reaches the client. *)
ClientGetsReply(c) ==
  /\ replies[c] # <<>>
  /\ C!ShowReceipt(c, replies[c][1])
  /\ UNCHANGED <<serverVars, net>>

(* The connection is broken, or closed by the server. *)
ClientGetsNothing(c) ==
  /\ hungup[c] \/ handler[c] \in Over
  /\ C!ShowSendError(c)
  /\ UNCHANGED <<serverVars, net>>

(* The server's side sees the connection end: the client has closed it, or *)
(* the network has failed.                                                 *)
ConnectionBreaks(c) ==
  /\ PeerHangsUp(c)
  /\ UNCHANGED <<clientVars, net>>

-----------------------------------------------------------------------------
Network(c) ==
  \/ Established(c)
  \/ HandshakeSucceeds(c)
  \/ VoteArrives(c)

AwaitsReply(c) == ClientGetsReply(c) \/ ClientGetsNothing(c)

SystemNext ==
  \/ ServerAlone
  \/ \E c \in Conns :
       \/ ClientAlone(c)
       \/ ClientConnects(c)
       \/ ClientConnectsAtOnce(c)
       \/ ClientFinishes(c)
       \/ ClientSendsVote(c)
       \/ AwaitsReply(c)
       \/ HandshakeFails(c)
       \/ Network(c)
       \/ ConnectionBreaks(c)

SystemSpec == SystemInit /\ [][SystemNext]_systemVars

(* Threads and processes run, what is on its way arrives or its connection *)
(* breaks, and the end of a process or its socket reaches the other side.  *)
(* Nobody has to type, to choose or to start a server, and SSL_connect     *)
(* may wait for ever.                                                      *)
SystemFairness ==
  /\ WF_systemVars(AcceptLoop /\ UNCHANGED <<clientVars, net>>)
  /\ \A c \in Conns :
       /\ WF_systemVars(HandleClient(c) /\ UNCHANGED <<clientVars, net>>)
       /\ WF_systemVars(hungup[c] /\ HandshakeFails(c))
       /\ WF_systemVars(Network(c))
       /\ WF_systemVars("socket" \notin held[c] /\ ConnectionBreaks(c))
       /\ WF_systemVars(ClientSendsVote(c))
       /\ WF_systemVars(AwaitsReply(c))
       /\ WF_systemVars(C!CloseConnection(c) /\ ClientAlone(c))

FairSystemSpec == SystemSpec /\ SystemFairness

-----------------------------------------------------------------------------
(* Properties. *)

GotAck(c) == shown[c] = "receipt" /\ response[c].kind = "ACK"

ShownReceipts ==
  {[voter |-> voter_id[c], candidate |-> candidate[c],
    receipt |-> response[c].receipt] : c \in {d \in Conns : GotAck(d)}}

Promise == INSTANCE BallotBox
             WITH Voters <- Roll, ballots <- Ballots, confirmed <- ShownReceipts

(* What voters see on their screens is a ballot box: one lasting ballot    *)
(* per voter, and a receipt shown is for the vote this voter chose, in the *)
(* box with that very receipt.                                             *)
ReceiptsAreBallots == Promise!Spec

(* Every row of votos is the choice made in one run of the client: the id  *)
(* typed and the candidate confirmed there, and no run makes two rows.     *)
BallotsAreChoices ==
  /\ \A k \in DOMAIN votos :
       /\ votos[k].voter = voter_id[caster[k][1]]
       /\ votos[k].candidate = candidate[caster[k][1]]
  /\ \A j, k \in DOMAIN votos : caster[j][1] = caster[k][1] => j = k

(* The windows tell the truth. After a connection error, at the time limit *)
(* or later, this run casts no vote, though the server may still accept    *)
(* its connection. JA_VOTOU: the voter has a ballot from another run.      *)
(* ERRO_DB and the other refusals: this run has cast no vote either.       *)
ErrorsAreTrue ==
  \A c \in Conns :
    /\ \/ shown[c] \in {"connect_error", "connect_fallback"}
       \/ shown[c] = "receipt" /\ response[c].kind # "ACK"
       => \A k \in DOMAIN votos : caster[k][1] # c
    /\ shown[c] = "receipt" /\ response[c].kind = "JA_VOTOU" =>
         \E k \in DOMAIN votos : votos[k].voter = voter_id[c]

(* The voter of a recorded vote reads the ACK with the receipt of that     *)
(* row, or is still waiting for it or has been killed waiting. There is    *)
(* one way to lose it: ssl_send's result is ignored, so the connection     *)
(* that breaks, or the process that ends, takes the ACK along, and the     *)
(* window says "Falha ao enviar voto". No other window ever hides a row.   *)
ReceiptUnlessLost ==
  \A k \in DOMAIN votos :
    LET c == caster[k][1]
    IN  \/ GotAck(c) /\ response[c].receipt = votos[k].receipt
        \/ shown[c] = "nothing" /\ pc[c] \in {"ssl_recv", "killed"}
        \/ shown[c] = "send_error" /\ (hungup[c] \/ handler[c] = "gone")

(* "Falha ao enviar voto": the vote has not been sent, so it is not in     *)
(* the table.                                                              *)
SendErrorMeansNoVote ==
  \A c \in Conns : shown[c] = "send_error" =>
    \A k \in DOMAIN votos : caster[k][1] # c

(* A voter who has confirmed a choice is shown an outcome, unless the      *)
(* program is killed: a connection that is open stays answered or breaks.  *)
ChoiceGetsOutcome ==
  \A c \in Conns : pc[c] = "ssl_send" ~> pc[c] \in C!Ended

(* The server lets go of the connection of every run that is over, also    *)
(* when it accepts it after the client's time limit.                       *)
EndedRunReleased ==
  \A c \in Conns :
    pc[c] \in C!Ended /\ handler[c] # "idle" ~> handler[c] \in Over

-----------------------------------------------------------------------------
(* The inductive invariant, which VotingSystemProofs proves.               *)

(* The client has not called connect, it has a connection and no vote on   *)
(* it yet, it makes no more call that sends.                               *)
Unconnected == {"show_login", "socket", "inet_pton", "nonblock", "connect"}

BeforeVote == {"restore", "init_client_ssl", "ssl_connect", "malloc",
               "show_voting_menu", "ssl_send"}

AfterVote == {"ssl_recv", "close_ssl_connection"} \cup C!Ended

(* No vote has left the client; or one has, the voter's, and is on its way *)
(* or with the server.                                                     *)
NoVoteOut(c) ==
  sent[c] = <<>> /\ net[c] \in {<<>>, <<Syn>>, <<Finished>>}

VoteOut(c) ==
  LET vote == Carrying(VoteMessage(c))
  IN  \/ sent[c] = <<>> /\ net[c] \in {<<vote>>, <<Finished, vote>>}
      \/ sent[c] = <<VoteMessage(c)>> /\ net[c] = <<>>

(* A run has one vote to send, and the server's kernel takes its           *)
(* connection once.                                                        *)
OneVote(c) ==
  /\ NoVoteOut(c) \/ (VoteOut(c) /\ pc[c] \in AfterVote)
  /\ net[c] = <<Syn>> => handler[c] = "idle"
  /\ pc[c] \in Unconnected => net[c] = <<>> /\ handler[c] = "idle"
  /\ pc[c] \in BeforeVote => handler[c] # "idle"

(* What is on the screen is what came back.                                *)
TrueScreen(c) ==
  /\ shown[c] # "nothing" => pc[c] \in {"close_ssl_connection"} \cup C!Ended
  /\ shown[c] = "receipt" => replies[c] # <<>> /\ response[c] = replies[c][1]
  /\ shown[c] \in {"connect_error", "connect_fallback"} =>
       pc[c] \in C!Ended /\ NoVoteOut(c)

(* A run that is not killed waits for its outcome, and gets none only over *)
(* a connection that is lost.                                              *)
Outcome(c) ==
  /\ pc[c] \in {"close_ssl_connection", "exit"} => shown[c] # "nothing"
  /\ shown[c] = "send_error" => hungup[c] \/ handler[c] \in Over

Ending == {"ssl_cleanup", "leave", "done"}

Unheard == {"idle", "queued", "accepted", "ssl_accept", "refused", "failed"}

(* The server ends a session when its peer is gone, and has heard nothing  *)
(* of a peer without one.                                                  *)
Served(c) ==
  /\ handler[c] \in Ending => hungup[c]
  /\ handler[c] \in Unheard => sent[c] = <<>>

SystemInv ==
  /\ IInv /\ C!TypeOK /\ net = [c \in Conns |-> net[c]]
  /\ \A c \in Conns : OneVote(c) /\ TrueScreen(c) /\ Outcome(c) /\ Served(c)

=============================================================================
