------------------------- MODULE VotingSystemProofs -------------------------
(* The theorems about clients and server together: what the voters read on *)
(* their screens agrees with the table, over connections that break.       *)
EXTENDS VotingSystem, ServerSocketProofs, SequenceTheorems

-----------------------------------------------------------------------------
(* The parts of the composition.                                           *)

(* A step of the system is a step of the server, or changes nothing of it. *)
LEMMA ServerStep ==
  ASSUME [SystemNext]_systemVars
  PROVE  [Next]_vars
<1> USE DEF serverVars
<1>1. CASE UNCHANGED systemVars
  BY <1>1 DEF systemVars
<1>2. CASE ServerAlone
  BY <1>2 DEF ServerAlone, Next
<1>3. ASSUME NEW c \in Conns,
             \/ ClientAlone(c) \/ ClientConnects(c) \/ ClientFinishes(c)
             \/ ClientSendsVote(c) \/ AwaitsReply(c)
      PROVE  UNCHANGED vars
  BY <1>3 DEF ClientAlone, ClientConnects, ClientFinishes, ClientSendsVote,
              AwaitsReply, ClientGetsReply, ClientGetsNothing
<1>4. ASSUME NEW c \in Conns,
             \/ ClientConnectsAtOnce(c) \/ Network(c) \/ HandshakeFails(c)
             \/ ConnectionBreaks(c)
      PROVE  Handshake(c) \/ Peer(c)
  BY <1>4 DEF ClientConnectsAtOnce, Network, Established, HandshakeSucceeds,
              VoteArrives, HandshakeFails, ConnectionBreaks, Peer
<1>5. (\E c \in Conns : Handshake(c) \/ Peer(c)) => Next
  BY DEF Next
<1> QED
  BY <1>1, <1>2, <1>3, <1>4, <1>5 DEF SystemNext

(* A step of the system is a step of a client, or changes nothing of them. *)
LEMMA ClientStep ==
  ASSUME IInv, [SystemNext]_systemVars
  PROVE  [C!Next]_(C!clientVars)
<1> USE DEF clientVars, C!clientVars
<1>1. CASE UNCHANGED systemVars
  BY <1>1 DEF systemVars
<1>2. CASE ServerAlone
  BY <1>2 DEF ServerAlone
<1>3. ASSUME NEW c \in Conns,
             ClientFinishes(c) \/ Network(c) \/ HandshakeFails(c) \/ ConnectionBreaks(c)
      PROVE  UNCHANGED clientVars
  BY <1>3 DEF ClientFinishes, Network, Established, HandshakeSucceeds, VoteArrives,
              HandshakeFails, ConnectionBreaks
<1>4. ASSUME NEW c \in Conns,
             \/ ClientAlone(c) \/ ClientConnects(c) \/ ClientConnectsAtOnce(c)
             \/ ClientSendsVote(c) \/ AwaitsReply(c)
      PROVE  C!Run(c)
  <2>1. CASE ClientAlone(c) \/ ClientConnects(c) \/ ClientConnectsAtOnce(c)
    BY <2>1 DEF ClientAlone, ClientConnects, ClientConnectsAtOnce, C!Run
  <2>2. CASE ClientSendsVote(c) \/ ClientGetsNothing(c)
    BY <2>2 DEF ClientSendsVote, ClientGetsNothing, C!Run
  <2>3. CASE ClientGetsReply(c)
    <3>1. replies[c] \in Seq(Reply) /\ replies[c] # <<>>
      BY <2>3 DEF ClientGetsReply, IInv, TypeOK
    <3>2. replies[c][1] \in Reply
      BY <3>1
    <3> QED
      BY <2>3, <3>2 DEF ClientGetsReply, C!Run
  <2> QED
    BY <1>4, <2>1, <2>2, <2>3 DEF AwaitsReply
<1> QED
  BY <1>1, <1>2, <1>3, <1>4 DEF SystemNext, C!Next

(* The client's variables keep their types.                                *)
LEMMA ClientTypes ==
  ASSUME C!TypeOK, [C!Next]_(C!clientVars)
  PROVE  C!TypeOK'
<1>1. CASE UNCHANGED C!clientVars
  BY <1>1 DEF C!clientVars, C!TypeOK
<1> USE DEF C!Goto, C!Show
<1>2. ASSUME NEW c \in Conns, C!CallReturns(c) \/ C!ConnectsAtOnce(c)
      PROVE  C!TypeOK'
  <2>1. /\ \A call \in C!ConnectCall : C!AfterCall[call] \in C!Pc
        /\ "restore" \in C!Pc
    BY DEF C!ConnectCall, C!AfterCall, C!Pc, C!InSession
  <2>2. \A call : C!Acquired(call) \subseteq C!Resource
    BY DEF C!Acquired, C!Resource
  <2> QED
    BY <1>2, <2>1, <2>2 DEF C!CallReturns, C!ConnectsAtOnce, C!TypeOK
<1>3. /\ {"connect_failed", "socket", "ssl_send", "ssl_recv",
          "close_ssl_connection", "exit", "killed"} \subseteq C!Pc
      /\ {"connect_error", "connect_fallback", "receipt", "send_error"}
           \subseteq C!Window
  BY DEF C!Pc, C!ConnectCall, C!AfterCall, C!InSession, C!Ended, C!Window
<1>4. ASSUME NEW c \in Conns,
             C!ShowLogin(c) \/ C!CallFails(c) \/ C!ShowConnectError(c) \/ C!ShowVotingMenu(c)
      PROVE  C!TypeOK'
  <2>1. CASE C!ShowLogin(c)
    BY <1>3, <2>1 DEF C!ShowLogin, C!TypeOK
  <2>2. CASE C!CallFails(c)
    BY <1>3, <2>2 DEF C!CallFails, C!TypeOK
  <2>3. CASE C!ShowConnectError(c)
    BY <1>3, <2>3 DEF C!ShowConnectError, C!TypeOK
  <2>4. CASE C!ShowVotingMenu(c)
    BY <1>3, <2>4 DEF C!ShowVotingMenu, C!TypeOK
  <2> QED
    BY <1>4, <2>1, <2>2, <2>3, <2>4
<1>5. ASSUME NEW c \in Conns,
             \/ C!SendVote(c) \/ C!ShowSendError(c) \/ C!CloseConnection(c) \/ C!Killed(c)
             \/ \E r \in Reply : C!ShowReceipt(c, r)
      PROVE  C!TypeOK'
  BY <1>3, <1>5 DEF C!SendVote, C!ShowSendError, C!CloseConnection, C!Killed,
                    C!ShowReceipt, C!TypeOK
<1> QED
  BY <1>1, <1>2, <1>4, <1>5 DEF C!Next, C!Run

-----------------------------------------------------------------------------
(* The vote on its way.                                                    *)

LEMMA OneOrTwo ==
  ASSUME NEW a, NEW b
  PROVE  /\ Append(<<>>, a) = <<a>> /\ Append(<<a>>, b) = <<a, b>>
         /\ Head(<<a>>) = a /\ Tail(<<a>>) = <<>>
         /\ Head(<<a, b>>) = a /\ Tail(<<a, b>>) = <<b>>
         /\ <<a>> # <<>> /\ <<a, b>> # <<>> /\ <<a>> # <<a, b>>
         /\ <<a>> = <<b>> => a = b
<1>1. Append(<<>>, a) = <<a>>
  OBVIOUS
<1>6. Append(<<a>>, b) = <<a, b>>
  <2> DEFINE S == {a, b}
             s == Append(<<a>>, b)
             t == <<a, b>>
  <2>1. <<a>> \in Seq(S) /\ t \in Seq(S)
    OBVIOUS
  <2>2. s \in Seq(S) /\ Len(s) = 2 /\ s[1] = a /\ s[2] = b
    BY <2>1, AppendProperties
  <2>3. Len(t) = 2 /\ t[1] = a /\ t[2] = b
    OBVIOUS
  <2> HIDE DEF S, s, t
  <2>4. Len(s) = Len(t) /\ \A i \in 1..Len(s) : s[i] = t[i]
    BY <2>2, <2>3
  <2>5. s = t
    BY <2>1, <2>2, <2>4, SeqEqual, Zenon
  <2> QED
    BY <2>5 DEF s, t
<1>2. Head(<<a>>) = a /\ Tail(<<a>>) = <<>>
  OBVIOUS
<1>3. Head(<<a, b>>) = a /\ Tail(<<a, b>>) = <<b>>
  OBVIOUS
<1>4. <<a>> # <<>> /\ <<a, b>> # <<>> /\ <<a>> # <<a, b>>
  OBVIOUS
<1>5. <<a>> = <<b>> => a = b
  OBVIOUS
<1> QED
  BY <1>1, <1>2, <1>3, <1>4, <1>5, <1>6

(* What travels can be told apart.                                         *)
LEMMA Kinds ==
  ASSUME NEW m, NEW n
  PROVE  /\ Syn # Finished /\ Carrying(m) # Syn /\ Carrying(m) # Finished
         /\ Carrying(m) = Carrying(n) => m = n
BY DEF Syn, Finished, Carrying

(* What the front of each stream is, and how the vote joins it.            *)
LEMMA Fronts ==
  ASSUME NEW m
  PROVE  LET vote == Carrying(m)
         IN  /\ <<Syn>> # <<Finished>> /\ <<Syn>> # <<>> /\ <<Finished>> # <<>>
             /\ <<vote>> # <<Syn>> /\ <<vote>> # <<Finished>> /\ <<vote>> # <<>>
             /\ <<Finished, vote>> # <<>> /\ <<Finished, vote>> # <<Syn>>
             /\ <<Finished, vote>> # <<Finished>>
             /\ Head(<<Syn>>) = Syn /\ Head(<<Finished>>) = Finished
             /\ Head(<<vote>>) = vote /\ Head(<<Finished, vote>>) = Finished
             /\ Tail(<<Syn>>) = <<>> /\ Tail(<<Finished>>) = <<>>
             /\ Tail(<<vote>>) = <<>> /\ Tail(<<Finished, vote>>) = <<vote>>
             /\ Append(<<>>, vote) = <<vote>>
             /\ Append(<<Finished>>, vote) = <<Finished, vote>>
<1> DEFINE vote == Carrying(m)
<1> HIDE DEF vote
<1>1. Syn # Finished /\ vote # Syn /\ vote # Finished
  BY Kinds DEF vote
<1>2. <<Syn>> # <<Finished>> /\ <<vote>> # <<Syn>> /\ <<vote>> # <<Finished>>
  BY <1>1, OneOrTwo
<1>3. <<Syn>> # <<>> /\ <<Finished>> # <<>> /\ <<vote>> # <<>> /\ <<Finished, vote>> # <<>>
  BY OneOrTwo
<1>4. <<Finished, vote>> # <<Finished>>
  BY OneOrTwo
<1>5. <<Finished, vote>> # <<Syn>>
  BY <1>1, OneOrTwo
<1>6. /\ Head(<<Syn>>) = Syn /\ Head(<<Finished>>) = Finished
      /\ Head(<<vote>>) = vote /\ Head(<<Finished, vote>>) = Finished
      /\ Tail(<<Syn>>) = <<>> /\ Tail(<<Finished>>) = <<>>
      /\ Tail(<<vote>>) = <<>> /\ Tail(<<Finished, vote>>) = <<vote>>
  BY OneOrTwo
<1>7. /\ Append(<<>>, vote) = <<vote>>
      /\ Append(<<Finished>>, vote) = <<Finished, vote>>
  BY OneOrTwo
<1> QED
  BY <1>2, <1>3, <1>4, <1>5, <1>6, <1>7 DEF vote

(* Nothing about run c and its stream changes.                             *)
Same(c) ==
  /\ pc'[c] = pc[c] /\ shown'[c] = shown[c] /\ response'[c] = response[c]
  /\ voter_id'[c] = voter_id[c] /\ candidate'[c] = candidate[c]
  /\ net'[c] = net[c] /\ sent'[c] = sent[c]
  /\ handler'[c] = "idle" <=> handler[c] = "idle"

(* What involves run c or its connection.                                  *)
Acts(c) ==
  \/ ClientAlone(c)
  \/ ClientConnects(c)
  \/ ClientConnectsAtOnce(c)
  \/ ClientFinishes(c)
  \/ ClientSendsVote(c)
  \/ AwaitsReply(c)
  \/ HandshakeFails(c)
  \/ Network(c)
  \/ ConnectionBreaks(c)

LEMMA SystemStepIs ==
  SystemNext <=> ServerAlone \/ \E c \in Conns : Acts(c)
BY DEF SystemNext, Acts

(* The server by itself opens no connection and reads into none.           *)
LEMMA ServerOpensNone ==
  ASSUME IInv, ServerAlone, NEW c \in Conns
  PROVE  /\ sent'[c] = sent[c]
         /\ handler'[c] = "idle" <=> handler[c] = "idle"
<1> USE DEF Goto, Refuse, wire, Serving
<1>1. handler \in [Conns -> HandlerPc]
  BY DEF IInv, TypeOK
<1>2. acceptor \in Listening \ {"accept"} =>
        client_socket \in Conns /\ handler[client_socket] = "accepted"
  BY DEF IInv, InHand
<1>3. CASE Start \/ Listen \/ ProcessEnds
  BY <1>1, <1>3 DEF Start, Listen, ProcessEnds
<1>4. CASE AcceptLoop
  <2>1. CASE \E d \in Conns : Accept(d)
    BY <1>1, <2>1 DEF Accept
  <2>2. CASE TurnAway \/ CreateThread \/ UncountThread
    BY <1>1, <1>2, <2>2 DEF TurnAway, CreateThread, UncountThread, Listening, AcceptorPc
  <2>3. CASE RateLimitAllows \/ CountThread
    BY <2>3 DEF RateLimitAllows, CountThread
  <2> QED
    BY <1>4, <2>1, <2>2, <2>3 DEF AcceptLoop
<1>5. ASSUME NEW d \in Conns, HandleClient(d)
      PROVE  /\ sent' = sent /\ handler[d] # "idle"
             /\ \E p : p # "idle" /\ handler' = [handler EXCEPT ![d] = p]
  <2>1. CASE Enter(d) \/ Recv(d) \/ RecvEnds(d) \/ VoterExists(d) \/ HasVoted(d)
    BY <2>1 DEF Enter, Recv, RecvEnds, VoterExists, HasVoted, Nack
  <2>2. CASE SaveVote(d) \/ GenerateReceipt(d) \/ CountVote(d) \/ Ack(d)
    BY <2>2 DEF SaveVote, VoteSaved, VoteNotSaved, Nack, GenerateReceipt, CountVote, Ack
  <2>3. CASE Cleanup(d) \/ Leave(d)
    BY <2>3 DEF Cleanup, Leave
  <2> QED
    BY <1>5, <2>1, <2>2, <2>3 DEF HandleClient
<1>6. CASE \E d \in Conns : HandleClient(d)
  BY <1>1, <1>5, <1>6
<1> QED
  BY <1>3, <1>4, <1>6 DEF ServerAlone

(* What the others do changes nothing about run c.                         *)
LEMMA OthersStill ==
  ASSUME SystemInv, NEW c \in Conns,
         ServerAlone \/ \E d \in Conns \ {c} : Acts(d)
  PROVE  Same(c)
<1>1. IInv /\ C!TypeOK /\ net = [e \in Conns |-> net[e]]
  BY DEF SystemInv
<1>2. CASE ServerAlone
  BY <1>1, <1>2, ServerOpensNone DEF ServerAlone, Same, clientVars
<1>3. ASSUME NEW d \in Conns \ {c}, Acts(d) PROVE Same(c)
  <2> USE DEF serverVars, vars, tables, counters, process, wire, clientVars
  <2>1. handler \in [Conns -> HandlerPc] /\ sent \in [Conns -> Seq(Message)]
    BY <1>1 DEF IInv, TypeOK
  <2>2. CASE ClientAlone(d)
    <3>1. UNCHANGED <<vars, net>>
      BY <2>2 DEF ClientAlone
    <3>2. /\ pc'[c] = pc[c] /\ shown'[c] = shown[c] /\ response'[c] = response[c]
          /\ voter_id'[c] = voter_id[c] /\ candidate'[c] = candidate[c]
      <4> USE <1>1, <2>2 DEF C!TypeOK, C!Goto, C!Show
      <4>1. CASE C!ShowLogin(d)
        BY <4>1 DEF C!ShowLogin
      <4>2. CASE C!CallReturns(d) \/ C!CallFails(d)
        BY <4>2 DEF C!CallReturns, C!CallFails
      <4>3. CASE C!ShowConnectError(d)
        BY <4>3 DEF C!ShowConnectError
      <4>4. CASE C!ShowVotingMenu(d)
        BY <4>4 DEF C!ShowVotingMenu
      <4>5. CASE C!CloseConnection(d) \/ C!Killed(d)
        BY <4>5 DEF C!CloseConnection, C!Killed
      <4> QED
        BY <4>1, <4>2, <4>3, <4>4, <4>5 DEF ClientAlone
    <3> QED
      BY <3>1, <3>2 DEF Same
  <2>3. CASE ClientConnects(d) \/ ClientConnectsAtOnce(d) \/ ClientSendsVote(d)
    BY <1>1, <2>1, <2>3
       DEF ClientConnects, ClientConnectsAtOnce, ClientSendsVote, Ship, Same,
           C!TypeOK, C!Goto, C!CallReturns, C!ConnectsAtOnce, C!SendVote,
           PeerConnects, Goto
  <2>4. CASE AwaitsReply(d)
    <3>1. UNCHANGED <<vars, net>>
      BY <2>4 DEF AwaitsReply, ClientGetsReply, ClientGetsNothing
    <3>2. CASE ClientGetsReply(d)
      BY <1>1, <3>1, <3>2 DEF ClientGetsReply, Same, C!TypeOK, C!Goto, C!Show,
           C!ShowReceipt
    <3>3. CASE ClientGetsNothing(d)
      BY <1>1, <3>1, <3>3 DEF ClientGetsNothing, Same, C!TypeOK, C!Goto, C!Show,
           C!ShowSendError
    <3> QED
      BY <2>4, <3>2, <3>3 DEF AwaitsReply
  <2>5. CASE ClientFinishes(d) \/ Network(d) \/ HandshakeFails(d) \/ ConnectionBreaks(d)
    BY <1>1, <2>1, <2>5 DEF ClientFinishes, Network, Established, HandshakeSucceeds,
         VoteArrives, HandshakeFails, ConnectionBreaks, Ship, Arrives, Same,
         PeerConnects, Handshake, PeerSends, PeerHangsUp, Goto
  <2> QED
    BY <1>3, <2>2, <2>3, <2>4, <2>5 DEF Acts
<1> QED
  BY <1>2, <1>3

(* The reply that is shown stays the first one.                            *)
LEMMA FirstReplyStays ==
  ASSUME IInv, [Next]_vars, NEW c \in Conns, replies[c] # <<>>
  PROVE  replies'[c] # <<>> /\ replies'[c][1] = replies[c][1]
<1>1. CASE UNCHANGED vars
  BY <1>1 DEF vars, wire
<1>2. CASE Next
  <2>1. IInv' BY InvStep
  <2>2. replies[c] \in Seq(Reply) /\ replies'[c] \in Seq(Reply)
    BY <2>1 DEF IInv, TypeOK
  <2>3. 1 \in 1..Len(replies[c])
    BY <2>2
  <2> QED BY <1>2, <2>2, <2>3, HistoryGrows
<1> QED BY <1>1, <1>2

(* How the life of a connection goes on: no way leads back from its end,   *)
(* nor to its beginning, and a session ends because its peer is gone.      *)
Course(c) ==
  /\ hungup[c] => hungup'[c]
  /\ handler[c] \in Over => handler'[c] \in Over
  /\ handler'[c] \in Ending => handler[c] \in Ending \/ hungup[c]
  /\ handler'[c] \in Unheard => handler[c] \in Unheard /\ sent'[c] = sent[c]

LEMMA CourseStep ==
  ASSUME IInv, Next
  PROVE  \A d \in Conns : Course(d)
<1> DEFINE P == \A d \in Conns : Course(d)
<1>a. /\ handler \in [Conns -> HandlerPc] /\ hungup \in [Conns -> BOOLEAN]
      /\ sent \in [Conns -> Seq(Message)]
  BY DEF IInv, TypeOK
<1>b. acceptor \in Listening \ {"accept"} =>
        client_socket \in Conns /\ handler[client_socket] = "accepted"
  BY DEF IInv, InHand
<1> USE <1>a DEF Goto, Refuse, wire, Course, Over, Ending, Unheard
<1>1. Start => P           BY DEF Start
<1>2. Listen => P          BY DEF Listen
<1>3. ProcessEnds => P     BY DEF ProcessEnds
<1>4. TurnAway => P        BY <1>b DEF TurnAway, Listening, AcceptorPc
<1>5. RateLimitAllows => P BY DEF RateLimitAllows
<1>6. CountThread => P     BY DEF CountThread
<1>7. CreateThread => P    BY <1>b DEF CreateThread, Listening, AcceptorPc
<1>8. UncountThread => P   BY <1>b DEF UncountThread, Listening, AcceptorPc
<1>9. \A c \in Conns : Accept(c) => P     BY DEF Accept
<1>10. \A c \in Conns : Handshake(c) => P BY DEF Handshake
<1>11. \A c \in Conns : Enter(c) => P     BY DEF Enter
<1>12. \A c \in Conns : Recv(c) => P      BY DEF Recv, Nack
<1>13. \A c \in Conns : RecvEnds(c) => P  BY DEF RecvEnds
<1>14. \A c \in Conns : VoterExists(c) => P BY DEF VoterExists, Nack
<1>15. \A c \in Conns : HasVoted(c) => P  BY DEF HasVoted, Nack
<1>16. \A c \in Conns : GenerateReceipt(c) => P BY DEF GenerateReceipt
<1>17. \A c \in Conns : SaveVote(c) => P
  BY DEF SaveVote, VoteSaved, VoteNotSaved, Nack
<1>18. \A c \in Conns : CountVote(c) => P BY DEF CountVote
<1>19. \A c \in Conns : Ack(c) => P       BY DEF Ack
<1>20. \A c \in Conns : Cleanup(c) => P   BY DEF Cleanup
<1>21. \A c \in Conns : Leave(c) => P     BY DEF Leave
<1>22. \A c \in Conns : PeerConnects(c) => P BY DEF PeerConnects
<1>23. \A c \in Conns : PeerSends(c) => P BY DEF PeerSends, Open, Serving
<1>24. \A c \in Conns : PeerHangsUp(c) => P BY DEF PeerHangsUp
<1> HIDE DEF P
<1> QED
  BY Zenon, <1>1, <1>2, <1>3, <1>4, <1>5, <1>6, <1>7, <1>8, <1>9, <1>10, <1>11,
     <1>12, <1>13, <1>14, <1>15, <1>16, <1>17, <1>18, <1>19, <1>20, <1>21,
     <1>22, <1>23, <1>24, NextCases DEF P

LEMMA CourseKept ==
  ASSUME IInv, [SystemNext]_systemVars, NEW c \in Conns
  PROVE  Course(c)
<1>1. CASE Next
  BY <1>1, CourseStep
<1>2. CASE UNCHANGED vars
  BY <1>2 DEF vars, wire, Course
<1> QED
  BY <1>1, <1>2, ServerStep

LEMMA ServedKept ==
  ASSUME SystemInv, [SystemNext]_systemVars, NEW c \in Conns
  PROVE  Served(c)'
<1>1. IInv /\ Served(c)
  BY DEF SystemInv
<1>2. Course(c)
  BY <1>1, CourseKept
<1> QED
  BY <1>1, <1>2 DEF Served, Course

(* A step of a run's screen: to an outcome, on from one, or none.          *)
LEMMA OutcomeKept ==
  ASSUME SystemInv, [SystemNext]_systemVars, NEW c \in Conns
  PROVE  Outcome(c)'
<1> USE DEF C!Goto, C!Show
<1>1. IInv /\ C!TypeOK /\ Outcome(c)
  BY DEF SystemInv
<1>2. hungup[c] \/ handler[c] \in Over => hungup'[c] \/ handler'[c] \in Over
  BY <1>1, CourseKept DEF Course
<1>3. ASSUME shown'[c] = shown[c],
             pc'[c] \in {"close_ssl_connection", "exit"} =>
               pc[c] \in {"close_ssl_connection", "exit"}
      PROVE  Outcome(c)'
  BY <1>1, <1>2, <1>3 DEF Outcome
<1>4. CASE UNCHANGED clientVars
  BY <1>3, <1>4 DEF clientVars
<1>5. CASE \E d \in Conns \ {c} : Acts(d)
  BY <1>3, <1>5, OthersStill DEF Same
<1>6. CASE C!ShowLogin(c) \/ C!ShowVotingMenu(c) \/ C!SendVote(c)
  BY <1>1, <1>3, <1>6 DEF C!ShowLogin, C!ShowVotingMenu, C!SendVote, C!TypeOK
<1>7. CASE C!CallReturns(c) \/ C!CallFails(c) \/ C!ConnectsAtOnce(c)
  <2>1. \A call \in C!ConnectCall :
          C!AfterCall[call] \notin {"close_ssl_connection", "exit"}
    BY DEF C!ConnectCall, C!AfterCall
  <2> QED
    BY <1>1, <1>3, <1>7, <2>1
       DEF C!CallReturns, C!CallFails, C!ConnectsAtOnce, C!TypeOK
<1>8. CASE C!CloseConnection(c) \/ C!Killed(c)
  BY <1>1, <1>3, <1>8 DEF C!CloseConnection, C!Killed, C!TypeOK
<1>9. CASE C!ShowConnectError(c)
  BY <1>1, <1>9 DEF C!ShowConnectError, C!TypeOK, Outcome
<1>10. CASE ClientGetsReply(c)
  BY <1>1, <1>10 DEF ClientGetsReply, C!ShowReceipt, C!TypeOK, Outcome
<1>11. CASE ClientGetsNothing(c)
  BY <1>1, <1>2, <1>11 DEF ClientGetsNothing, C!ShowSendError, C!TypeOK, Outcome
<1>12. ASSUME Acts(c)
       PROVE  \/ UNCHANGED clientVars
              \/ C!ShowLogin(c) \/ C!ShowVotingMenu(c) \/ C!SendVote(c)
              \/ C!CallReturns(c) \/ C!CallFails(c) \/ C!ConnectsAtOnce(c)
              \/ C!CloseConnection(c) \/ C!Killed(c) \/ C!ShowConnectError(c)
              \/ ClientGetsReply(c) \/ ClientGetsNothing(c)
  BY <1>12 DEF Acts, ClientAlone, ClientConnects, ClientConnectsAtOnce,
               ClientFinishes, ClientSendsVote, AwaitsReply, HandshakeFails,
               Network, Established, HandshakeSucceeds, VoteArrives, ConnectionBreaks
<1>13. ServerAlone \/ UNCHANGED systemVars => UNCHANGED clientVars
  BY DEF ServerAlone, systemVars
<1> QED
  BY <1>4, <1>5, <1>6, <1>7, <1>8, <1>9, <1>10, <1>11, <1>12, <1>13, SystemStepIs

(* The regions of main and connect_server_ssl.                             *)
LEMMA PcRegions ==
  /\ Unconnected \cap BeforeVote = {} /\ Unconnected \cap AfterVote = {}
  /\ BeforeVote \cap AfterVote = {}
  /\ C!Ended = {"exit", "killed"}
  /\ "connect_failed" \notin Unconnected \cup BeforeVote \cup AfterVote
  BY DEF Unconnected, BeforeVote, AfterVote, C!Ended

LEMMA StillKeeps ==
  ASSUME SystemInv, [SystemNext]_systemVars, NEW c \in Conns, Same(c)
  PROVE  OneVote(c)' /\ TrueScreen(c)'
<1>1. IInv /\ OneVote(c) /\ TrueScreen(c)
  BY DEF SystemInv
<1>2. VoteMessage(c)' = VoteMessage(c)
  BY DEF Same, VoteMessage
<1>3. NoVoteOut(c)' = NoVoteOut(c)
  BY DEF Same, NoVoteOut
<1>4. VoteOut(c)' = VoteOut(c)
  BY <1>2, Zenon DEF Same, VoteOut, Carrying
<1>5. OneVote(c)'
  BY <1>1, <1>3, <1>4 DEF OneVote, Same
<1>6. TrueScreen(c)'
  BY <1>1, <1>3, ServerStep, FirstReplyStays DEF TrueScreen, Same
<1> QED BY <1>5, <1>6

(* A step of main or connect_server_ssl that sends nothing.                *)
LEMMA AloneKeeps ==
  ASSUME SystemInv, [SystemNext]_systemVars, NEW c \in Conns, ClientAlone(c)
  PROVE  OneVote(c)' /\ TrueScreen(c)'
<1> USE DEF C!Goto, C!Show
<1>1. IInv /\ C!TypeOK /\ OneVote(c) /\ TrueScreen(c)
  BY DEF SystemInv
<1>2. net' = net /\ sent' = sent /\ handler' = handler /\ replies' = replies
  BY DEF ClientAlone, serverVars, vars, wire
<1>3. NoVoteOut(c)' = NoVoteOut(c)
  BY <1>2 DEF NoVoteOut
<1>4. ASSUME voter_id' = voter_id, candidate' = candidate
      PROVE  VoteOut(c)' = VoteOut(c)
  <2>1. VoteMessage(c)' = VoteMessage(c)
    BY <1>4 DEF VoteMessage
  <2> QED BY <1>2, <2>1, Zenon DEF VoteOut, Carrying
<1>5. CASE C!ShowLogin(c)
  <2>1. pc[c] = "show_login" /\ pc'[c] = "socket" /\ shown' = shown
    BY <1>1, <1>5 DEF C!ShowLogin, C!TypeOK
  <2>2. NoVoteOut(c)
    BY <1>1, <2>1, PcRegions DEF OneVote, Unconnected
  <2> QED BY <1>1, <1>2, <1>3, <2>1, <2>2, PcRegions
             DEF OneVote, TrueScreen, Unconnected, BeforeVote
<1>6. CASE /\ C!CallReturns(c) /\ pc[c] # "connect"
           /\ pc[c] = "getsockopt" => handler[c] # "idle"
  <2>1. /\ pc[c] \in C!ConnectCall /\ pc'[c] = C!AfterCall[pc[c]]
        /\ shown' = shown /\ UNCHANGED <<voter_id, candidate>>
    BY <1>1, <1>6 DEF C!CallReturns, C!TypeOK
  <2>2. shown[c] = "nothing" /\ NoVoteOut(c)
    BY <1>1, <2>1 DEF OneVote, TrueScreen, C!ConnectCall, C!AfterCall, C!Ended,
                      AfterVote
  <2>3. CASE pc[c] \in {"socket", "inet_pton", "nonblock"}
    BY <1>1, <1>2, <1>3, <2>1, <2>2, <2>3
       DEF OneVote, TrueScreen, C!AfterCall, Unconnected, BeforeVote
  <2>4. CASE pc[c] = "select"
    BY <1>1, <1>2, <1>3, <2>1, <2>2, <2>4
       DEF OneVote, TrueScreen, C!AfterCall, Unconnected, BeforeVote
  <2>5. CASE pc[c] = "getsockopt"
    BY <1>1, <1>2, <1>3, <1>6, <2>1, <2>2, <2>5
       DEF OneVote, TrueScreen, C!AfterCall, Unconnected, BeforeVote
  <2>6. CASE pc[c] \in {"restore", "init_client_ssl", "ssl_connect", "malloc"}
    BY <1>1, <1>2, <1>3, <2>1, <2>2, <2>6
       DEF OneVote, TrueScreen, C!AfterCall, Unconnected, BeforeVote
  <2> QED
    BY <1>6, <2>1, <2>3, <2>4, <2>5, <2>6 DEF C!ConnectCall, C!AfterCall
<1>7. CASE C!CallFails(c)
  <2>1. /\ pc[c] \in C!ConnectCall /\ pc'[c] = "connect_failed" /\ shown' = shown
    BY <1>1, <1>7 DEF C!CallFails, C!TypeOK
  <2>2. shown[c] = "nothing" /\ NoVoteOut(c)
    BY <1>1, <2>1 DEF OneVote, TrueScreen, C!ConnectCall, C!AfterCall, C!Ended,
                      AfterVote
  <2> QED
    BY <1>1, <1>2, <1>3, <2>1, <2>2, PcRegions DEF OneVote, TrueScreen
<1>8. CASE C!ShowConnectError(c)
  <2>1. pc[c] = "connect_failed" /\ pc'[c] = "exit" /\ shown'[c] # "receipt"
    BY <1>1, <1>8 DEF C!ShowConnectError, C!TypeOK
  <2>2. NoVoteOut(c)
    BY <1>1, <2>1, PcRegions DEF OneVote
  <2> QED
    BY <1>1, <1>2, <1>3, <2>1, <2>2, PcRegions
       DEF OneVote, TrueScreen, Unconnected, BeforeVote
<1>9. CASE C!ShowVotingMenu(c)
  <2>1. pc[c] = "show_voting_menu" /\ pc'[c] = "ssl_send" /\ shown' = shown
    BY <1>1, <1>9 DEF C!ShowVotingMenu, C!TypeOK
  <2>2. pc[c] \in BeforeVote /\ pc'[c] \in BeforeVote
    BY <2>1 DEF BeforeVote
  <2>3. NoVoteOut(c)
    BY <1>1, <2>2, PcRegions DEF OneVote
  <2>4. shown[c] = "nothing"
    BY <1>1, <2>1, PcRegions DEF TrueScreen
  <2> QED
    BY <1>1, <1>2, <1>3, <2>1, <2>2, <2>3, <2>4, PcRegions DEF OneVote, TrueScreen
<1>10. CASE C!CloseConnection(c) \/ C!Killed(c)
  <2>1. /\ pc'[c] \in C!Ended /\ shown' = shown /\ response' = response
        /\ voter_id' = voter_id /\ candidate' = candidate
    BY <1>1, <1>10 DEF C!CloseConnection, C!Killed, C!TypeOK, C!Ended
  <2>2. VoteOut(c)' = VoteOut(c)
    BY <1>4, <2>1
  <2>3. pc'[c] \in AfterVote /\ pc'[c] \notin Unconnected \cup BeforeVote
    BY <2>1 DEF AfterVote, Unconnected, BeforeVote, C!Ended
  <2>4. OneVote(c)'
    BY <1>1, <1>2, <1>3, <2>2, <2>3 DEF OneVote
  <2>5. TrueScreen(c)'
    BY <1>1, <1>2, <1>3, <2>1 DEF TrueScreen
  <2> QED
    BY <2>4, <2>5
<1> QED BY <1>5, <1>6, <1>7, <1>8, <1>9, <1>10 DEF ClientAlone

(* What sends, or takes the connection from one side to the other.         *)
LEMMA ActsKeep ==
  ASSUME SystemInv, [SystemNext]_systemVars, NEW c \in Conns, Acts(c)
  PROVE  OneVote(c)' /\ TrueScreen(c)'
<1> USE DEF C!Goto, C!Show
<1>1. IInv /\ C!TypeOK /\ OneVote(c) /\ TrueScreen(c)
  BY DEF SystemInv
<1>a. /\ net = [e \in Conns |-> net[e]]
      /\ handler \in [Conns -> HandlerPc] /\ sent \in [Conns -> Seq(Message)]
  BY DEF SystemInv, IInv, TypeOK
<1>2. ASSUME UNCHANGED clientVars
      PROVE  /\ pc'[c] = pc[c] /\ shown'[c] = shown[c]
             /\ response'[c] = response[c] /\ VoteMessage(c)' = VoteMessage(c)
  BY <1>2 DEF clientVars, VoteMessage
<1>b. PICK vote : vote = Carrying(VoteMessage(c))
  OBVIOUS
<1>3. /\ <<Syn>> # <<>> /\ <<Finished>> # <<>> /\ <<Finished>> # <<Syn>>
      /\ <<vote>> # <<>> /\ <<vote>> # <<Syn>>
  BY <1>b, Fronts
<1>c. NoVoteOut(c) =>
        sent[c] = <<>> /\ (net[c] = <<>> \/ net[c] = <<Syn>> \/ net[c] = <<Finished>>)
  BY DEF NoVoteOut
<1>d. VoteOut(c) =>
        \/ sent[c] = <<>> /\ (net[c] = <<vote>> \/ net[c] = <<Finished, vote>>)
        \/ sent[c] = <<VoteMessage(c)>> /\ net[c] = <<>>
  BY <1>b DEF VoteOut
<1>e. ASSUME VoteMessage(c)' = VoteMessage(c)
      PROVE  VoteOut(c)' <=>
               \/ sent'[c] = <<>> /\ (net'[c] = <<vote>> \/ net'[c] = <<Finished, vote>>)
               \/ sent'[c] = <<VoteMessage(c)>> /\ net'[c] = <<>>
  <2>1. Carrying(VoteMessage(c))' = vote
    BY <1>b, <1>e DEF Carrying
  <2> QED
    BY <1>e, <2>1, Zenon DEF VoteOut
<1>4. CASE ClientAlone(c)
  BY <1>4, AloneKeeps
<1>5. CASE ClientConnects(c)
  <2>1. pc[c] = "connect" /\ pc'[c] = "select" /\ shown' = shown
    BY <1>1, <1>5 DEF ClientConnects, C!CallReturns, C!TypeOK, C!AfterCall
  <2>2. net[c] = <<>> /\ handler[c] = "idle" /\ NoVoteOut(c) /\ shown[c] = "nothing"
    BY <1>1, <2>1, PcRegions DEF OneVote, TrueScreen, Unconnected
  <2>3. net'[c] = <<Syn>> /\ sent' = sent /\ handler' = handler
    BY <1>a, <1>5, <2>2, OneOrTwo
       DEF ClientConnects, Ship, serverVars, vars, wire
  <2>4. NoVoteOut(c)'
    BY <2>2, <2>3 DEF NoVoteOut
  <2> QED
    BY <2>1, <2>2, <2>3, <2>4 DEF OneVote, TrueScreen, Unconnected, BeforeVote
<1>6. CASE ClientConnectsAtOnce(c)
  <2>1. pc[c] = "connect" /\ pc'[c] = "restore" /\ shown' = shown
    BY <1>1, <1>6 DEF ClientConnectsAtOnce, C!ConnectsAtOnce, C!TypeOK
  <2>2. net[c] = <<>> /\ NoVoteOut(c) /\ shown[c] = "nothing"
    BY <1>1, <2>1, PcRegions DEF OneVote, TrueScreen, Unconnected
  <2>3. net' = net /\ sent' = sent /\ handler'[c] = "queued"
    BY <1>a, <1>6 DEF ClientConnectsAtOnce, PeerConnects, Goto, wire
  <2>4. NoVoteOut(c)'
    BY <2>2, <2>3 DEF NoVoteOut
  <2> QED
    BY <1>3, <2>1, <2>2, <2>3, <2>4 DEF OneVote, TrueScreen, Unconnected, BeforeVote
<1>7. CASE ClientFinishes(c)
  <2>1. /\ pc[c] = "ssl_connect" /\ net[c] = <<>> /\ handler[c] = "ssl_accept"
        /\ UNCHANGED clientVars
    BY <1>7 DEF ClientFinishes
  <2>2. NoVoteOut(c) /\ shown[c] = "nothing"
    BY <1>1, <2>1, PcRegions DEF OneVote, TrueScreen, AfterVote
  <2>3. net'[c] = <<Finished>> /\ sent' = sent /\ handler' = handler
    BY <1>a, <1>7, <2>1, OneOrTwo
       DEF ClientFinishes, Ship, serverVars, vars, wire
  <2>4. NoVoteOut(c)'
    BY <2>2, <2>3 DEF NoVoteOut
  <2> QED
    BY <1>1, <1>2, <1>3, <2>1, <2>2, <2>3, <2>4
       DEF OneVote, TrueScreen, Unconnected
<1>8. CASE ClientSendsVote(c)
  <2>1. /\ pc[c] = "ssl_send" /\ pc'[c] = "ssl_recv" /\ shown' = shown
        /\ UNCHANGED <<voter_id, candidate>>
    BY <1>1, <1>8 DEF ClientSendsVote, C!SendVote, C!TypeOK
  <2>2. NoVoteOut(c) /\ shown[c] = "nothing" /\ handler[c] # "idle" /\ net[c] # <<Syn>>
    BY <1>1, <2>1, PcRegions DEF OneVote, TrueScreen, AfterVote, BeforeVote
  <2>3. /\ net'[c] = Append(net[c], Carrying(VoteMessage(c)))
        /\ sent' = sent /\ handler' = handler
    BY <1>a, <1>8 DEF ClientSendsVote, Ship, serverVars, vars, wire
  <2>4. VoteMessage(c)' = VoteMessage(c)
    BY <2>1 DEF VoteMessage
  <2>5. VoteOut(c)'
    <3>1. sent[c] = <<>> /\ (net[c] = <<>> \/ net[c] = <<Finished>>)
      BY <1>c, <2>2
    <3>2. net'[c] = <<vote>> \/ net'[c] = <<Finished, vote>>
      BY <1>b, <2>3, <3>1, Fronts
    <3> QED
      BY <1>e, <2>3, <2>4, <3>1, <3>2
  <2>6. net'[c] # <<Syn>>
    <3>1. net[c] = <<>> \/ net[c] = <<Finished>>
      BY <1>c, <2>2
    <3> QED
      BY <1>b, <2>3, <3>1, Fronts
  <2>7. "ssl_recv" \in AfterVote /\ "ssl_recv" \notin Unconnected \cup BeforeVote
    BY DEF AfterVote, Unconnected, BeforeVote
  <2> QED
    BY <2>1, <2>2, <2>5, <2>6, <2>7 DEF OneVote, TrueScreen
<1>9. CASE AwaitsReply(c)
  <2>1. net' = net /\ sent' = sent /\ handler' = handler /\ replies' = replies
    BY <1>9 DEF AwaitsReply, ClientGetsReply, ClientGetsNothing, serverVars, vars, wire
  <2>2. /\ pc[c] = "ssl_recv" /\ pc'[c] = "close_ssl_connection"
        /\ UNCHANGED <<voter_id, candidate>>
        /\ \/ shown'[c] = "send_error"
           \/ shown'[c] = "receipt" /\ response'[c] = replies[c][1] /\ replies[c] # <<>>
    BY <1>1, <1>9 DEF AwaitsReply, ClientGetsReply, ClientGetsNothing, C!TypeOK,
                      C!ShowReceipt, C!ShowSendError
  <2>3. VoteMessage(c)' = VoteMessage(c)
    BY <2>2 DEF VoteMessage
  <2>4. NoVoteOut(c)' = NoVoteOut(c) /\ VoteOut(c)' = VoteOut(c)
    BY <2>1, <2>3, Zenon DEF NoVoteOut, VoteOut, Carrying
  <2>5. /\ "close_ssl_connection" \in AfterVote
        /\ "close_ssl_connection" \notin Unconnected \cup BeforeVote
    BY DEF AfterVote, Unconnected, BeforeVote
  <2> QED
    BY <1>1, <2>1, <2>2, <2>4, <2>5 DEF OneVote, TrueScreen
<1>10. CASE HandshakeFails(c) \/ ConnectionBreaks(c)
  <2>1. /\ sent' = sent /\ net' = net /\ handler[c] # "idle" /\ handler'[c] # "idle"
        /\ UNCHANGED clientVars
    BY <1>a, <1>10 DEF HandshakeFails, Handshake, ConnectionBreaks, PeerHangsUp, Open,
                       Serving, wire
  <2>2. Same(c)
    BY <2>1 DEF Same, clientVars
  <2> QED
    BY <2>2, StillKeeps
<1>11. CASE Network(c)
  <2>1. UNCHANGED clientVars
    BY <1>11 DEF Network, Established, HandshakeSucceeds, VoteArrives
  <2>2. CASE Established(c)
    <3>1. net[c] # <<>> /\ Head(net[c]) = Syn /\ net'[c] = Tail(net[c])
      BY <1>a, <2>2 DEF Established, Arrives
    <3>2. net[c] = <<Syn>> /\ NoVoteOut(c)
      <4>1. ~ VoteOut(c)
        BY <1>b, <1>d, <3>1, Fronts, Kinds
      <4>2. NoVoteOut(c)
        BY <1>1, <4>1 DEF OneVote
      <4> QED
        BY <1>b, <1>c, <3>1, <4>2, Fronts, Kinds
    <3>3. net'[c] = <<>> /\ sent' = sent /\ handler[c] = "idle" /\ handler'[c] = "queued"
      BY <1>a, <2>2, <3>1, <3>2, OneOrTwo DEF Established, PeerConnects, Goto, wire
    <3>4. NoVoteOut(c)'
      BY <3>2, <3>3 DEF NoVoteOut
    <3>5. pc[c] \notin Unconnected
      BY <1>1, <1>3, <3>2 DEF OneVote
    <3>6. TrueScreen(c)'
      BY <1>1, <1>2, <2>1, <3>4, ServerStep, FirstReplyStays DEF TrueScreen
    <3> QED
      BY <1>1, <1>2, <1>3, <2>1, <3>3, <3>4, <3>5, <3>6 DEF OneVote
  <2>3. CASE HandshakeSucceeds(c)
    <3>1. net[c] # <<>> /\ Head(net[c]) = Finished /\ net'[c] = Tail(net[c])
      BY <1>a, <2>3 DEF HandshakeSucceeds, Arrives
    <3>2. /\ sent' = sent /\ handler[c] # "idle" /\ handler'[c] # "idle"
          /\ UNCHANGED clientVars
      BY <2>3 DEF HandshakeSucceeds, Handshake, wire
    <3>3. NoVoteOut(c) => NoVoteOut(c)' /\ net'[c] = <<>>
      <4>1. NoVoteOut(c) => net'[c] = <<>> /\ sent'[c] = <<>>
        BY <1>b, <1>c, <3>1, <3>2, Fronts, Kinds
      <4> QED
        BY <4>1 DEF NoVoteOut
    <3>4. VoteOut(c) => VoteOut(c)' /\ net'[c] # <<Syn>>
      <4>1. VoteMessage(c)' = VoteMessage(c)
        BY <1>2, <2>1
      <4>2. VoteOut(c) => net[c] = <<Finished, vote>> /\ sent[c] = <<>>
        BY <1>b, <1>d, <3>1, Fronts, Kinds
      <4>3. VoteOut(c) => net'[c] = <<vote>>
        BY <1>b, <3>1, <4>2, Fronts
      <4> QED
        BY <1>3, <1>e, <3>2, <4>1, <4>2, <4>3
    <3>5. pc[c] \notin Unconnected
      BY <1>1, <3>2 DEF OneVote
    <3>7. TrueScreen(c)'
      BY <1>1, <1>2, <2>1, <3>3, ServerStep, FirstReplyStays DEF TrueScreen
    <3> QED
      BY <1>1, <1>2, <1>3, <2>1, <3>2, <3>3, <3>4, <3>5, <3>7 DEF OneVote
  <2>4. CASE VoteArrives(c)
    <3>m. PICK m \in Message : sent' = [sent EXCEPT ![c] = Append(@, m)]
      BY <2>4 DEF VoteArrives, PeerSends
    <3>1. sent'[c] = Append(sent[c], m) /\ sent[c] \in Seq(Message)
      BY <1>a, <3>m
    <3>2. sent'[c][Len(sent'[c])] = m
      BY <3>1
    <3>3. net[c] # <<>> /\ Head(net[c]) = Carrying(m) /\ net'[c] = Tail(net[c])
      BY <1>a, <2>4, <3>2 DEF VoteArrives, Arrives
    <3>4. ~ NoVoteOut(c)
      BY <1>c, <3>3, Fronts, Kinds
    <3>5. /\ VoteOut(c) /\ pc[c] \in AfterVote /\ sent[c] = <<>>
          /\ net[c] = <<vote>>
      <4>1. VoteOut(c) /\ pc[c] \in AfterVote
        BY <1>1, <3>4 DEF OneVote
      <4> QED
        BY <1>b, <1>d, <3>3, <4>1, Fronts, Kinds
    <3>6. m = VoteMessage(c)
      BY <1>b, <3>3, <3>5, OneOrTwo, Kinds
    <3>7. sent'[c] = <<VoteMessage(c)>> /\ net'[c] = <<>>
      BY <3>1, <3>3, <3>5, <3>6, OneOrTwo
    <3>8. VoteOut(c)'
      BY <1>2, <1>e, <2>1, <3>7
    <3>9. OneVote(c)'
      BY <1>2, <1>3, <2>1, <3>5, <3>7, <3>8, PcRegions DEF OneVote
    <3>10. TrueScreen(c)'
      BY <1>1, <1>2, <2>1, <3>4, ServerStep, FirstReplyStays DEF TrueScreen
    <3> QED
      BY <3>9, <3>10
  <2> QED
    BY <1>11, <2>2, <2>3, <2>4 DEF Network
<1> QED
  BY <1>4, <1>5, <1>6, <1>7, <1>8, <1>9, <1>10, <1>11 DEF Acts

-----------------------------------------------------------------------------
(* The invariant.                                                          *)

LEMMA SystemInvInit ==
  ASSUME SystemInit
  PROVE  SystemInv
<1> USE DEF SystemInit
<1>1. IInv
  BY InvInit
<1>2. C!TypeOK
  BY DEF C!Init, C!TypeOK, C!Pc, C!Window
<1>3. \A c \in Conns : sent[c] = <<>> /\ handler[c] = "idle"
  BY DEF Init
<1>4. \A c \in Conns : OneVote(c) /\ TrueScreen(c)
  BY <1>3, OneOrTwo DEF C!Init, OneVote, NoVoteOut, TrueScreen, Unconnected, BeforeVote
<1>5. \A c \in Conns : Outcome(c) /\ Served(c)
  BY <1>3 DEF C!Init, Outcome, Served, Ending
<1> QED
  BY <1>1, <1>2, <1>4, <1>5 DEF SystemInv

LEMMA SystemInvStep ==
  ASSUME SystemInv, [SystemNext]_systemVars
  PROVE  SystemInv'
<1>1. IInv'
  BY ServerStep, InvStep DEF SystemInv
<1>2. C!TypeOK'
  BY ClientStep, ClientTypes DEF SystemInv
<1>3. net' = [c \in Conns |-> net'[c]]
  <2>1. net = [c \in Conns |-> net[c]]
    BY DEF SystemInv
  <2>2. \/ net' = net
        \/ \E c \in Conns : \E q : net' = [net EXCEPT ![c] = q]
    BY DEF SystemNext, systemVars, ServerAlone, ClientAlone, ClientConnects,
           ClientConnectsAtOnce, ClientFinishes, ClientSendsVote, AwaitsReply,
           ClientGetsReply, ClientGetsNothing, HandshakeFails, Network, Established,
           HandshakeSucceeds, VoteArrives, ConnectionBreaks, Ship, Arrives
  <2> QED
    BY <2>1, <2>2
<1>4. ASSUME NEW c \in Conns PROVE OneVote(c)' /\ TrueScreen(c)'
  <2>1. CASE UNCHANGED systemVars
    <3>1. Same(c)
      BY <2>1 DEF systemVars, clientVars, vars, wire, Same
    <3> QED BY <3>1, StillKeeps
  <2>2. CASE ServerAlone \/ \E d \in Conns \ {c} : Acts(d)
    BY <2>2, OthersStill, StillKeeps
  <2>3. CASE Acts(c)
    BY <2>3, ActsKeep
  <2> QED
    BY <2>1, <2>2, <2>3, SystemStepIs
<1> QED
  BY <1>1, <1>2, <1>3, <1>4, OutcomeKept, ServedKept DEF SystemInv

(* Whatever the network does, a run has one vote to send, the voter's, and *)
(* the screen shows what came back, or that the connection was lost.       *)
THEOREM SystemInvariance == SystemSpec => []SystemInv
  BY SystemInvInit, SystemInvStep, PTL DEF SystemSpec

(* With clients and a network around it the server is the server, so all   *)
(* that ServerSocketProofs says of it holds of the system.                 *)
THEOREM ServerInSystem == SystemSpec => Spec
<1>1. SystemInit => Init
  BY DEF SystemInit
<1> QED
  BY <1>1, ServerStep, PTL DEF SystemSpec, Spec

(* And what the clients do with this server is what they may do with any.  *)
THEOREM ClientsInSystem == SystemSpec => C!Spec
<1>1. SystemInit => C!Init
  BY DEF SystemInit
<1>2. SystemInv => IInv
  BY DEF SystemInv
<1> QED
  BY <1>1, <1>2, ClientStep, SystemInvariance, PTL DEF SystemSpec, C!Spec

-----------------------------------------------------------------------------
(* What the voters see.                                                    *)

(* A row is the vote of its run: the only message of its connection.       *)
LEMMA RowIsVote ==
  ASSUME SystemInv, NEW k \in DOMAIN votos
  PROVE  LET c == caster[k][1]
         IN  /\ c \in Conns /\ caster[k][2] = 1 /\ sent[c] # <<>>
             /\ votos[k].voter = voter_id[c] /\ votos[k].candidate = candidate[c]
<1>c. PICK c \in Conns : c = caster[k][1]
  BY DEF SystemInv, IInv, Traced
<1>i. PICK i : i = caster[k][2]
  OBVIOUS
<1>1. /\ i \in 1..got[c] /\ sent[c][i] # Malformed
      /\ votos[k].voter = sent[c][i].voter
      /\ votos[k].candidate = sent[c][i].candidate
  BY <1>c, <1>i DEF SystemInv, IInv, Traced
<1>2. got[c] <= Len(sent[c]) /\ got[c] \in Nat /\ sent[c] \in Seq(Message)
  BY DEF SystemInv, IInv, Paired, TypeOK
<1>3. i \in 1..Len(sent[c])
  BY <1>1, <1>2
<1>4. sent[c] # <<>>
  BY <1>3
<1>5. sent[c] = <<VoteMessage(c)>>
  BY <1>4 DEF SystemInv, OneVote, NoVoteOut, VoteOut
<1>6. i = 1 /\ sent[c][i] = VoteMessage(c)
  BY <1>3, <1>5
<1>7. VoteMessage(c) = [voter |-> voter_id[c], candidate |-> candidate[c]]
  BY <1>1, <1>6 DEF VoteMessage
<1> QED
  BY <1>c, <1>i, <1>1, <1>4, <1>6, <1>7

LEMMA ChoicesAreRows ==
  ASSUME SystemInv
  PROVE  BallotsAreChoices
<1>1. ASSUME NEW j \in DOMAIN votos, NEW k \in DOMAIN votos,
             caster[j][1] = caster[k][1]
      PROVE  j = k
  <2>1. votos[j].voter = votos[k].voter
    BY <1>1, RowIsVote
  <2> QED
    BY <2>1 DEF SystemInv, IInv, OneBallotPerVoter
<1> QED
  BY <1>1, RowIsVote DEF BallotsAreChoices

(* Every row is one run's choice, and no run makes two.                    *)
THEOREM Choices == SystemSpec => []BallotsAreChoices
  BY SystemInvariance, ChoicesAreRows, PTL

(* An answer is to the vote of its run.                                    *)
LEMMA AnswerToVote ==
  ASSUME SystemInv, NEW c \in Conns, replies[c] # <<>>
  PROVE  /\ replies[c] \in Seq(Reply) /\ 1 \in DOMAIN replies[c]
         /\ sent[c][1] = VoteMessage(c)
<1>1. /\ got[c] <= Len(sent[c]) /\ got[c] \in Nat /\ sent[c] \in Seq(Message)
      /\ Len(replies[c]) <= got[c] /\ replies[c] \in Seq(Reply)
  BY DEF SystemInv, IInv, Paired, TypeOK
<1>2. sent[c] # <<>> /\ 1 \in DOMAIN replies[c]
  BY <1>1
<1>3. sent[c] = <<VoteMessage(c)>>
  BY <1>2 DEF SystemInv, OneVote, NoVoteOut, VoteOut
<1> QED
  BY <1>1, <1>2, <1>3

LEMMA ScreensAreTrue ==
  ASSUME SystemInv
  PROVE  ErrorsAreTrue
<1> SUFFICES ASSUME NEW c \in Conns
             PROVE  /\ \/ shown[c] \in {"connect_error", "connect_fallback"}
                       \/ shown[c] = "receipt" /\ response[c].kind # "ACK"
                       => \A k \in DOMAIN votos : caster[k][1] # c
                    /\ shown[c] = "receipt" /\ response[c].kind = "JA_VOTOU" =>
                         \E k \in DOMAIN votos : votos[k].voter = voter_id[c]
  BY DEF ErrorsAreTrue
<1>1. IInv /\ TrueScreen(c)
  BY DEF SystemInv
<1>2. ASSUME shown[c] \in {"connect_error", "connect_fallback"},
             NEW k \in DOMAIN votos, caster[k][1] = c
      PROVE  FALSE
  <2>1. sent[c] = <<>>
    BY <1>1, <1>2 DEF TrueScreen, NoVoteOut
  <2> QED
    BY <1>2, <2>1, RowIsVote
<1>3. ASSUME shown[c] = "receipt", response[c].kind # "ACK",
             NEW k \in DOMAIN votos, caster[k][1] = c
      PROVE  FALSE
  <2>1. replies[c] # <<>> /\ replies[c][1].kind # "ACK"
    BY <1>1, <1>3 DEF TrueScreen
  <2>2. caster[k][2] = 1
    BY <1>3, RowIsVote
  <2>3. k \in DOMAIN caster
    BY <1>1 DEF IInv, TypeOK, Traced
  <2>4. 1 \in Acked(c) \/ Len(replies[c]) < 1
    BY <1>1, <1>3, <2>2, <2>3 DEF IInv, RecordedAnswered
  <2>5. replies[c] \in Seq(Reply) /\ 1 \in DOMAIN replies[c]
    BY <2>1, AnswerToVote
  <2> QED
    BY <2>1, <2>4, <2>5 DEF Acked
<1>4. ASSUME shown[c] = "receipt", response[c].kind = "JA_VOTOU"
      PROVE  \E k \in DOMAIN votos : votos[k].voter = voter_id[c]
  <2>1. replies[c] # <<>> /\ replies[c][1].kind = "JA_VOTOU"
    BY <1>1, <1>4 DEF TrueScreen
  <2>2. 1 \in DOMAIN replies[c] /\ sent[c][1] = VoteMessage(c)
    BY <2>1, AnswerToVote
  <2>3. VoteMessage(c) # Malformed /\ HasBallot(VoteMessage(c).voter)
    BY <1>1, <2>1, <2>2 DEF IInv, NackHonest
  <2>4. VoteMessage(c).voter = voter_id[c]
    BY <2>3 DEF VoteMessage
  <2> QED
    BY <2>3, <2>4 DEF HasBallot
<1> QED
  BY <1>2, <1>3, <1>4

(* The windows tell the truth.                                             *)
THEOREM Errors == SystemSpec => []ErrorsAreTrue
  BY SystemInvariance, ScreensAreTrue, PTL

-----------------------------------------------------------------------------
(* The screens and the table implement the ballot box.                     *)

(* The ballot a screen that shows an ACK stands for.                       *)
Shown(c) == [voter |-> voter_id[c], candidate |-> candidate[c],
             receipt |-> response[c].receipt]

(* What is shown, spelled out.                                             *)
LEMMA ShownMember ==
  /\ \A x : x \in ShownReceipts <=> \E c \in Conns : GotAck(c) /\ x = Shown(c)
  /\ \A x : x \in ShownReceipts' <=> \E c \in Conns : GotAck(c)' /\ x = Shown(c)'
  BY DEF ShownReceipts, Shown

(* An ACK has its row, this run's choice with the receipt it brings.       *)
LEMMA AckIsRow ==
  ASSUME SystemInv, NEW c \in Conns, replies[c] # <<>>, replies[c][1].kind = "ACK"
  PROVE  \E k \in DOMAIN votos :
           /\ caster[k] = <<c, 1>>
           /\ votos[k] = [voter |-> voter_id[c], candidate |-> candidate[c],
                          receipt |-> replies[c][1].receipt]
<1>1. 1 \in Acked(c)
  BY AnswerToVote DEF Acked
<1>2. PICK k \in DOMAIN votos : caster[k] = <<c, 1>> /\ votos[k] = Confirmation(c, 1)
  BY <1>1 DEF SystemInv, IInv, AckRecorded
<1>3. votos[k].voter = voter_id[c] /\ votos[k].candidate = candidate[c]
  BY <1>2, RowIsVote
<1>4. votos[k] = [voter |-> votos[k].voter, candidate |-> votos[k].candidate,
                  receipt |-> replies[c][1].receipt]
  BY <1>2 DEF Confirmation
<1> QED
  BY <1>2, <1>3, <1>4

(* A screen that shows an ACK shows the row of its own run.                *)
LEMMA ShownIsRow ==
  ASSUME SystemInv, NEW c \in Conns, GotAck(c)
  PROVE  \E k \in DOMAIN votos : caster[k] = <<c, 1>> /\ votos[k] = Shown(c)
<1>1. replies[c] # <<>> /\ response[c] = replies[c][1] /\ replies[c][1].kind = "ACK"
  BY DEF SystemInv, TrueScreen, GotAck
<1> QED
  BY <1>1, AckIsRow DEF Shown

(* Where a recorded vote's answer is.                                      *)
LEMMA RowIsAnswered ==
  ASSUME SystemInv, NEW k \in DOMAIN votos, NEW c \in Conns, c = caster[k][1]
  PROVE  \/ GotAck(c) /\ response[c].receipt = votos[k].receipt
         \/ shown[c] = "nothing" /\ pc[c] \in {"ssl_recv", "killed"}
         \/ shown[c] = "send_error" /\ (hungup[c] \/ handler[c] = "gone")
<1>1. /\ IInv /\ C!TypeOK
      /\ OneVote(c) /\ TrueScreen(c) /\ Outcome(c) /\ Served(c)
  BY DEF SystemInv
<1>2. sent[c] # <<>>
  BY RowIsVote
<1>3. pc[c] \in {"ssl_recv", "close_ssl_connection", "exit", "killed"}
  BY <1>1, <1>2 DEF OneVote, NoVoteOut, AfterVote, C!Ended
<1>4. shown[c] \in {"nothing", "receipt", "send_error"}
  BY <1>1, <1>2 DEF TrueScreen, NoVoteOut, C!TypeOK, C!Window
<1>5. CASE shown[c] = "nothing"
  BY <1>1, <1>3, <1>5 DEF Outcome
<1>6. CASE shown[c] = "send_error"
  <2>1. handler[c] \notin Unheard
    BY <1>1, <1>2 DEF Served
  <2>2. hungup[c] \/ handler[c] \in {"done", "gone"}
    BY <1>1, <1>6, <2>1 DEF Outcome, Over, Unheard
  <2> QED
    BY <1>1, <1>6, <2>2 DEF Served, Ending
<1>7. CASE shown[c] = "receipt"
  <2>1. GotAck(c)
    BY <1>7, ScreensAreTrue DEF ErrorsAreTrue, GotAck
  <2>2. PICK l \in DOMAIN votos : caster[l] = <<c, 1>> /\ votos[l] = Shown(c)
    BY <2>1, ShownIsRow
  <2>3. l = k
    BY <2>2, ChoicesAreRows DEF BallotsAreChoices
  <2> QED
    BY <2>1, <2>2, <2>3 DEF Shown
<1> QED
  BY <1>4, <1>5, <1>6, <1>7

(* A recorded vote's receipt reaches its voter, unless the connection or   *)
(* the process is lost; and then the window says so, and no other does.    *)
THEOREM Received == SystemSpec => []ReceiptUnlessLost
<1>1. SystemInv => ReceiptUnlessLost
  <2> SUFFICES ASSUME SystemInv, NEW k \in DOMAIN votos
               PROVE  LET c == caster[k][1]
                      IN  \/ GotAck(c) /\ response[c].receipt = votos[k].receipt
                          \/ shown[c] = "nothing" /\ pc[c] \in {"ssl_recv", "killed"}
                          \/ /\ shown[c] = "send_error"
                             /\ hungup[c] \/ handler[c] = "gone"
    BY DEF ReceiptUnlessLost
  <2>1. caster[k][1] \in Conns
    BY RowIsVote
  <2> QED
    BY <2>1, RowIsAnswered
<1> QED
  BY <1>1, SystemInvariance, PTL

(* Only an answer changes what is shown.                                   *)
LEMMA ScreenStays ==
  ASSUME SystemInv, [SystemNext]_systemVars, NEW c \in Conns, ~ ClientGetsReply(c)
  PROVE  GotAck(c)' = GotAck(c) /\ (GotAck(c) => Shown(c)' = Shown(c))
<1> USE DEF C!Goto, C!Show
<1>1. C!TypeOK /\ TrueScreen(c)
  BY DEF SystemInv
<1>2. ASSUME shown'[c] = shown[c], response'[c] = response[c],
             voter_id'[c] = voter_id[c], candidate'[c] = candidate[c]
      PROVE  GotAck(c)' = GotAck(c) /\ (GotAck(c) => Shown(c)' = Shown(c))
  BY <1>2 DEF GotAck, Shown
<1>3. ASSUME ~ GotAck(c), shown'[c] = shown[c], response'[c] = response[c]
      PROVE  ~ GotAck(c)'
  BY <1>3 DEF GotAck
<1>4. CASE UNCHANGED clientVars
  BY <1>2, <1>4 DEF clientVars
<1>5. CASE \E d \in Conns \ {c} : Acts(d)
  BY <1>2, <1>5, OthersStill DEF Same
<1>6. CASE C!ShowLogin(c) \/ C!ShowVotingMenu(c)
  <2>1. pc[c] \in {"show_login", "show_voting_menu"}
    BY <1>6 DEF C!ShowLogin, C!ShowVotingMenu
  <2>2. ~ GotAck(c)
    BY <1>1, <2>1 DEF TrueScreen, GotAck, C!Ended
  <2> QED
    BY <1>3, <1>6, <2>2, Zenon DEF C!ShowLogin, C!ShowVotingMenu, GotAck
<1>7. CASE \/ C!CallReturns(c) \/ C!CallFails(c) \/ C!CloseConnection(c)
           \/ C!Killed(c) \/ C!ConnectsAtOnce(c) \/ C!SendVote(c)
  BY <1>2, <1>7 DEF C!CallReturns, C!CallFails, C!CloseConnection, C!Killed,
                    C!ConnectsAtOnce, C!SendVote
<1>8. CASE C!ShowConnectError(c) \/ C!ShowSendError(c)
  <2>1. /\ pc[c] \in {"connect_failed", "ssl_recv"}
        /\ shown'[c] # "receipt"
    BY <1>1, <1>8 DEF C!ShowConnectError, C!ShowSendError, C!TypeOK
  <2>2. ~ GotAck(c)
    BY <1>1, <2>1 DEF TrueScreen, GotAck, C!Ended
  <2> QED
    BY <2>1, <2>2 DEF GotAck
<1>9. ASSUME Acts(c)
      PROVE  \/ UNCHANGED clientVars
             \/ C!ShowLogin(c) \/ C!ShowVotingMenu(c) \/ C!CallReturns(c)
             \/ C!CallFails(c) \/ C!CloseConnection(c) \/ C!Killed(c)
             \/ C!ConnectsAtOnce(c) \/ C!SendVote(c) \/ C!ShowConnectError(c)
             \/ C!ShowSendError(c)
  BY <1>9 DEF Acts, ClientAlone, ClientConnects, ClientConnectsAtOnce, ClientFinishes,
              ClientSendsVote, AwaitsReply, ClientGetsNothing, HandshakeFails,
              Network, Established, HandshakeSucceeds, VoteArrives, ConnectionBreaks
<1>10. ServerAlone \/ UNCHANGED systemVars => UNCHANGED clientVars
  BY DEF ServerAlone, systemVars
<1> QED
  BY <1>4, <1>5, <1>6, <1>7, <1>8, <1>9, <1>10, SystemStepIs

(* An answer that comes: an ACK confirms a ballot that is in the box and   *)
(* not yet on a screen; no other answer confirms anything.                 *)
LEMMA AnswerConfirms ==
  ASSUME SystemInv, SystemNext, NEW c \in Conns, ClientGetsReply(c)
  PROVE  /\ Ballots' = Ballots
         /\ \/ ShownReceipts' = ShownReceipts
            \/ \E b \in Ballots \ ShownReceipts :
                 ShownReceipts' = ShownReceipts \cup {b}
<1> DEFINE b == [voter |-> voter_id[c], candidate |-> candidate[c],
                 receipt |-> replies[c][1].receipt]
<1>1. Ballots' = Ballots
  BY DEF ClientGetsReply, serverVars, vars, tables, Ballots
<1>2. /\ replies[c] # <<>> /\ pc[c] = "ssl_recv"
      /\ shown'[c] = "receipt" /\ response'[c] = replies[c][1]
      /\ voter_id'[c] = voter_id[c] /\ candidate'[c] = candidate[c]
  BY DEF SystemInv, C!TypeOK, ClientGetsReply, C!ShowReceipt, C!Goto, C!Show
<1>3. ~ GotAck(c)
  BY <1>2 DEF SystemInv, TrueScreen, GotAck, C!Ended
<1>4. ASSUME NEW d \in Conns \ {c}
      PROVE  GotAck(d)' = GotAck(d) /\ (GotAck(d) => Shown(d)' = Shown(d))
  <2>1. ~ ClientGetsReply(d)
    BY <1>2, <1>4 DEF SystemInv, C!TypeOK, ClientGetsReply, C!ShowReceipt, C!Goto
  <2> QED
    BY <2>1, ScreenStays
<1>5. CASE replies[c][1].kind # "ACK"
  <2>1. ~ GotAck(c)'
    BY <1>2, <1>5 DEF GotAck
  <2>2. ShownReceipts' = ShownReceipts
    BY <1>3, <1>4, <2>1, ShownMember
  <2> QED
    BY <1>1, <2>2
<1>6. CASE replies[c][1].kind = "ACK"
  <2>1. GotAck(c)' /\ Shown(c)' = b
    BY <1>2, <1>6 DEF GotAck, Shown
  <2> HIDE DEF b
  <2>2. ShownReceipts' = ShownReceipts \cup {b}
    BY <1>3, <1>4, <2>1, ShownMember
  <2>3. PICK k \in DOMAIN votos : caster[k] = <<c, 1>> /\ votos[k] = b
    BY <1>2, <1>6, AckIsRow DEF b
  <2>4. ASSUME NEW d \in Conns, GotAck(d), Shown(d) = b PROVE FALSE
    <3>1. PICK l \in DOMAIN votos : caster[l] = <<d, 1>> /\ votos[l] = b
      BY <2>4, ShownIsRow
    <3>2. l = k
      BY <2>3, <3>1 DEF SystemInv, IInv, OneBallotPerVoter
    <3> QED
      BY <1>3, <2>3, <2>4, <3>1, <3>2
  <2>5. b \in Ballots \ ShownReceipts
    BY <2>3, <2>4, ShownMember DEF Ballots
  <2> QED
    BY <1>1, <2>2, <2>5
<1> QED
  BY <1>5, <1>6

LEMMA PromiseInit ==
  ASSUME SystemInit
  PROVE  Promise!Init
<1>1. Ballots = {}
  BY DEF SystemInit, Init, Ballots
<1>2. ShownReceipts = {}
  BY ShownMember DEF SystemInit, C!Init, GotAck
<1> QED
  BY <1>1, <1>2 DEF Promise!Init

LEMMA PromiseStep ==
  ASSUME SystemInv, [SystemNext]_systemVars
  PROVE  [Promise!Next]_(Promise!vars)
<1>1. IInv /\ [Next]_vars
  BY ServerStep DEF SystemInv
<1>2. Promise!Ballot = Box!Ballot
  BY DEF Promise!Ballot, Box!Ballot
<1>3. CASE \A c \in Conns : ~ ClientGetsReply(c)
  <2>1. ShownReceipts' = ShownReceipts
    BY <1>3, ScreenStays, ShownMember
  <2>2. [Box!Next]_(Box!vars)
    BY <1>1, BoxStep
  <2>3. \/ Ballots' = Ballots
        \/ \E b \in Box!Ballot : /\ \A a \in Ballots : a.voter # b.voter
                                 /\ Ballots' = Ballots \cup {b}
    BY <2>2 DEF Box!Next, Box!vars, Box!Cast, Box!Confirm
  <2> QED
    BY <1>2, <2>1, <2>3 DEF Promise!Next, Promise!Cast, Promise!vars
<1>4. CASE \E c \in Conns : ClientGetsReply(c)
  <2>1. SystemNext \/ UNCHANGED systemVars
    OBVIOUS
  <2>2. CASE UNCHANGED systemVars
    <3>1. \A c \in Conns : ~ ClientGetsReply(c)
      BY <2>2 DEF SystemInv, C!TypeOK, systemVars, clientVars, ClientGetsReply,
                  C!ShowReceipt, C!Goto
    <3> QED
      BY <1>4, <3>1
  <2>3. CASE SystemNext
    <3>1. /\ Ballots' = Ballots
          /\ \/ ShownReceipts' = ShownReceipts
             \/ \E b \in Ballots \ ShownReceipts :
                  ShownReceipts' = ShownReceipts \cup {b}
      BY <1>4, <2>3, AnswerConfirms
    <3> QED
      BY <1>1, <1>2, <3>1, RowIsBallot DEF Promise!Next, Promise!Confirm, Promise!vars
  <2> QED
    BY <2>1, <2>2, <2>3
<1> QED
  BY <1>3, <1>4

(* What the voters see is a ballot box: the table behind the network, the  *)
(* threads and the restarts, and the receipts on the screens in front.     *)
THEOREM PromiseKept == SystemSpec => ReceiptsAreBallots
  BY SystemInvariance, PromiseInit, PromiseStep, PTL
     DEF SystemSpec, ReceiptsAreBallots, Promise!Spec

=============================================================================
