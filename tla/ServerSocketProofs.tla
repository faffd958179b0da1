------------------------- MODULE ServerSocketProofs -------------------------
(* What is proved of ServerSocket for every set of connections, voters,    *)
(* candidates and receipts, and every number of messages and restarts.     *)
EXTENDS ServerSocket, FiniteSetTheorems, TLAPS

(* Cases of a step: one per action of the server and of its peers. *)
LEMMA NextCases ==
  ASSUME Next, NEW P,
         Start => P, Listen => P, ProcessEnds => P,
         \A c \in Conns : Accept(c) => P,
         TurnAway => P, RateLimitAllows => P, CountThread => P,
         CreateThread => P, UncountThread => P,
         \A c \in Conns : Handshake(c) => P,
         \A c \in Conns : Enter(c) => P,
         \A c \in Conns : Recv(c) => P,
         \A c \in Conns : RecvEnds(c) => P,
         \A c \in Conns : VoterExists(c) => P,
         \A c \in Conns : HasVoted(c) => P,
         \A c \in Conns : GenerateReceipt(c) => P,
         \A c \in Conns : SaveVote(c) => P,
         \A c \in Conns : CountVote(c) => P,
         \A c \in Conns : Ack(c) => P,
         \A c \in Conns : Cleanup(c) => P,
         \A c \in Conns : Leave(c) => P,
         \A c \in Conns : PeerConnects(c) => P,
         \A c \in Conns : PeerSends(c) => P,
         \A c \in Conns : PeerHangsUp(c) => P
  PROVE  P
  BY Zenon DEF Next, AcceptLoop, HandleClient, Peer

(* What one more reply on connection c changes, and what it leaves alone.  *)
LEMMA SendAppends ==
  ASSUME replies \in [Conns -> Seq(Reply)], NEW c \in Conns,
         NEW kind \in NackKind \cup {"ACK"},
         NEW r \in Receipts \cup {NoReceipt},
         Send(c, kind, r)
  PROVE  /\ replies' \in [Conns -> Seq(Reply)]
         /\ Len(replies'[c]) = Len(replies[c]) + 1
         /\ replies'[c][Len(replies[c]) + 1] = [kind |-> kind, receipt |-> r]
         /\ \A i \in 1..Len(replies[c]) : replies'[c][i] = replies[c][i]
         /\ \A d \in Conns \ {c} : replies'[d] = replies[d]
<1> DEFINE e == [kind |-> kind, receipt |-> r]
<1>1. e \in Reply BY DEF Reply
<1>2. replies[c] \in Seq(Reply) OBVIOUS
<1>3. replies' = [replies EXCEPT ![c] = Append(replies[c], e)] BY DEF Send
<1>4. Append(replies[c], e) \in Seq(Reply) BY <1>1, <1>2
<1> HIDE DEF e
<1>5. replies' \in [Conns -> Seq(Reply)] BY <1>3, <1>4
<1>6. replies'[c] = Append(replies[c], e) BY <1>3
<1>7. Len(replies'[c]) = Len(replies[c]) + 1 BY <1>1, <1>2, <1>6
<1>8. replies'[c][Len(replies[c]) + 1] = e BY <1>1, <1>2, <1>6
<1>9. \A i \in 1..Len(replies[c]) : replies'[c][i] = replies[c][i]
  BY <1>1, <1>2, <1>6
<1>10. \A d \in Conns \ {c} : replies'[d] = replies[d] BY <1>3
<1> QED BY <1>5, <1>7, <1>8, <1>9, <1>10 DEF e

(* A peer's message comes after those it has sent; no other action touches *)
(* what was sent.                                                          *)
LEMMA SentGrows ==
  ASSUME TypeOK, Next
  PROVE  \A c \in Conns :
           /\ Len(sent[c]) \in Nat /\ Len(sent'[c]) \in Nat
           /\ Len(sent[c]) <= Len(sent'[c])
           /\ \A i \in 1..Len(sent[c]) : sent'[c][i] = sent[c][i]
<1> DEFINE P == \A c \in Conns :
                  /\ Len(sent[c]) \in Nat /\ Len(sent'[c]) \in Nat
                  /\ Len(sent[c]) <= Len(sent'[c])
                  /\ \A i \in 1..Len(sent[c]) : sent'[c][i] = sent[c][i]
<1>1. sent \in [Conns -> Seq(Message)] BY DEF TypeOK
<1>2. sent' = sent => P BY <1>1
<1>3. ASSUME NEW c \in Conns, PeerSends(c) PROVE P
  <2>1. PICK m \in Message : sent' = [sent EXCEPT ![c] = Append(@, m)]
    BY <1>3 DEF PeerSends
  <2>2. sent'[c] = Append(sent[c], m) /\ sent[c] \in Seq(Message)
    BY <1>1, <2>1
  <2>3. /\ Len(sent'[c]) = Len(sent[c]) + 1
        /\ \A i \in 1..Len(sent[c]) : sent'[c][i] = sent[c][i]
    BY <2>2
  <2>4. \A d \in Conns \ {c} : sent'[d] = sent[d] BY <1>1, <2>1
  <2> QED BY <1>1, <2>3, <2>4
<1>4. (\E c \in Conns : PeerSends(c)) \/ sent' = sent
  BY DEF Next, Start, Listen, ProcessEnds, AcceptLoop, Accept, TurnAway,
     RateLimitAllows, CountThread, CreateThread, UncountThread, Handshake,
     HandleClient, Enter, Recv, RecvEnds, VoterExists, HasVoted,
     GenerateReceipt, SaveVote, CountVote, Ack, Cleanup, Leave,
     Peer, PeerConnects, PeerHangsUp, wire
<1> QED BY <1>2, <1>3, <1>4

(* The vote a handler serves is a vote of its connection, and between      *)
(* generate_receipt and the answer it has its receipt.                     *)
LEMMA VoteInService ==
  ASSUME IInv, NEW c \in Conns, handler[c] \in Serving
  PROVE  /\ got[c] \in Nat \ {0} /\ got[c] \in 1..Len(sent[c])
         /\ Len(replies[c]) + 1 = got[c]
         /\ Current(c) \in Vote
         /\ handler[c] \in {"save_vote", "count_vote", "ack"} =>
              receipt[c] \in Receipts
<1>1. /\ got[c] \in Nat /\ sent[c] \in Seq(Message)
      /\ replies[c] \in Seq(Reply)
  BY DEF IInv, TypeOK
<1>2. /\ got[c] = Len(replies[c]) + 1 /\ got[c] <= Len(sent[c])
      /\ Current(c) # Malformed
  BY DEF IInv, Paired
<1>3. got[c] \in 1..Len(sent[c]) BY <1>1, <1>2
<1>4. Current(c) \in Vote BY <1>1, <1>2, <1>3 DEF Current, Message
<1> QED BY <1>1, <1>2, <1>3, <1>4 DEF IInv, Vetted

(* What save_vote adds to the tables, and what it leaves alone.            *)
LEMMA SavedRow ==
  ASSUME IInv, NEW c \in Conns, handler[c] = "save_vote", VoteSaved(c)
  PROVE  /\ votos' \in Seq(Row) /\ caster' \in Seq(Conns \X (Nat \ {0}))
         /\ Len(votos) \in Nat /\ Len(votos') = Len(votos) + 1
         /\ Len(caster) = Len(votos) /\ Len(caster') = Len(votos')
         /\ votos'[Len(votos) + 1] = NewRow(c)
         /\ caster'[Len(votos) + 1] = <<c, got[c]>>
         /\ \A k \in 1..Len(votos) :
              votos'[k] = votos[k] /\ caster'[k] = caster[k]
<1>1. /\ votos \in Seq(Row) /\ caster \in Seq(Conns \X (Nat \ {0}))
      /\ Len(caster) = Len(votos)
  BY DEF IInv, TypeOK, Traced
<1>2. handler[c] \in Serving
  BY DEF Serving
<1>3. NewRow(c) \in Row
  BY <1>2, VoteInService DEF NewRow, Row, Vote
<1>4. <<c, got[c]>> \in Conns \X (Nat \ {0})
  BY <1>2, VoteInService
<1>5. votos' = Append(votos, NewRow(c)) /\ caster' = Append(caster, <<c, got[c]>>)
  BY DEF VoteSaved
<1> HIDE DEF NewRow
<1>6. /\ votos' \in Seq(Row) /\ Len(votos') = Len(votos) + 1
      /\ votos'[Len(votos) + 1] = NewRow(c) /\ Len(votos) \in Nat
      /\ \A k \in 1..Len(votos) : votos'[k] = votos[k]
  BY <1>1, <1>3, <1>5
<1>7. /\ caster' \in Seq(Conns \X (Nat \ {0})) /\ Len(caster') = Len(caster) + 1
      /\ caster'[Len(caster) + 1] = <<c, got[c]>>
      /\ \A k \in 1..Len(caster) : caster'[k] = caster[k]
  BY <1>1, <1>4, <1>5
<1> QED BY <1>1, <1>6, <1>7

(* No decrement takes a counter of server_state below zero: the thread     *)
(* that makes it is still counted.                                         *)
LEMMA CountersPositive ==
  ASSUME IInv
  PROVE  /\ acceptor = "uncount_thread" => active_threads - 1 \in Nat
         /\ \A c \in Conns : handler[c] = "leave" =>
              active_threads - 1 \in Nat /\ connected_clients - 1 \in Nat
<1> USE DEF IInv, CounterAccounting
<1>1. /\ Size(Connected) \in Nat /\ Size(Running) \in Nat
      /\ Size({"failed"}) \in Nat
  BY FS_CardinalityType DEF Finite, Regions, Size
<1>2. acceptor = "uncount_thread" => active_threads - 1 \in Nat
  BY <1>1 DEF Pending
<1>3. ASSUME NEW c \in Conns, handler[c] = "leave"
      PROVE  active_threads - 1 \in Nat /\ connected_clients - 1 \in Nat
  <2>1. c \in In(Connected) /\ c \in In(Running)
    BY <1>3 DEF In, Connected, Running
  <2>2. Size(Connected) # 0 /\ Size(Running) # 0
    BY <2>1, FS_EmptySet DEF Finite, Regions, Size
  <2>3. acceptor \in Listening
    BY <1>3 DEF Quiet
  <2>4. acceptor # "down"
    BY <2>3 DEF Listening
  <2> QED BY <1>1, <2>2, <2>4 DEF Pending
<1> QED BY <1>2, <1>3

(* Every step preserves the types of the variables. *)
LEMMA TypeStep ==
  ASSUME IInv, Next
  PROVE  TypeOK'
<1> USE SentinelAssumption
    DEF vars, tables, counters, process, wire, Goto, Refuse,
        HandlerPc, AcceptorPc, Running, Connected, Serving, Over, Listening
<1>0. TypeOK BY DEF IInv
<1> USE <1>0 DEF TypeOK
<1>1. Start => TypeOK'           BY DEF Start, Seeded
<1>2. Listen => TypeOK'          BY DEF Listen
<1>3. ProcessEnds => TypeOK'     BY DEF ProcessEnds
<1>4. TurnAway => TypeOK'        BY DEF TurnAway
<1>5. RateLimitAllows => TypeOK' BY DEF RateLimitAllows
<1>6. CountThread => TypeOK'     BY DEF CountThread
<1>7. CreateThread => TypeOK'    BY DEF CreateThread
<1>8. ASSUME UncountThread PROVE TypeOK'
  BY <1>8, CountersPositive DEF UncountThread
<1>9. \A c \in Conns : Accept(c) => TypeOK'          BY DEF Accept
<1>10. \A c \in Conns : Handshake(c) => TypeOK'      BY DEF Handshake
<1>11. \A c \in Conns : Enter(c) => TypeOK'          BY DEF Enter
<1>12. ASSUME NEW c \in Conns, Recv(c) PROVE TypeOK'
  <2>1. got' \in [Conns -> Nat]
    BY <1>12 DEF Recv
  <2>2. CASE sent[c][got[c] + 1] = Malformed
    <3>1. Nack(c, "FORMATO_INVALIDO")
      BY <1>12, <2>2 DEF Recv
    <3>2. replies' \in [Conns -> Seq(Reply)]
      BY <3>1, SendAppends DEF Nack, NackKind
    <3>3. handler' \in [Conns -> HandlerPc]
      BY <3>1 DEF Nack
    <3> QED BY <1>12, <2>1, <3>2, <3>3 DEF Recv
  <2>3. CASE sent[c][got[c] + 1] # Malformed
    <3>1. Goto(c, "voter_exists") /\ UNCHANGED replies
      BY <1>12, <2>3 DEF Recv
    <3> QED BY <1>12, <2>1, <3>1 DEF Recv
  <2> QED BY <2>2, <2>3
<1>13. \A c \in Conns : RecvEnds(c) => TypeOK'       BY DEF RecvEnds
<1>14. ASSUME NEW c \in Conns, VoterExists(c) PROVE TypeOK'
  <2>1. Nack(c, "ELEITOR_INVALIDO") => replies' \in [Conns -> Seq(Reply)]
    BY SendAppends DEF Nack, NackKind
  <2> QED BY <1>14, <2>1 DEF VoterExists, Nack
<1>15. ASSUME NEW c \in Conns, HasVoted(c) PROVE TypeOK'
  <2>1. Nack(c, "JA_VOTOU") => replies' \in [Conns -> Seq(Reply)]
    BY SendAppends DEF Nack, NackKind
  <2> QED BY <1>15, <2>1 DEF HasVoted, Nack
<1>16. \A c \in Conns : GenerateReceipt(c) => TypeOK' BY DEF GenerateReceipt
<1>17. ASSUME NEW c \in Conns, SaveVote(c) PROVE TypeOK'
  <2>1. CASE VoteSaved(c)
    <3>1. votos' \in Seq(Row) /\ caster' \in Seq(Conns \X (Nat \ {0}))
      BY <1>17, <2>1, SavedRow DEF SaveVote
    <3> QED BY <1>17, <2>1, <3>1 DEF SaveVote, VoteSaved
  <2>2. CASE VoteNotSaved(c)
    <3>1. replies' \in [Conns -> Seq(Reply)]
      BY <2>2, SendAppends DEF VoteNotSaved, Nack, NackKind
    <3> QED BY <1>17, <2>2, <3>1 DEF SaveVote, VoteNotSaved, Nack
  <2> QED BY <1>17, <2>1, <2>2 DEF SaveVote
<1>18. \A c \in Conns : CountVote(c) => TypeOK'      BY DEF CountVote
<1>19. ASSUME NEW c \in Conns, Ack(c) PROVE TypeOK'
  <2>1. replies' \in [Conns -> Seq(Reply)]
    BY <1>19, SendAppends DEF Ack
  <2> QED BY <1>19, <2>1 DEF Ack
<1>20. \A c \in Conns : Cleanup(c) => TypeOK'        BY DEF Cleanup
<1>21. ASSUME NEW c \in Conns, Leave(c) PROVE TypeOK'
  BY <1>21, CountersPositive DEF Leave
<1>22. \A c \in Conns : PeerConnects(c) => TypeOK'   BY DEF PeerConnects
<1>23. ASSUME NEW c \in Conns, PeerSends(c) PROVE TypeOK'
  BY <1>23 DEF PeerSends
<1>24. \A c \in Conns : PeerHangsUp(c) => TypeOK'    BY DEF PeerHangsUp
<1> HIDE DEF TypeOK
<1> QED
  BY Zenon, <1>1, <1>2, <1>3, <1>4, <1>5, <1>6, <1>7, <1>8, <1>9, <1>10, <1>11,
     <1>12, <1>13, <1>14, <1>15, <1>16, <1>17, <1>18, <1>19, <1>20, <1>21,
     <1>22, <1>23, <1>24, NextCases

(* There are connections only while start_server listens, and the one it   *)
(* has in hand has no thread yet.                                          *)
LEMMA AcceptorStep ==
  ASSUME IInv, Next
  PROVE  Quiet' /\ InHand'
<1> USE SentinelAssumption
    DEF vars, tables, counters, process, wire, Goto, Refuse, Quiet, InHand,
        AcceptorPc, Serving, Listening, Connected, Running, Over
<1>0. TypeOK /\ Quiet /\ InHand BY DEF IInv
<1>a. /\ acceptor \in AcceptorPc /\ handler \in [Conns -> HandlerPc]
  BY <1>0 DEF TypeOK
<1> USE <1>0, <1>a
<1>1. Start => Quiet' /\ InHand'           BY DEF Start
<1>2. Listen => Quiet' /\ InHand'          BY DEF Listen
<1>3. ProcessEnds => Quiet' /\ InHand'     BY DEF ProcessEnds, HandlerPc
<1>4. TurnAway => Quiet' /\ InHand'        BY DEF TurnAway
<1>5. RateLimitAllows => Quiet' /\ InHand' BY DEF RateLimitAllows
<1>6. CountThread => Quiet' /\ InHand'     BY DEF CountThread
<1>7. CreateThread => Quiet' /\ InHand'    BY DEF CreateThread
<1>8. UncountThread => Quiet' /\ InHand'   BY DEF UncountThread
<1>9. \A c \in Conns : Accept(c) => Quiet' /\ InHand'    BY DEF Accept
<1>10. \A c \in Conns : Handshake(c) => Quiet' /\ InHand' BY DEF Handshake
<1>11. \A c \in Conns : Enter(c) => Quiet' /\ InHand'    BY DEF Enter
<1>12. \A c \in Conns : Recv(c) => Quiet' /\ InHand'     BY DEF Recv, Nack
<1>13. \A c \in Conns : RecvEnds(c) => Quiet' /\ InHand' BY DEF RecvEnds
<1>14. \A c \in Conns : VoterExists(c) => Quiet' /\ InHand'
  BY DEF VoterExists, Nack
<1>15. \A c \in Conns : HasVoted(c) => Quiet' /\ InHand' BY DEF HasVoted, Nack
<1>16. \A c \in Conns : GenerateReceipt(c) => Quiet' /\ InHand'
  BY DEF GenerateReceipt
<1>17. \A c \in Conns : SaveVote(c) => Quiet' /\ InHand'
  BY DEF SaveVote, VoteSaved, VoteNotSaved, Nack
<1>18. \A c \in Conns : CountVote(c) => Quiet' /\ InHand' BY DEF CountVote
<1>19. \A c \in Conns : Ack(c) => Quiet' /\ InHand'      BY DEF Ack
<1>20. \A c \in Conns : Cleanup(c) => Quiet' /\ InHand'  BY DEF Cleanup
<1>21. \A c \in Conns : Leave(c) => Quiet' /\ InHand'    BY DEF Leave
<1>22. \A c \in Conns : PeerConnects(c) => Quiet' /\ InHand'
  BY DEF PeerConnects
<1>23. \A c \in Conns : PeerSends(c) => Quiet' /\ InHand' BY DEF PeerSends
<1>24. \A c \in Conns : PeerHangsUp(c) => Quiet' /\ InHand'
  BY DEF PeerHangsUp
<1> HIDE DEF Quiet, InHand
<1> QED
  BY Zenon, <1>1, <1>2, <1>3, <1>4, <1>5, <1>6, <1>7, <1>8, <1>9, <1>10, <1>11,
     <1>12, <1>13, <1>14, <1>15, <1>16, <1>17, <1>18, <1>19, <1>20, <1>21,
     <1>22, <1>23, <1>24, NextCases

(* What a move of connection c to pc adds to the size of the region S.     *)
Change(c, pc, S) ==
  CASE pc \in S /\ handler[c] \notin S -> 1
    [] pc \notin S /\ handler[c] \in S -> -1
    [] OTHER -> 0

(* How many connections are in a region of the code after one of them      *)
(* moves to pc.                                                            *)
LEMMA MoveCount ==
  ASSUME handler \in [Conns -> HandlerPc], NEW S, IsFiniteSet(In(S)),
         NEW c \in Conns, NEW pc, Goto(c, pc)
  PROVE  /\ IsFiniteSet(In(S)')
         /\ Size(S) \in Nat /\ Size(S)' \in Nat
         /\ Change(c, pc, S) \in Int
         /\ Size(S)' = Size(S) + Change(c, pc, S)
<1>0. IsFiniteSet(In(S)) /\ Size(S) \in Nat /\ Change(c, pc, S) \in Int
  BY FS_CardinalityType DEF Size, Change
<1> SUFFICES /\ IsFiniteSet(In(S)')
             /\ Size(S)' = Size(S) + Change(c, pc, S)
  BY <1>0, FS_CardinalityType DEF Size
<1>1. CASE handler[c] \in S <=> pc \in S
  <2>1. In(S)' = In(S) BY <1>1 DEF In, Goto
  <2> QED BY <1>0, <1>1, <2>1 DEF Change, Size
<1>2. CASE handler[c] \notin S /\ pc \in S
  <2>1. In(S)' = In(S) \cup {c} /\ c \notin In(S) BY <1>2 DEF In, Goto
  <2>2. IsFiniteSet(In(S)') /\ Size(S)' = Size(S) + 1
    BY <1>0, <2>1, FS_AddElement DEF Size
  <2> QED BY <1>0, <1>2, <2>2 DEF Change
<1>3. CASE handler[c] \in S /\ pc \notin S
  <2>1. In(S)' = In(S) \ {c} /\ c \in In(S) BY <1>3 DEF In, Goto
  <2>2. IsFiniteSet(In(S)') /\ Size(S)' = Size(S) - 1
    BY <1>0, <2>1, FS_RemoveElement DEF Size
  <2> QED BY <1>0, <1>3, <2>2 DEF Change
<1> QED BY <1>1, <1>2, <1>3

(* The same for the regions of the counters.                               *)
LEMMA MoveCounts ==
  ASSUME handler \in [Conns -> HandlerPc], Finite,
         NEW c \in Conns, NEW pc, Goto(c, pc)
  PROVE  /\ Finite'
         /\ \A S \in Regions :
              /\ Size(S) \in Nat /\ Size(S)' \in Nat
              /\ Change(c, pc, S) \in Int
              /\ Size(S)' = Size(S) + Change(c, pc, S)
BY MoveCount DEF Finite

(* The books of server_state: the sizes of the regions against which its   *)
(* counters are exact.                                                     *)
Books == Finite /\ CounterAccounting /\ TotalVotesExact

(* Each counter changes by what the move of c to pc changes in its regions. *)
Booked(c, pc) ==
  /\ connected_clients' = connected_clients + Change(c, pc, Connected)
  /\ active_threads' - Pending' =
       (active_threads - Pending)
         + (Change(c, pc, Running) + Change(c, pc, {"failed"}))
  /\ total_votes' - Len(votos') =
       (total_votes - Len(votos)) - Change(c, pc, {"count_vote"})
  /\ base' = base

(* The books balance after a move that is booked.                          *)
LEMMA BooksBalance ==
  ASSUME IInv, TypeOK', acceptor # "down",
         NEW c \in Conns, NEW pc, Goto(c, pc), Booked(c, pc)
  PROVE  Books'
<1>1. /\ handler \in [Conns -> HandlerPc] /\ Finite
      /\ CounterAccounting /\ TotalVotesExact
  BY DEF IInv, TypeOK
<1>2. /\ active_threads' \in Nat /\ total_votes \in Nat /\ total_votes' \in Nat
      /\ base \in Nat /\ base' = base
  BY DEF IInv, TypeOK, Booked
<1>a. Len(votos) \in Nat /\ Len(votos') \in Nat
  <2>1. votos \in Seq(Row) /\ votos' \in Seq(Row)
    BY DEF IInv, TypeOK
  <2> QED BY <2>1
<1>3. /\ Finite'
      /\ \A S \in Regions :
           /\ Size(S) \in Nat /\ Size(S)' \in Nat
           /\ Change(c, pc, S) \in Int
           /\ Size(S)' = Size(S) + Change(c, pc, S)
  BY <1>1, MoveCounts
<1>4. Pending \in Nat /\ Pending' \in Nat
  BY DEF Pending
<1>5. connected_clients' = Size(Connected)'
  BY <1>1, <1>3 DEF Booked, CounterAccounting, Regions
<1>6. active_threads' = 1 + Pending' + Size(Running)' + Size({"failed"})'
  <2>1. active_threads = 1 + Pending + Size(Running) + Size({"failed"})
    BY <1>1 DEF CounterAccounting
  <2>2. /\ Size(Running) \in Nat /\ Size({"failed"}) \in Nat
        /\ Change(c, pc, Running) \in Int /\ Change(c, pc, {"failed"}) \in Int
        /\ Size(Running)' = Size(Running) + Change(c, pc, Running)
        /\ Size({"failed"})' = Size({"failed"}) + Change(c, pc, {"failed"})
    BY <1>3 DEF Regions
  <2>3. active_threads' - Pending' =
          (active_threads - Pending)
            + (Change(c, pc, Running) + Change(c, pc, {"failed"}))
    BY DEF Booked
  <2>4. active_threads - Pending = 1 + Size(Running) + Size({"failed"})
    BY <1>4, <2>1, <2>2
  <2>5. active_threads' - Pending' = 1 + Size(Running)' + Size({"failed"})'
    BY <2>2, <2>3, <2>4
  <2>6. Size(Running)' \in Nat /\ Size({"failed"})' \in Nat
    BY <1>3 DEF Regions
  <2>7. active_threads' \in Nat /\ Pending' \in Nat
    BY <1>2, <1>4
  <2> QED BY <2>5, <2>6, <2>7
<1>7. total_votes' + Size({"count_vote"})' = Len(votos') - base'
  <2>1. total_votes + Size({"count_vote"}) = Len(votos) - base
    BY <1>1 DEF TotalVotesExact
  <2>2. /\ Size({"count_vote"}) \in Nat /\ Change(c, pc, {"count_vote"}) \in Int
        /\ Size({"count_vote"})' =
             Size({"count_vote"}) + Change(c, pc, {"count_vote"})
    BY <1>3 DEF Regions
  <2>3. total_votes' - Len(votos') =
          (total_votes - Len(votos)) - Change(c, pc, {"count_vote"})
    BY DEF Booked
  <2> QED BY <1>2, <1>a, <2>1, <2>2, <2>3
<1> QED
  BY <1>3, <1>5, <1>6, <1>7 DEF Books, CounterAccounting, TotalVotesExact

(* Nothing is booked, and start_server's own thread count in flight is the *)
(* only counter a step touches that moves no connection.                   *)
LEMMA BooksStill ==
  ASSUME IInv, TypeOK', acceptor # "down", handler' = handler,
         UNCHANGED <<connected_clients, total_votes, base, votos>>,
         active_threads' - Pending' = active_threads - Pending
  PROVE  Books'
<1>1. \A S : In(S)' = In(S) /\ Size(S)' = Size(S)
  BY DEF In, Size
<1>2. \A S \in Regions : IsFiniteSet(In(S)) /\ Size(S) \in Nat
  BY FS_CardinalityType DEF IInv, Finite, Size
<1>3. Size(Running) \in Nat /\ Size({"failed"}) \in Nat
  BY <1>2 DEF Regions
<1>4. active_threads = 1 + Pending + Size(Running) + Size({"failed"})
  BY DEF IInv, CounterAccounting
<1>5. Pending \in Nat /\ Pending' \in Nat BY DEF Pending
<1>6. active_threads' \in Nat BY DEF TypeOK
<1>7. active_threads' = 1 + Pending' + Size(Running) + Size({"failed"})
  BY <1>3, <1>4, <1>5, <1>6
<1>8. CounterAccounting'
  BY <1>1, <1>7 DEF IInv, CounterAccounting
<1>9. TotalVotesExact'
  BY <1>1 DEF IInv, TotalVotesExact
<1> QED BY <1>1, <1>2, <1>8, <1>9 DEF Books, Finite

(* The counters of server_state stay exact: each action of a thread moves  *)
(* its counter together with the thread.                                   *)
LEMMA CountersStep ==
  ASSUME IInv, Next
  PROVE  Books'
<1> USE DEF vars, tables, counters, process, wire
<1>a. /\ handler \in [Conns -> HandlerPc] /\ acceptor \in AcceptorPc
      /\ connected_clients \in Nat /\ active_threads \in Nat
      /\ total_votes \in Nat /\ Len(votos) \in Nat
  <2>1. votos \in Seq(Row) BY DEF IInv, TypeOK
  <2> QED BY <2>1 DEF IInv, TypeOK
<1>b. TypeOK' BY TypeStep
<1>c. /\ connected_clients' \in Nat /\ active_threads' \in Nat
      /\ total_votes' \in Nat
  BY <1>b DEF TypeOK
<1>d. \A c \in Conns :
        handler[c] \in Running \cup {"queued", "accepted"} => acceptor # "down"
  BY DEF IInv, Quiet, Listening, Running, Connected, Serving
<1>e. acceptor \in Listening \ {"accept"} =>
        client_socket \in Conns /\ handler[client_socket] = "accepted"
  BY DEF IInv, InHand
<1>1. ASSUME Start PROVE Books'
  <2>1. /\ acceptor = "down" /\ acceptor' = "boot" /\ handler' = handler
        /\ connected_clients' = 0 /\ active_threads' = 1 /\ total_votes' = 0
        /\ base' = Len(votos) /\ votos' = votos
    BY <1>1 DEF Start
  <2>2. \A S \in Regions : In(S)' = {}
    BY <2>1 DEF In, Regions, Connected, Running, Serving, IInv, Quiet, Listening
  <2>3. \A S \in Regions : IsFiniteSet(In(S)') /\ Size(S)' = 0
    BY <2>2, FS_EmptySet DEF Size
  <2>4. /\ Size(Connected)' = 0 /\ Size(Running)' = 0
        /\ Size({"failed"})' = 0 /\ Size({"count_vote"})' = 0
    BY <2>3 DEF Regions
  <2> QED BY <1>a, <2>1, <2>3, <2>4
          DEF Books, Finite, CounterAccounting, TotalVotesExact, Pending
<1>2. ASSUME Listen PROVE Books'
  BY <1>2, <1>a, <1>b, BooksStill DEF Listen, Pending
<1>3. ASSUME ProcessEnds PROVE Books'
  <2>1. \A S \in Regions : In(S)' = {}
    BY <1>3, <1>a
    DEF ProcessEnds, In, Regions, Connected, Running, Serving, Over, HandlerPc
  <2>2. acceptor' = "down" BY <1>3 DEF ProcessEnds
  <2> QED BY <2>1, <2>2, FS_EmptySet
          DEF Books, Finite, CounterAccounting, TotalVotesExact
<1>5. ASSUME RateLimitAllows PROVE Books'
  BY <1>5, <1>a, <1>b, BooksStill DEF RateLimitAllows, Pending
<1>6. ASSUME CountThread PROVE Books'
  BY <1>6, <1>a, <1>b, BooksStill DEF CountThread, Pending
<1>22. ASSUME NEW c \in Conns, PeerSends(c) PROVE Books'
  BY <1>22, <1>a, <1>b, <1>d, BooksStill DEF PeerSends, Pending, Open, Running, Connected
<1>23. ASSUME NEW c \in Conns, PeerHangsUp(c) PROVE Books'
  BY <1>23, <1>a, <1>b, <1>d, BooksStill DEF PeerHangsUp, Pending, Open, Running, Connected
<1> USE DEF Booked, Change, Connected, Running, Serving, Listening
<1>4. ASSUME TurnAway PROVE Books'
  BY <1>4, <1>a, <1>b, <1>e, BooksBalance DEF TurnAway, Refuse, Pending
<1>7. ASSUME CreateThread PROVE Books'
  <2>1. CASE Goto(client_socket, "ssl_accept") /\ acceptor' = "accept"
    BY <2>1, <1>7, <1>a, <1>b, <1>e, BooksBalance DEF CreateThread, Pending
  <2>2. CASE acceptor' = "uncount_thread"
    BY <2>2, <1>7, <1>a, <1>b, BooksStill DEF CreateThread, Pending
  <2> QED BY <1>7, <2>1, <2>2 DEF CreateThread
<1>8. ASSUME UncountThread PROVE Books'
  BY <1>8, <1>a, <1>b, <1>e, BooksBalance DEF UncountThread, Refuse, Pending
<1>9. ASSUME NEW c \in Conns, Accept(c) PROVE Books'
  BY <1>9, <1>a, <1>b, BooksBalance DEF Accept, Pending
<1>10. ASSUME NEW c \in Conns, Handshake(c) PROVE Books'
  BY <1>10, <1>a, <1>b, <1>d, BooksBalance DEF Handshake, Pending
<1>11. ASSUME NEW c \in Conns, Enter(c) PROVE Books'
  BY <1>11, <1>a, <1>b, <1>d, BooksBalance DEF Enter, Pending
<1>12. ASSUME NEW c \in Conns, Recv(c) PROVE Books'
  BY <1>12, <1>a, <1>b, <1>d, BooksBalance DEF Recv, Nack, Pending
<1>13. ASSUME NEW c \in Conns, RecvEnds(c) PROVE Books'
  BY <1>13, <1>a, <1>b, <1>d, BooksBalance DEF RecvEnds, Pending
<1>14. ASSUME NEW c \in Conns, VoterExists(c) PROVE Books'
  BY <1>14, <1>a, <1>b, <1>d, BooksBalance DEF VoterExists, Nack, Pending
<1>15. ASSUME NEW c \in Conns, HasVoted(c) PROVE Books'
  BY <1>15, <1>a, <1>b, <1>d, BooksBalance DEF HasVoted, Nack, Pending
<1>16. ASSUME NEW c \in Conns, GenerateReceipt(c) PROVE Books'
  BY <1>16, <1>a, <1>b, <1>d, BooksBalance DEF GenerateReceipt, Pending
<1>17. ASSUME NEW c \in Conns, SaveVote(c) PROVE Books'
  <2>1. CASE VoteSaved(c)
    <3>1. Len(votos') = Len(votos) + 1
      BY <1>17, <2>1, SavedRow DEF SaveVote
    <3>2. /\ handler[c] = "save_vote" /\ Goto(c, "count_vote")
          /\ UNCHANGED <<counters, process>>
      BY <2>1, <1>17 DEF SaveVote, VoteSaved
    <3>3. /\ Change(c, "count_vote", Connected) = 0
          /\ Change(c, "count_vote", Running) = 0
          /\ Change(c, "count_vote", {"failed"}) = 0
          /\ Change(c, "count_vote", {"count_vote"}) = 1
      BY <3>2
    <3>4. Booked(c, "count_vote")
      <4> HIDE DEF Change
      <4> QED BY <3>1, <3>2, <3>3, <1>a, <1>b DEF Pending
    <3> QED BY <3>2, <3>4, <1>b, <1>d, BooksBalance
  <2>2. CASE VoteNotSaved(c)
    BY <2>2, <1>17, <1>a, <1>b, <1>d, BooksBalance
    DEF SaveVote, VoteNotSaved, Nack, Pending
  <2> QED BY <1>17, <2>1, <2>2 DEF SaveVote
<1>18. ASSUME NEW c \in Conns, CountVote(c) PROVE Books'
  BY <1>18, <1>a, <1>b, <1>d, BooksBalance DEF CountVote, Pending
<1>19. ASSUME NEW c \in Conns, Ack(c) PROVE Books'
  BY <1>19, <1>a, <1>b, <1>d, BooksBalance DEF Ack, Pending
<1>20. ASSUME NEW c \in Conns, Cleanup(c) PROVE Books'
  BY <1>20, <1>a, <1>b, <1>d, BooksBalance DEF Cleanup, Pending
<1>21. ASSUME NEW c \in Conns, Leave(c) PROVE Books'
  BY <1>21, <1>a, <1>b, <1>d, BooksBalance DEF Leave, Pending
<1>24. ASSUME NEW c \in Conns, PeerConnects(c) PROVE Books'
  BY <1>24, <1>a, <1>b, BooksBalance DEF PeerConnects, Pending
<1> QED
  BY Zenon, <1>1, <1>2, <1>3, <1>4, <1>5, <1>6, <1>7, <1>8, <1>9, <1>10, <1>11,
     <1>12, <1>13, <1>14, <1>15, <1>16, <1>17, <1>18, <1>19, <1>20, <1>21,
     <1>22, <1>23, <1>24, NextCases

(* A refused vote: one more reply, and the next message is read.           *)
LEMMA NackAnswers ==
  ASSUME TypeOK, NEW c \in Conns, NEW kind \in NackKind, Nack(c, kind)
  PROVE  /\ handler' = [handler EXCEPT ![c] = "recv"]
         /\ Len(replies'[c]) = Len(replies[c]) + 1
         /\ replies'[c][Len(replies[c]) + 1] =
              [kind |-> kind, receipt |-> NoReceipt]
         /\ \A i \in 1..Len(replies[c]) : replies'[c][i] = replies[c][i]
         /\ \A d \in Conns \ {c} : replies'[d] = replies[d]
  BY SendAppends DEF Nack, Goto, TypeOK

(* Messages are read and answered one by one, in order.                    *)
LEMMA PairedStep ==
  ASSUME IInv, Next
  PROVE  Paired'
<1> USE DEF vars, tables, counters, process, wire, Goto, Refuse, Paired,
        Current, Serving
<1>a. TypeOK /\ Paired BY DEF IInv
<1>b. /\ handler \in [Conns -> HandlerPc] /\ got \in [Conns -> Nat]
      /\ sent \in [Conns -> Seq(Message)] /\ replies \in [Conns -> Seq(Reply)]
  BY <1>a DEF TypeOK
<1>c. \A c \in Conns : Len(sent[c]) \in Nat /\ Len(replies[c]) \in Nat
  BY <1>b
<1>d. handler \in [Conns -> HandlerPc] /\ got \in [Conns -> Nat]
  BY <1>b
<1>e. acceptor \in Listening \ {"accept"} =>
        client_socket \in Conns /\ handler[client_socket] = "accepted"
  BY DEF IInv, InHand
<1>f. ASSUME NEW c \in Conns, handler[c] \in Serving,
             NEW kind \in NackKind, Nack(c, kind), UNCHANGED <<sent, got>>
      PROVE  Paired'
  <2>1. /\ handler'[c] = "recv"
        /\ Len(replies'[c]) = Len(replies[c]) + 1
        /\ \A d \in Conns \ {c} :
             handler'[d] = handler[d] /\ replies'[d] = replies[d]
        /\ sent' = sent /\ got' = got
    BY <1>a, <1>d, <1>f, NackAnswers
  <2>2. got[c] = Len(replies[c]) + 1
    BY <1>a, <1>f
  <2> QED BY <2>1, <2>2, <1>a, <1>c, <1>d
<1>1. Start => Paired'             BY <1>a DEF Start
<1>2. Listen => Paired'            BY <1>a DEF Listen
<1>3. ProcessEnds => Paired'       BY <1>a, <1>d DEF ProcessEnds
<1>4. TurnAway => Paired'          BY <1>a, <1>d, <1>e DEF TurnAway, Listening, AcceptorPc
<1>5. RateLimitAllows => Paired'   BY <1>a DEF RateLimitAllows
<1>6. CountThread => Paired'       BY <1>a DEF CountThread
<1>7. CreateThread => Paired'      BY <1>a, <1>d, <1>e DEF CreateThread, Listening, AcceptorPc
<1>8. UncountThread => Paired'     BY <1>a, <1>d, <1>e DEF UncountThread, Listening, AcceptorPc
<1>9. \A c \in Conns : Accept(c) => Paired'     BY <1>a, <1>d DEF Accept
<1>10. \A c \in Conns : Handshake(c) => Paired' BY <1>a, <1>d DEF Handshake
<1>11. \A c \in Conns : Enter(c) => Paired'     BY <1>a, <1>d DEF Enter
<1>12. ASSUME NEW c \in Conns, Recv(c) PROVE Paired'
  <2>1. handler[c] = "recv" /\ got[c] = Len(replies[c])
    BY <1>12, <1>a, <1>c, <1>d DEF Recv
  <2>2. /\ got'[c] = got[c] + 1 /\ got'[c] <= Len(sent[c])
        /\ \A d \in Conns \ {c} : got'[d] = got[d]
        /\ sent' = sent
    BY <1>12, <1>c, <1>d DEF Recv
  <2>3. CASE sent[c][got[c] + 1] = Malformed
    <3>1. Nack(c, "FORMATO_INVALIDO")
      BY <1>12, <2>3 DEF Recv
    <3>2. /\ handler'[c] = "recv"
          /\ Len(replies'[c]) = Len(replies[c]) + 1
          /\ \A d \in Conns \ {c} :
               handler'[d] = handler[d] /\ replies'[d] = replies[d]
      BY <3>1, <1>a, <1>d, NackAnswers DEF NackKind
    <3>3. got'[c] = Len(replies'[c]) BY <3>2, <2>1, <2>2
    <3>4. got[c] \in Nat /\ Len(sent[c]) \in Nat BY <1>c, <1>d
    <3>5. \A d \in Conns \ {c} :
            /\ handler'[d] = handler[d] /\ replies'[d] = replies[d]
            /\ got'[d] = got[d] /\ sent'[d] = sent[d]
      BY <3>2, <2>2
    <3> QED BY <3>2, <3>3, <3>4, <3>5, <2>2, <1>a
  <2>4. CASE sent[c][got[c] + 1] # Malformed
    <3>1. handler' = [handler EXCEPT ![c] = "voter_exists"] /\ replies' = replies
      BY <1>12, <2>4 DEF Recv
    <3> QED BY <3>1, <2>1, <2>2, <2>4, <1>a, <1>c, <1>d
  <2> QED BY <2>3, <2>4
<1>13. \A c \in Conns : RecvEnds(c) => Paired'  BY <1>a, <1>d DEF RecvEnds
<1>14. ASSUME NEW c \in Conns, VoterExists(c) PROVE Paired'
  <2>1. CASE Nack(c, "ELEITOR_INVALIDO")
    BY <2>1, <1>14, <1>f DEF VoterExists, NackKind
  <2>2. CASE handler' = [handler EXCEPT ![c] = "has_voted"] /\ replies' = replies
    BY <2>2, <1>14, <1>a, <1>d DEF VoterExists
  <2> QED BY <1>14, <2>1, <2>2 DEF VoterExists
<1>15. ASSUME NEW c \in Conns, HasVoted(c) PROVE Paired'
  <2>1. CASE Nack(c, "JA_VOTOU")
    BY <2>1, <1>15, <1>f DEF HasVoted, NackKind
  <2>2. CASE /\ handler' = [handler EXCEPT ![c] = "generate_receipt"]
             /\ replies' = replies
    BY <2>2, <1>15, <1>a, <1>d DEF HasVoted
  <2> QED BY <1>15, <2>1, <2>2 DEF HasVoted
<1>16. \A c \in Conns : GenerateReceipt(c) => Paired'
  BY <1>a, <1>d DEF GenerateReceipt
<1>17. ASSUME NEW c \in Conns, SaveVote(c) PROVE Paired'
  <2>1. CASE VoteSaved(c)
    BY <2>1, <1>17, <1>a, <1>d DEF SaveVote, VoteSaved
  <2>2. CASE VoteNotSaved(c)
    BY <2>2, <1>17, <1>f DEF SaveVote, VoteNotSaved, NackKind
  <2> QED BY <1>17, <2>1, <2>2 DEF SaveVote
<1>18. \A c \in Conns : CountVote(c) => Paired' BY <1>a, <1>d DEF CountVote
<1>19. ASSUME NEW c \in Conns, Ack(c) PROVE Paired'
  <2>1. /\ Len(replies'[c]) = Len(replies[c]) + 1
        /\ \A d \in Conns \ {c} : replies'[d] = replies[d]
    BY <1>19, <1>a, SendAppends DEF Ack, TypeOK
  <2> QED BY <2>1, <1>19, <1>a, <1>c, <1>d DEF Ack
<1>20. \A c \in Conns : Cleanup(c) => Paired'   BY <1>a, <1>d DEF Cleanup
<1>21. \A c \in Conns : Leave(c) => Paired'     BY <1>a, <1>d DEF Leave
<1>22. \A c \in Conns : PeerConnects(c) => Paired'
  BY <1>a, <1>d DEF PeerConnects
<1>23. ASSUME NEW c \in Conns, PeerSends(c) PROVE Paired'
  BY <1>23, <1>a, <1>c, <1>d, SentGrows DEF PeerSends
<1>24. \A c \in Conns : PeerHangsUp(c) => Paired' BY <1>a DEF PeerHangsUp
<1> HIDE DEF Paired
<1> QED
  BY Zenon, <1>1, <1>2, <1>3, <1>4, <1>5, <1>6, <1>7, <1>8, <1>9, <1>10, <1>11,
     <1>12, <1>13, <1>14, <1>15, <1>16, <1>17, <1>18, <1>19, <1>20, <1>21,
     <1>22, <1>23, <1>24, NextCases

(* Only save_vote adds to the tables of votes, only a start to the roll,   *)
(* and only a start brings a process up.                                   *)
LEMMA TablesStep ==
  ASSUME IInv, Next
  PROVE  /\ \/ votos' = votos /\ caster' = caster
            \/ \E c \in Conns : SaveVote(c) /\ VoteSaved(c)
         /\ \/ Start
            \/ /\ eleitores' = eleitores /\ base' = base
               /\ acceptor' # "down" => acceptor # "down"
  BY DEF Next, Start, Listen, ProcessEnds, AcceptLoop, Accept, TurnAway,
     RateLimitAllows, CountThread, CreateThread, UncountThread, Handshake,
     HandleClient, Enter, Recv, RecvEnds, VoterExists, HasVoted, Refuse,
     GenerateReceipt, SaveVote, VoteSaved, VoteNotSaved, CountVote, Ack,
     Cleanup, Leave, Peer, PeerConnects, PeerSends, PeerHangsUp,
     tables, process

(* A row that is in the tables stays there as it is, and a voter who is on *)
(* the roll stays on it.                                                   *)
LEMMA TablesGrow ==
  ASSUME IInv, Next
  PROVE  /\ Len(votos) \in Nat /\ Len(votos') \in Nat /\ Len(votos) <= Len(votos')
         /\ DOMAIN votos = 1..Len(votos) /\ DOMAIN votos' = 1..Len(votos')
         /\ \A k \in 1..Len(votos) :
              votos'[k] = votos[k] /\ caster'[k] = caster[k]
         /\ eleitores \subseteq eleitores'
<1>1. votos \in Seq(Row) BY DEF IInv, TypeOK
<1>2. eleitores \subseteq eleitores'
  BY TablesStep DEF Start
<1>3. CASE votos' = votos /\ caster' = caster
  BY <1>1, <1>2, <1>3
<1>4. ASSUME NEW c \in Conns, SaveVote(c), VoteSaved(c)
      PROVE  /\ votos' \in Seq(Row) /\ Len(votos') = Len(votos) + 1
             /\ \A k \in 1..Len(votos) :
                  votos'[k] = votos[k] /\ caster'[k] = caster[k]
  BY <1>4, SavedRow DEF SaveVote
<1>5. CASE \E c \in Conns : SaveVote(c) /\ VoteSaved(c)
  <2>1. /\ votos' \in Seq(Row) /\ Len(votos') = Len(votos) + 1
        /\ \A k \in 1..Len(votos) :
             votos'[k] = votos[k] /\ caster'[k] = caster[k]
    BY <1>4, <1>5
  <2> QED BY <1>1, <1>2, <2>1
<1> QED BY <1>3, <1>5, TablesStep

(* The ways the handler of c moves, and what it knows when it does.        *)
Move(c) ==
  \/ handler'[c] = handler[c] /\ got'[c] = got[c] /\ receipt'[c] = receipt[c]
  \/ handler'[c] \notin Serving /\ handler[c] \notin {"count_vote", "ack", "gone"}
  \/ handler[c] = "recv" /\ handler'[c] = "voter_exists"
  \/ /\ handler[c] = "voter_exists" /\ handler'[c] = "has_voted"
     /\ got'[c] = got[c] /\ Current(c).voter \in eleitores
  \/ /\ handler[c] = "has_voted" /\ handler'[c] = "generate_receipt"
     /\ got'[c] = got[c]
  \/ /\ handler[c] = "generate_receipt" /\ handler'[c] = "save_vote"
     /\ got'[c] = got[c] /\ receipt'[c] \in Receipts
  \/ /\ handler'[c] = "count_vote" /\ got'[c] = got[c] /\ receipt'[c] = receipt[c]
     /\ SaveVote(c) /\ VoteSaved(c)
  \/ /\ handler[c] = "count_vote" /\ handler'[c] = "ack"
     /\ got'[c] = got[c] /\ receipt'[c] = receipt[c]
  \/ Ack(c) /\ handler'[c] = "recv" /\ got'[c] = got[c]
  \/ handler'[c] = "gone" /\ got'[c] = got[c]

(* No handler moves otherwise.                                             *)
LEMMA HandlerMoves ==
  ASSUME IInv, Next
  PROVE  \A d \in Conns : Move(d)
<1> DEFINE P == \A d \in Conns : Move(d)
<1> USE DEF vars, tables, counters, process, wire, Goto, Refuse, Move, Serving
<1>a. /\ handler \in [Conns -> HandlerPc] /\ got \in [Conns -> Nat]
      /\ receipt \in [Conns -> Receipts \cup {NoReceipt}]
  BY DEF IInv, TypeOK
<1>b. acceptor \in Listening \ {"accept"} =>
        client_socket \in Conns /\ handler[client_socket] = "accepted"
  BY DEF IInv, InHand
<1>c. eleitores \subseteq Roll BY DEF IInv, TypeOK
<1> USE <1>a
<1>1. Start => P           BY DEF Start
<1>2. Listen => P          BY DEF Listen
<1>3. ProcessEnds => P     BY DEF ProcessEnds, HandlerPc
<1>4. TurnAway => P        BY <1>b DEF TurnAway, Listening, AcceptorPc
<1>5. RateLimitAllows => P BY DEF RateLimitAllows
<1>6. CountThread => P     BY DEF CountThread
<1>7. CreateThread => P    BY <1>b DEF CreateThread, Listening, AcceptorPc
<1>8. UncountThread => P   BY <1>b DEF UncountThread, Listening, AcceptorPc
<1>9. \A c \in Conns : Accept(c) => P     BY DEF Accept
<1>10. \A c \in Conns : Handshake(c) => P BY DEF Handshake
<1>11. \A c \in Conns : Enter(c) => P     BY DEF Enter
<1>12. \A c \in Conns : Recv(c) => P      BY DEF Recv, Nack
<1>13. \A c \in Conns : RecvEnds(c) => P  BY DEF RecvEnds
<1>14. \A c \in Conns : VoterExists(c) => P
  BY DEF VoterExists, Nack, Found
<1>15. \A c \in Conns : HasVoted(c) => P  BY DEF HasVoted, Nack
<1>16. \A c \in Conns : GenerateReceipt(c) => P BY DEF GenerateReceipt
<1>17. ASSUME NEW c \in Conns, SaveVote(c) PROVE P
  <2>1. CASE VoteSaved(c)
    BY <2>1, <1>17 DEF SaveVote, VoteSaved
  <2>2. CASE VoteNotSaved(c)
    BY <2>2, <1>17 DEF SaveVote, VoteNotSaved, Nack
  <2> QED BY <1>17, <2>1, <2>2 DEF SaveVote
<1>18. \A c \in Conns : CountVote(c) => P BY DEF CountVote
<1>19. \A c \in Conns : Ack(c) => P       BY DEF Ack
<1>20. \A c \in Conns : Cleanup(c) => P   BY DEF Cleanup
<1>21. \A c \in Conns : Leave(c) => P     BY DEF Leave
<1>22. \A c \in Conns : PeerConnects(c) => P BY DEF PeerConnects
<1>23. \A c \in Conns : PeerSends(c) => P BY DEF PeerSends
<1>24. \A c \in Conns : PeerHangsUp(c) => P BY DEF PeerHangsUp
<1> HIDE DEF P
<1> QED
  BY Zenon, <1>1, <1>2, <1>3, <1>4, <1>5, <1>6, <1>7, <1>8, <1>9, <1>10, <1>11,
     <1>12, <1>13, <1>14, <1>15, <1>16, <1>17, <1>18, <1>19, <1>20, <1>21,
     <1>22, <1>23, <1>24, NextCases DEF P

(* What may be said, and when, in the reply e to message m of c.           *)
Said(c, m, e) ==
  \/ e.kind = "FORMATO_INVALIDO" /\ m = Malformed
  \/ /\ m # Malformed
     /\ \/ e.kind = "ELEITOR_INVALIDO" /\ (DbMayFail \/ m.voter \notin Roll)
        \/ e.kind = "JA_VOTOU" /\ HasBallot(m.voter)
        \/ e.kind = "ERRO_DB" /\ (DbMayFail \/ HasBallot(m.voter))
        \/ e.kind = "ACK" /\ e.receipt = receipt[c] /\ Ack(c)

(* One reply is added on c, and it is one that may be said.                *)
Answers(c) ==
  /\ sent' = sent
  /\ Len(replies'[c]) = Len(replies[c]) + 1
  /\ \A i \in 1..Len(replies[c]) : replies'[c][i] = replies[c][i]
  /\ Said(c, sent[c][Len(replies[c]) + 1], replies'[c][Len(replies[c]) + 1])

(* A step answers on one connection at most, and says what may be said.    *)
LEMMA ReplyStep ==
  ASSUME IInv, Next
  PROVE  \A d \in Conns : replies'[d] = replies[d] \/ Answers(d)
<1> DEFINE P == \A d \in Conns : replies'[d] = replies[d] \/ Answers(d)
<1>a. TypeOK BY DEF IInv
<1>b. ASSUME NEW c \in Conns, NEW kind \in NackKind, Nack(c, kind), sent' = sent,
             Said(c, sent[c][Len(replies[c]) + 1],
                  [kind |-> kind, receipt |-> NoReceipt])
      PROVE  P
  BY <1>a, <1>b, NackAnswers DEF Answers
<1>c. \A c \in Conns : handler[c] \in Serving =>
        /\ sent[c][Len(replies[c]) + 1] = Current(c)
        /\ Current(c) # Malformed
  BY VoteInService DEF IInv, Paired, Current
<1>d. ASSUME NEW c \in Conns, Recv(c) PROVE P
  <2>1. CASE sent[c][got[c] + 1] = Malformed
    <3>1. got[c] \in Nat /\ Len(replies[c]) \in Nat
      BY <1>a DEF TypeOK
    <3>2. got[c] = Len(replies[c])
      BY <1>d, <3>1 DEF Recv, IInv, Paired, Serving
    <3>3. Nack(c, "FORMATO_INVALIDO")
      BY <1>d, <2>1 DEF Recv
    <3>4. sent' = sent
      BY <1>d DEF Recv
    <3> QED BY <1>b, <2>1, <3>2, <3>3, <3>4 DEF NackKind, Said
  <2>2. CASE sent[c][got[c] + 1] # Malformed
    BY <1>d, <2>2 DEF Recv
  <2> QED BY <2>1, <2>2
<1>e. ASSUME NEW c \in Conns, VoterExists(c) PROVE P
  <2>1. CASE Nack(c, "ELEITOR_INVALIDO") /\ (DbMayFail \/ Current(c).voter \notin eleitores)
    <3>1. handler[c] \in Serving /\ acceptor # "down"
      BY <1>e DEF VoterExists, Serving, IInv, Quiet, Listening
    <3>2. DbMayFail \/ Current(c).voter \notin Roll
      BY <2>1, <3>1 DEF IInv, RollSeeded
    <3>3. sent' = sent
      BY <1>e DEF VoterExists
    <3> QED BY <1>b, <1>c, <2>1, <3>1, <3>2, <3>3 DEF NackKind, Said
  <2>2. CASE UNCHANGED replies
    BY <2>2
  <2> QED BY <1>e, <2>1, <2>2 DEF VoterExists, Found
<1>f. ASSUME NEW c \in Conns, HasVoted(c) PROVE P
  <2>1. CASE Nack(c, "JA_VOTOU") /\ HasBallot(Current(c).voter)
    BY <1>b, <1>c, <1>f, <2>1 DEF HasVoted, NackKind, Said, Serving
  <2>2. CASE UNCHANGED replies
    BY <2>2
  <2> QED BY <1>f, <2>1, <2>2 DEF HasVoted, Found
<1>g. ASSUME NEW c \in Conns, SaveVote(c) PROVE P
  <2>1. CASE VoteNotSaved(c)
    BY <1>b, <1>c, <1>g, <2>1
    DEF SaveVote, VoteNotSaved, UniqueVoter, NackKind, Said, Serving
  <2>2. CASE VoteSaved(c)
    BY <2>2 DEF VoteSaved
  <2> QED BY <1>g, <2>1, <2>2 DEF SaveVote
<1>h. ASSUME NEW c \in Conns, Ack(c) PROVE P
  <2>1. receipt[c] \in Receipts \cup {NoReceipt} BY <1>a DEF TypeOK
  <2>2. /\ Len(replies'[c]) = Len(replies[c]) + 1
        /\ replies'[c][Len(replies[c]) + 1] =
             [kind |-> "ACK", receipt |-> receipt[c]]
        /\ \A i \in 1..Len(replies[c]) : replies'[c][i] = replies[c][i]
        /\ \A d \in Conns \ {c} : replies'[d] = replies[d]
    BY <1>a, <1>h, <2>1, SendAppends DEF Ack, TypeOK
  <2>3. handler[c] \in Serving /\ sent' = sent
    BY <1>h DEF Ack, Serving
  <2>4. Answers(c)
    BY <1>c, <1>h, <2>2, <2>3 DEF Said, Answers
  <2> QED BY <2>2, <2>4
<1>i. \/ \E c \in Conns : Recv(c) \/ VoterExists(c) \/ HasVoted(c)
                          \/ SaveVote(c) \/ Ack(c)
      \/ UNCHANGED replies
  BY DEF Next, Start, Listen, ProcessEnds, AcceptLoop, Accept, TurnAway,
     RateLimitAllows, CountThread, CreateThread, UncountThread, Handshake,
     HandleClient, Enter, RecvEnds, GenerateReceipt, CountVote,
     Cleanup, Leave, Peer, PeerConnects, PeerSends, PeerHangsUp, wire
<1> QED BY <1>d, <1>e, <1>f, <1>g, <1>h, <1>i

(* What was read and what was answered stays so: a connection's history is *)
(* only added to.                                                          *)
LEMMA HistoryGrows ==
  ASSUME IInv, Next, NEW c \in Conns
  PROVE  /\ got[c] \in Nat /\ got'[c] \in Nat /\ got[c] <= got'[c]
         /\ \A i \in 1..got[c] : sent'[c][i] = sent[c][i]
         /\ Len(replies[c]) \in Nat /\ Len(replies'[c]) \in Nat
         /\ Len(replies[c]) <= Len(replies'[c]) /\ Len(replies[c]) <= got[c]
         /\ DOMAIN replies[c] = 1..Len(replies[c])
         /\ DOMAIN replies'[c] = 1..Len(replies'[c])
         /\ \A i \in 1..Len(replies[c]) : replies'[c][i] = replies[c][i]
<1>1. TypeOK /\ TypeOK' BY TypeStep DEF IInv
<1>2. got \in [Conns -> Nat] /\ got' \in [Conns -> Nat]
  BY <1>1 DEF TypeOK
<1>3. replies[c] \in Seq(Reply) /\ replies'[c] \in Seq(Reply)
  BY <1>1 DEF TypeOK
<1>4. (\E d \in Conns : Recv(d)) \/ got' = got
  BY DEF Next, Start, Listen, ProcessEnds, AcceptLoop, Accept, TurnAway,
     RateLimitAllows, CountThread, CreateThread, UncountThread, Handshake,
     HandleClient, Enter, RecvEnds, VoterExists, HasVoted,
     GenerateReceipt, SaveVote, CountVote, Ack, Cleanup, Leave,
     Peer, PeerConnects, PeerSends, PeerHangsUp, wire
<1>5. got[c] <= got'[c]
  BY <1>2, <1>4 DEF Recv
<1>6. /\ Len(sent[c]) \in Nat
      /\ \A i \in 1..Len(sent[c]) : sent'[c][i] = sent[c][i]
  BY <1>1, SentGrows
<1>7. Len(replies[c]) <= got[c] /\ got[c] <= Len(sent[c])
  BY DEF IInv, Paired
<1>8. \A i \in 1..got[c] : sent'[c][i] = sent[c][i]
  BY <1>2, <1>6, <1>7
<1>9. /\ Len(replies[c]) \in Nat /\ Len(replies'[c]) \in Nat
      /\ DOMAIN replies[c] = 1..Len(replies[c])
      /\ DOMAIN replies'[c] = 1..Len(replies'[c])
  BY <1>3
<1>10. replies'[c] = replies[c] \/ Answers(c)
  BY ReplyStep
<1>11. /\ Len(replies[c]) <= Len(replies'[c])
       /\ \A i \in 1..Len(replies[c]) : replies'[c][i] = replies[c][i]
  BY <1>9, <1>10 DEF Answers
<1> QED BY <1>2, <1>5, <1>7, <1>8, <1>9, <1>11

(* A row records a message that was read, and remains the record of it.    *)
LEMMA TracedStep ==
  ASSUME IInv, Next
  PROVE  Traced'
<1>1. TypeOK /\ Traced BY DEF IInv
<1>2. base \in Nat /\ base' \in Nat /\ base <= Len(votos)
  BY <1>1, TypeStep DEF TypeOK, Traced
<1>3. base' = base \/ base' = Len(votos)
  BY TablesStep DEF Start
<1>4. base' <= Len(votos')
  BY <1>2, <1>3, TablesGrow
<1> DEFINE Row1(k) ==
      LET c == caster[k][1]
          i == caster[k][2]
      IN  /\ c \in Conns /\ i \in 1..got[c] /\ sent[c][i] # Malformed
          /\ votos[k].voter = sent[c][i].voter
          /\ votos[k].candidate = sent[c][i].candidate
<1>5. \A k \in 1..Len(votos) : Row1(k)
  BY <1>1, TablesGrow DEF Traced
<1>6. ASSUME NEW k \in 1..Len(votos) PROVE Row1(k)'
  <2>1. Row1(k) BY <1>5
  <2> DEFINE c == caster[k][1]
             i == caster[k][2]
  <2>2. caster'[k] = caster[k] /\ votos'[k] = votos[k]
    BY TablesGrow
  <2>3. c \in Conns /\ i \in 1..got[c]
    BY <2>1
  <2>4. got[c] \in Nat /\ got'[c] \in Nat /\ got[c] <= got'[c]
    BY <2>3, HistoryGrows
  <2>5. i \in 1..got'[c]
    BY <2>3, <2>4
  <2>6. sent'[c][i] = sent[c][i]
    BY <2>3, HistoryGrows
  <2> QED BY <2>1, <2>2, <2>5, <2>6
<1>7. CASE votos' = votos /\ caster' = caster
  BY <1>1, <1>4, <1>6, <1>7, TablesGrow DEF Traced
<1>8. ASSUME NEW c \in Conns, SaveVote(c), VoteSaved(c) PROVE Traced'
  <2>1. handler[c] = "save_vote" /\ got' = got /\ sent' = sent
    BY <1>8 DEF SaveVote
  <2>2. /\ Len(caster') = Len(votos') /\ Len(votos') = Len(votos) + 1
        /\ Len(votos) \in Nat
        /\ votos'[Len(votos) + 1] = NewRow(c)
        /\ caster'[Len(votos) + 1] = <<c, got[c]>>
    BY <1>8, <2>1, SavedRow
  <2>3. /\ got[c] \in Nat \ {0} /\ Current(c) # Malformed
    BY <2>1, VoteInService DEF IInv, Paired, Serving
  <2>n. PICK n \in Nat : n = Len(votos) + 1
    BY <2>2
  <2>4. /\ votos'[n].voter = sent[c][got[c]].voter
        /\ votos'[n].candidate = sent[c][got[c]].candidate
        /\ caster'[n][1] = c /\ caster'[n][2] = got[c]
    BY <2>2, <2>n DEF NewRow, Current
  <2>5. got[c] \in 1..got'[c] /\ sent'[c][got[c]] # Malformed
    BY <2>1, <2>3 DEF Current
  <2>6. Row1(n)'
    BY <2>1, <2>4, <2>5
  <2>7. \A k \in 1..Len(votos') : k \in 1..Len(votos) \/ k = n
    BY <2>2, <2>n
  <2>8. \A k \in 1..Len(votos') : Row1(k)'
    <3> HIDE DEF Row1
    <3> QED BY <1>6, <2>6, <2>7
  <2> QED BY <1>4, <2>2, <2>8, TablesGrow DEF Traced
<1> QED BY <1>7, <1>8, TablesStep

(* What a handler knows of its vote stays true until it has answered.      *)
LEMMA VettedStep ==
  ASSUME IInv, Next
  PROVE  Vetted'
<1> DEFINE V(c) ==
      /\ handler[c] \in Serving \ {"voter_exists"} =>
           Current(c).voter \in eleitores
      /\ handler[c] \in {"save_vote", "count_vote", "ack"} =>
           receipt[c] \in Receipts
      /\ handler[c] \in {"count_vote", "ack"} =>
           \E k \in DOMAIN votos :
             caster[k] = <<c, got[c]>> /\ votos[k] = NewRow(c)
<1> SUFFICES ASSUME NEW c \in Conns PROVE V(c)'
  BY DEF Vetted
<1>1. V(c) BY DEF IInv, Vetted
<1>2. Move(c) BY HandlerMoves
<1>3. handler[c] \in Serving /\ got'[c] = got[c] => Current(c)' = Current(c)
  BY VoteInService, HistoryGrows DEF Current
<1>4. eleitores \subseteq eleitores'
  BY TablesGrow
<1>5. ASSUME handler[c] \in {"count_vote", "ack"}, got'[c] = got[c],
             receipt'[c] = receipt[c]
      PROVE  \E k \in DOMAIN votos' :
               caster'[k] = <<c, got'[c]>> /\ votos'[k] = NewRow(c)'
  <2>1. PICK k \in DOMAIN votos :
          caster[k] = <<c, got[c]>> /\ votos[k] = NewRow(c)
    BY <1>1, <1>5
  <2>2. NewRow(c)' = NewRow(c)
    BY <1>3, <1>5 DEF NewRow, Serving
  <2>3. k \in DOMAIN votos' /\ caster'[k] = caster[k] /\ votos'[k] = votos[k]
    BY TablesGrow
  <2> QED BY <1>5, <2>1, <2>2, <2>3
<1>6. ASSUME SaveVote(c), VoteSaved(c), got'[c] = got[c],
             receipt'[c] = receipt[c]
      PROVE  \E k \in DOMAIN votos' :
               caster'[k] = <<c, got'[c]>> /\ votos'[k] = NewRow(c)'
  <2>1. handler[c] = "save_vote" BY <1>6 DEF SaveVote
  <2>2. NewRow(c)' = NewRow(c)
    BY <1>3, <1>6, <2>1 DEF NewRow, Serving
  <2>3. /\ Len(votos') = Len(votos) + 1
        /\ votos'[Len(votos) + 1] = NewRow(c)
        /\ caster'[Len(votos) + 1] = <<c, got[c]>>
    BY <1>6, <2>1, SavedRow
  <2>4. Len(votos) + 1 \in DOMAIN votos'
    BY <2>3, TablesGrow
  <2> QED BY <1>6, <2>2, <2>3, <2>4
<1> QED
  BY <1>1, <1>2, <1>3, <1>4, <1>5, <1>6 DEF Move, Serving, SaveVote

(* The UNIQUE column keeps one row per voter, the checks made before it     *)
(* keep strangers out, and the roll is seeded while the process is up.     *)
LEMMA BallotStep ==
  ASSUME IInv, Next
  PROVE  OneBallotPerVoter' /\ BallotsFromRoll' /\ RollSeeded'
<1>1. OneBallotPerVoter /\ BallotsFromRoll /\ RollSeeded /\ eleitores \subseteq Roll
  BY DEF IInv, TypeOK
<1>2. RollSeeded'
  <2>1. CASE Start
    BY <1>1, <2>1 DEF Start, Seeded, RollSeeded
  <2>2. CASE /\ eleitores' = eleitores
             /\ acceptor' # "down" => acceptor # "down"
    BY <1>1, <2>2 DEF RollSeeded
  <2> QED BY <2>1, <2>2, TablesStep
<1>3. CASE votos' = votos
  <2>1. eleitores \subseteq eleitores' BY TablesGrow
  <2> QED BY <1>1, <1>2, <1>3, <2>1 DEF OneBallotPerVoter, BallotsFromRoll
<1>4. ASSUME NEW c \in Conns, SaveVote(c), VoteSaved(c)
      PROVE  OneBallotPerVoter' /\ BallotsFromRoll'
  <2>1. handler[c] = "save_vote" BY <1>4 DEF SaveVote
  <2>2. /\ Len(votos) \in Nat /\ Len(votos') = Len(votos) + 1
        /\ votos'[Len(votos) + 1] = NewRow(c)
    BY <1>4, <2>1, SavedRow
  <2>n. PICK n \in Nat : n = Len(votos) + 1
    BY <2>2
  <2>3. /\ votos'[n].voter = Current(c).voter
        /\ \A k \in 1..Len(votos) : votos[k].voter # Current(c).voter
    <3>1. votos'[n] = NewRow(c) BY <2>2, <2>n
    <3>2. \A k \in DOMAIN votos : votos[k].voter # Current(c).voter
      BY <1>4 DEF VoteSaved, UniqueVoter, HasBallot
    <3> QED BY <3>1, <3>2, TablesGrow DEF NewRow
  <2>4. Current(c).voter \in eleitores
    BY <2>1 DEF IInv, Vetted, Serving
  <2>5. /\ eleitores \subseteq eleitores'
        /\ \A k \in 1..Len(votos) : votos'[k] = votos[k]
        /\ DOMAIN votos = 1..Len(votos) /\ DOMAIN votos' = 1..Len(votos')
    BY TablesGrow
  <2>6. \A k \in DOMAIN votos' : k \in 1..Len(votos) \/ k = n
    BY <2>2, <2>5, <2>n
  <2>7. BallotsFromRoll'
    BY <1>1, <2>3, <2>4, <2>5, <2>6 DEF BallotsFromRoll
  <2>8. OneBallotPerVoter'
    BY <1>1, <2>3, <2>5, <2>6 DEF OneBallotPerVoter
  <2> QED BY <2>7, <2>8
<1> QED BY <1>2, <1>3, <1>4, TablesStep

(* An ACK follows its row and the row keeps to it; a refusal is said for   *)
(* its reason, and the reason stays.                                       *)
LEMMA AnswersStep ==
  ASSUME IInv, Next
  PROVE  AckRecorded' /\ NackHonest'
<1> DEFINE Recorded(c, i) ==
      \E k \in DOMAIN votos : caster[k] = <<c, i>> /\ votos[k] = Confirmation(c, i)
           Honest(c, i) ==
      LET kind == replies[c][i].kind
          msg  == sent[c][i]
      IN  /\ kind = "FORMATO_INVALIDO" <=> msg = Malformed
          /\ kind = "JA_VOTOU" => HasBallot(msg.voter)
          /\ kind = "ELEITOR_INVALIDO" => DbMayFail \/ msg.voter \notin Roll
          /\ kind = "ERRO_DB" => DbMayFail \/ HasBallot(msg.voter)
<1> SUFFICES ASSUME NEW c \in Conns, NEW i \in DOMAIN replies'[c]
             PROVE  /\ (replies[c][i].kind)' = "ACK" => Recorded(c, i)'
                    /\ Honest(c, i)'
  BY DEF AckRecorded, NackHonest, Acked
<1>h. /\ got[c] \in Nat /\ \A j \in 1..got[c] : sent'[c][j] = sent[c][j]
      /\ Len(replies[c]) \in Nat /\ Len(replies[c]) <= got[c]
      /\ DOMAIN replies[c] = 1..Len(replies[c])
      /\ DOMAIN replies'[c] = 1..Len(replies'[c])
      /\ \A j \in 1..Len(replies[c]) : replies'[c][j] = replies[c][j]
  BY HistoryGrows
<1>g. \A v : HasBallot(v) => HasBallot(v)'
  BY TablesGrow DEF HasBallot
<1>1. CASE i \in 1..Len(replies[c])
  <2>1. replies'[c][i] = replies[c][i] /\ sent'[c][i] = sent[c][i]
    BY <1>1, <1>h
  <2>2. ASSUME replies[c][i].kind = "ACK" PROVE Recorded(c, i)'
    <3>1. PICK k \in DOMAIN votos :
            caster[k] = <<c, i>> /\ votos[k] = Confirmation(c, i)
      BY <1>1, <1>h, <2>2 DEF IInv, AckRecorded, Acked
    <3>2. k \in DOMAIN votos' /\ caster'[k] = caster[k] /\ votos'[k] = votos[k]
      BY TablesGrow
    <3>3. Confirmation(c, i)' = Confirmation(c, i)
      BY <2>1 DEF Confirmation
    <3> QED BY <3>1, <3>2, <3>3
  <2>3. Honest(c, i)
    BY <1>1, <1>h DEF IInv, NackHonest
  <2>4. Honest(c, i)'
    BY <1>g, <2>1, <2>3
  <2> QED BY <2>1, <2>2, <2>4
<1>2. CASE i \notin 1..Len(replies[c])
  <2>1. Answers(c)
    BY <1>2, <1>h, ReplyStep
  <2>2. i = Len(replies[c]) + 1
    BY <1>2, <1>h, <2>1 DEF Answers
  <2>3. Said(c, sent[c][i], replies'[c][i])
    BY <2>1, <2>2 DEF Answers
  <2>4. sent'[c][i] = sent[c][i]
    BY <2>1 DEF Answers
  <2>5. Honest(c, i)'
    BY <1>g, <2>3, <2>4 DEF Said
  <2>6. ASSUME replies'[c][i].kind = "ACK" PROVE Recorded(c, i)'
    <3>1. handler[c] = "ack" /\ replies'[c][i].receipt = receipt[c]
      BY <2>3, <2>6 DEF Said, Ack
    <3>2. i = got[c]
      BY <2>2, <3>1, VoteInService DEF Serving
    <3>3. PICK k \in DOMAIN votos :
            caster[k] = <<c, got[c]>> /\ votos[k] = NewRow(c)
      BY <3>1 DEF IInv, Vetted
    <3>4. k \in DOMAIN votos' /\ caster'[k] = caster[k] /\ votos'[k] = votos[k]
      BY TablesGrow
    <3>5. NewRow(c) = Confirmation(c, i)'
      BY <2>4, <3>1, <3>2 DEF NewRow, Confirmation, Current
    <3> QED BY <3>2, <3>3, <3>4, <3>5
  <2> QED BY <2>5, <2>6
<1> QED BY <1>1, <1>2

(* Whoever has answered reads the next message.                            *)
LEMMA AnswererReads ==
  ASSUME IInv, Next, NEW d \in Conns, replies'[d] # replies[d]
  PROVE  handler'[d] = "recv"
<1>1. /\ replies \in [Conns -> Seq(Reply)] /\ handler \in [Conns -> HandlerPc]
  BY DEF IInv, TypeOK
<1>2. PICK c \in Conns : \/ Recv(c) \/ VoterExists(c) \/ HasVoted(c)
                         \/ SaveVote(c) \/ Ack(c)
  BY DEF Next, Start, Listen, ProcessEnds, AcceptLoop, Accept, TurnAway,
     RateLimitAllows, CountThread, CreateThread, UncountThread, Handshake,
     HandleClient, Enter, RecvEnds, GenerateReceipt, CountVote,
     Cleanup, Leave, Peer, PeerConnects, PeerSends, PeerHangsUp, wire
<1>3. PICK kind, r : Send(c, kind, r) /\ Goto(c, "recv")
  BY <1>2 DEF Recv, VoterExists, HasVoted, SaveVote, VoteSaved, VoteNotSaved, Ack,
              Nack
<1>4. d = c
  BY <1>1, <1>3 DEF Send
<1> QED BY <1>1, <1>3, <1>4 DEF Goto

(* The vote of a row is answered, and not with a refusal, unless its       *)
(* handler is on the way to it or has ended with the process.              *)
LEMMA RecordedStep ==
  ASSUME IInv, Next
  PROVE  RecordedAnswered'
<1> DEFINE R(c, i) == \/ i \in Acked(c)
                      \/ /\ got[c] = i /\ Len(replies[c]) < i
                         /\ handler[c] \in {"count_vote", "ack", "gone"}
<1>a. /\ Len(votos) \in Nat /\ Len(caster) = Len(votos) /\ Len(caster') = Len(votos')
      /\ DOMAIN caster = 1..Len(votos) /\ DOMAIN caster' = 1..Len(votos')
      /\ \A k \in 1..Len(votos) : caster'[k] = caster[k]
  <2>1. Traced' /\ Traced /\ TypeOK /\ TypeOK'
    BY TracedStep, TypeStep DEF IInv
  <2>2. caster \in Seq(Conns \X (Nat \ {0})) /\ caster' \in Seq(Conns \X (Nat \ {0}))
    BY <2>1 DEF TypeOK
  <2> QED BY <2>1, <2>2, TablesGrow DEF Traced
<1>1. ASSUME NEW c \in Conns, NEW i, R(c, i) PROVE R(c, i)'
  <2>1. CASE i \in Acked(c)
    BY <2>1, HistoryGrows DEF Acked
  <2>2. CASE /\ got[c] = i /\ Len(replies[c]) < i
             /\ handler[c] \in {"count_vote", "ack", "gone"}
    <3>1. CASE Ack(c) /\ got'[c] = got[c]
      <4>1. handler[c] = "ack" BY <3>1 DEF Ack
      <4>2. Len(replies[c]) + 1 = got[c]
        BY <4>1, VoteInService DEF Serving
      <4>3. receipt[c] \in Receipts \cup {NoReceipt} /\ TypeOK
        BY DEF IInv, TypeOK
      <4>4. /\ Len(replies'[c]) = Len(replies[c]) + 1
            /\ replies'[c][Len(replies[c]) + 1] =
                 [kind |-> "ACK", receipt |-> receipt[c]]
        BY <3>1, <4>3, SendAppends DEF Ack, TypeOK
      <4> QED BY <2>2, <4>2, <4>4, HistoryGrows DEF Acked
    <3>2. CASE /\ handler'[c] \in {"count_vote", "ack", "gone"}
               /\ got'[c] = got[c]
      <4>1. replies'[c] = replies[c]
        BY <3>2, AnswererReads
      <4> QED BY <2>2, <3>2, <4>1
    <3> QED BY <2>2, <3>1, <3>2, HandlerMoves DEF Move, SaveVote
  <2> QED BY <1>1, <2>1, <2>2
<1>2. ASSUME NEW k \in 1..Len(votos) PROVE R(caster[k][1], caster[k][2])'
  <2>1. R(caster[k][1], caster[k][2])
    BY <1>a DEF IInv, RecordedAnswered
  <2>2. PICK c \in Conns, i \in Nat : caster[k][1] = c /\ caster[k][2] = i
    <3>1. caster \in Seq(Conns \X (Nat \ {0})) BY DEF IInv, TypeOK
    <3>2. caster[k] \in Conns \X (Nat \ {0}) BY <1>a, <3>1
    <3> QED BY <3>2
  <2>3. R(c, i)' BY <1>1, <2>1, <2>2
  <2> QED BY <1>a, <2>2, <2>3
<1>3. CASE caster' = caster /\ votos' = votos
  BY <1>a, <1>2, <1>3 DEF RecordedAnswered
<1>4. ASSUME NEW c \in Conns, SaveVote(c), VoteSaved(c) PROVE RecordedAnswered'
  <2>1. handler[c] = "save_vote" BY <1>4 DEF SaveVote
  <2>2. Len(votos') = Len(votos) + 1 /\ caster'[Len(votos) + 1] = <<c, got[c]>>
    BY <1>4, <2>1, SavedRow
  <2>n. PICK n \in Nat : n = Len(votos) + 1
    BY <1>a
  <2>3. /\ got'[c] = got[c] /\ handler'[c] = "count_vote"
        /\ Len(replies'[c]) < got[c]
    <3>1. handler \in [Conns -> HandlerPc] BY DEF IInv, TypeOK
    <3>2. got[c] \in Nat /\ Len(replies[c]) \in Nat /\ Len(replies[c]) + 1 = got[c]
      BY <2>1, VoteInService, HistoryGrows DEF Serving
    <3> QED BY <1>4, <3>1, <3>2 DEF SaveVote, VoteSaved, Goto
  <2>4. R(caster[n][1], caster[n][2])'
    BY <2>2, <2>n, <2>3
  <2>5. \A k \in 1..Len(votos') : k \in 1..Len(votos) \/ k = n
    BY <1>a, <2>2, <2>n
  <2>6. \A k \in 1..Len(votos') : R(caster[k][1], caster[k][2])'
    <3> HIDE DEF R
    <3> QED BY <1>2, <2>4, <2>5
  <2> QED BY <1>a, <2>6 DEF RecordedAnswered
<1> QED BY <1>3, <1>4, TablesStep

(* The invariant holds in the initial state.                               *)
LEMMA InvInit ==
  ASSUME Init
  PROVE  IInv
<1> USE DEF Init
<1>1. TypeOK
  BY DEF TypeOK, AcceptorPc, HandlerPc
<1>2. \A S \in Regions : In(S) = {}
  BY DEF In, Regions, Connected, Running, Serving
<1>3. Finite
  BY <1>2, FS_EmptySet DEF Finite
<1>4. CounterAccounting
  BY DEF CounterAccounting
<1>5. TotalVotesExact
  BY DEF TotalVotesExact
<1>6. Quiet /\ InHand /\ Paired /\ Vetted /\ Traced /\ RollSeeded
  BY DEF Quiet, InHand, Paired, Vetted, Traced, RollSeeded, Serving, Listening
<1>7. OneBallotPerVoter /\ BallotsFromRoll
  BY DEF OneBallotPerVoter, BallotsFromRoll
<1>8. AckRecorded /\ RecordedAnswered /\ NackHonest
  BY DEF AckRecorded, RecordedAnswered, NackHonest, Acked
<1> QED
  BY <1>1, <1>3, <1>4, <1>5, <1>6, <1>7, <1>8 DEF IInv

(* A step that changes nothing keeps it.                                   *)
LEMMA InvStutter ==
  ASSUME IInv, UNCHANGED vars
  PROVE  IInv'
<1> USE DEF vars, tables, counters, process, wire
<1>1. TypeOK' BY DEF IInv, TypeOK
<1>2. (Quiet /\ InHand /\ RollSeeded)'
  BY DEF IInv, Quiet, InHand, RollSeeded
<1>3. \A S : In(S)' = In(S) /\ Size(S)' = Size(S) BY DEF In, Size
<1>4. (Finite /\ CounterAccounting /\ TotalVotesExact)'
  BY <1>3 DEF IInv, Finite, CounterAccounting, TotalVotesExact, Pending
<1>5. (Paired /\ Vetted /\ Traced)'
  BY DEF IInv, Paired, Vetted, Traced, Current, NewRow
<1>6. (OneBallotPerVoter /\ BallotsFromRoll)'
  BY DEF IInv, OneBallotPerVoter, BallotsFromRoll
<1>7. \A c : Acked(c)' = Acked(c)
  BY DEF Acked
<1>8. (AckRecorded /\ RecordedAnswered)'
  BY <1>7, Zenon DEF IInv, AckRecorded, RecordedAnswered, Confirmation
<1>9. NackHonest'
  BY Zenon DEF IInv, NackHonest, HasBallot
<1> QED BY <1>1, <1>2, <1>4, <1>5, <1>6, <1>8, <1>9 DEF IInv

(* Every step keeps it.                                                    *)
LEMMA InvStep ==
  ASSUME IInv, [Next]_vars
  PROVE  IInv'
<1>1. CASE Next
  BY <1>1, TypeStep, AcceptorStep, CountersStep, PairedStep, VettedStep,
     TracedStep, BallotStep, AnswersStep, RecordedStep DEF IInv, Books
<1>2. CASE UNCHANGED vars
  BY <1>2, InvStutter
<1> QED BY <1>1, <1>2

(* IInv holds in every reachable state.                                    *)
THEOREM Invariance == Spec => []IInv
  BY InvInit, InvStep, PTL DEF Spec

(* Every variable keeps its type: no counter goes negative.                *)
THEOREM TypeCorrect == Spec => []TypeOK
<1>1. IInv => TypeOK BY DEF IInv
<1> QED BY <1>1, Invariance, PTL

(* One vote per voter, however the handlers interleave, SQLite fails or    *)
(* the process ends and starts again.                                      *)
THEOREM OneBallot == Spec => []OneBallotPerVoter
<1>1. IInv => OneBallotPerVoter BY DEF IInv
<1> QED BY <1>1, Invariance, PTL

(* Only voters of the roll have a row.                                     *)
THEOREM RollOnly == Spec => []BallotsFromRoll
<1>1. IInv => BallotsFromRoll BY DEF IInv
<1> QED BY <1>1, Invariance, PTL

(* Every ACK has its row, for good.                                        *)
THEOREM AckTrue == Spec => []AckRecorded
<1>1. IInv => AckRecorded BY DEF IInv
<1> QED BY <1>1, Invariance, PTL

(* The ACK of every row was handed to ssl_send, or its handler is about to *)
(* hand it over, or the process ended before that.                         *)
THEOREM RecordedTrue == Spec => []RecordedAnswered
<1>1. IInv => RecordedAnswered BY DEF IInv
<1> QED BY <1>1, Invariance, PTL

(* Every refusal is said for its reason.                                   *)
THEOREM NackTrue == Spec => []NackHonest
<1>1. IInv => NackHonest BY DEF IInv
<1> QED BY <1>1, Invariance, PTL

(* The counters of the dashboard are exact up to the failed handshakes.    *)
THEOREM CountersTrue == Spec => []CounterAccounting
<1>1. IInv => CounterAccounting BY DEF IInv
<1> QED BY <1>1, Invariance, PTL

(* The total the dashboard and the results show is the number of votes     *)
(* this process has saved, and counted or is about to count.               *)
THEOREM VotesCounted == Spec => []TotalVotesExact
<1>1. IInv => TotalVotesExact BY DEF IInv
<1> QED BY <1>1, Invariance, PTL

(* Two ACKs for the same voter are the same ACK.                           *)
LEMMA AckUnique ==
  ASSUME IInv
  PROVE  AckOncePerVoter
<1> SUFFICES ASSUME NEW c \in Conns, NEW d \in Conns,
                    NEW i \in Acked(c), NEW j \in Acked(d),
                    sent[c][i].voter = sent[d][j].voter
             PROVE  c = d /\ i = j
  BY DEF AckOncePerVoter
<1>1. PICK k \in DOMAIN votos : caster[k] = <<c, i>> /\ votos[k] = Confirmation(c, i)
  BY DEF IInv, AckRecorded
<1>2. PICK l \in DOMAIN votos : caster[l] = <<d, j>> /\ votos[l] = Confirmation(d, j)
  BY DEF IInv, AckRecorded
<1>3. votos[k].voter = votos[l].voter
  BY <1>1, <1>2 DEF Confirmation
<1>4. k = l
  BY <1>3 DEF IInv, OneBallotPerVoter
<1> QED BY <1>1, <1>2, <1>4

(* A voter is sent at most one ACK.                                        *)
THEOREM AckOnce == Spec => []AckOncePerVoter
  BY Invariance, AckUnique, PTL

(* No step changes or drops a row, nor takes a voter off the roll.         *)
THEOREM TablesSafe == Spec => TablesOnlyGrow
<1>1. ASSUME IInv, [Next]_vars
      PROVE  [/\ Len(votos) <= Len(votos')
              /\ \A k \in DOMAIN votos : votos'[k] = votos[k]
              /\ eleitores \subseteq eleitores']_vars
  BY <1>1, TablesGrow
<1> QED BY <1>1, Invariance, PTL DEF Spec, TablesOnlyGrow

-----------------------------------------------------------------------------
(* The server implements the ballot box.                                   *)

(* What is confirmed, spelled out.                                         *)
LEMMA ConfirmedMember ==
  /\ \A x : x \in Confirmed <=>
       \E c \in Conns : \E i \in Acked(c) : x = Confirmation(c, i)
  /\ \A x : x \in Confirmed' <=>
       \E c \in Conns : \E i \in Acked(c)' : x = Confirmation(c, i)'
  BY DEF Confirmed

(* What was confirmed stays confirmed; what is newly confirmed is the vote *)
(* of a handler that is just answering.                                    *)
LEMMA ConfirmedStep ==
  ASSUME IInv, Next
  PROVE  /\ Confirmed \subseteq Confirmed'
         /\ \A x \in Confirmed' \ Confirmed :
              \E c \in Conns : Ack(c) /\ x = NewRow(c)
         /\ \A c \in Conns : Ack(c) => NewRow(c) \in Confirmed'
<1>1. ASSUME NEW c \in Conns, NEW i \in Acked(c)
      PROVE  i \in Acked(c)' /\ Confirmation(c, i)' = Confirmation(c, i)
  <2>1. i \in 1..Len(replies[c]) /\ i \in 1..got[c]
    BY <1>1, HistoryGrows DEF Acked
  <2> QED BY <1>1, <2>1, HistoryGrows DEF Acked, Confirmation
<1>2. Confirmed \subseteq Confirmed'
  BY <1>1, ConfirmedMember
<1>3. ASSUME NEW c \in Conns, Answers(c), Ack(c),
             NEW i, i = Len(replies[c]) + 1, replies'[c][i].receipt = receipt[c]
      PROVE  Confirmation(c, i)' = NewRow(c)
  <2>1. i = got[c]
    BY <1>3, VoteInService DEF Ack, Serving
  <2>2. sent' = sent
    BY <1>3 DEF Answers
  <2> QED BY <1>3, <2>1, <2>2 DEF Confirmation, NewRow, Current
<1>4. ASSUME NEW c \in Conns, NEW i \in Acked(c)', Confirmation(c, i)' \notin Confirmed
      PROVE  Ack(c) /\ Confirmation(c, i)' = NewRow(c)
  <2>1. i \in DOMAIN replies'[c] /\ replies'[c][i].kind = "ACK"
    BY <1>4 DEF Acked
  <2>2. i \notin 1..Len(replies[c])
    <3>1. ASSUME i \in 1..Len(replies[c]) PROVE FALSE
      <4>1. i \in Acked(c)
        BY <2>1, <3>1, HistoryGrows DEF Acked
      <4> QED BY <1>1, <1>4, <4>1, ConfirmedMember
    <3> QED BY <3>1
  <2>3. Answers(c)
    BY <2>1, <2>2, ReplyStep, HistoryGrows
  <2>4. i = Len(replies[c]) + 1
    BY <2>1, <2>2, <2>3, HistoryGrows DEF Answers
  <2>5. Ack(c) /\ replies'[c][i].receipt = receipt[c]
    BY <2>1, <2>3, <2>4 DEF Answers, Said
  <2> QED BY <1>3, <2>3, <2>4, <2>5
<1>5. ASSUME NEW c \in Conns, Ack(c) PROVE NewRow(c) \in Confirmed'
  <2>1. receipt[c] \in Receipts \cup {NoReceipt} /\ TypeOK
    BY DEF IInv, TypeOK
  <2>2. /\ Len(replies'[c]) = Len(replies[c]) + 1
        /\ replies'[c][Len(replies[c]) + 1] =
             [kind |-> "ACK", receipt |-> receipt[c]]
    BY <1>5, <2>1, SendAppends DEF Ack, TypeOK
  <2>3. Answers(c)
    BY <2>2, ReplyStep, HistoryGrows
  <2>i. PICK i \in Nat : i = Len(replies[c]) + 1
    BY HistoryGrows
  <2>4. i \in Acked(c)'
    BY <2>2, <2>i, HistoryGrows DEF Acked
  <2>5. Confirmation(c, i)' = NewRow(c)
    BY <1>3, <1>5, <2>2, <2>3, <2>i
  <2> QED BY <2>4, <2>5, ConfirmedMember
<1> QED BY <1>2, <1>4, <1>5, ConfirmedMember

(* The vote a handler answers is in the box and not confirmed yet.         *)
LEMMA AckFresh ==
  ASSUME IInv, NEW c \in Conns, handler[c] = "ack"
  PROVE  NewRow(c) \in Ballots /\ NewRow(c) \notin Confirmed
<1>1. PICK k \in DOMAIN votos : caster[k] = <<c, got[c]>> /\ votos[k] = NewRow(c)
  BY DEF IInv, Vetted
<1>2. ASSUME NEW d \in Conns, NEW j \in Acked(d), NewRow(c) = Confirmation(d, j)
      PROVE  FALSE
  <2>1. PICK l \in DOMAIN votos : caster[l] = <<d, j>> /\ votos[l] = Confirmation(d, j)
    BY DEF IInv, AckRecorded
  <2>2. l = k
    BY <1>1, <1>2, <2>1 DEF IInv, OneBallotPerVoter
  <2>3. d = c /\ j = got[c]
    BY <1>1, <2>1, <2>2
  <2>4. Len(replies[c]) + 1 = got[c] /\ got[c] \in Nat /\ replies[c] \in Seq(Reply)
    BY VoteInService DEF Serving, IInv, TypeOK
  <2> QED BY <2>3, <2>4 DEF Acked
<1> QED BY <1>1, <1>2, ConfirmedMember DEF Ballots

(* A row that is in the tables is a ballot of a voter of the roll.         *)
LEMMA RowIsBallot ==
  ASSUME IInv
  PROVE  Ballots \subseteq Box!Ballot
<1>1. votos \in Seq(Row) /\ eleitores \subseteq Roll BY DEF IInv, TypeOK
<1>2. \A k \in DOMAIN votos : votos[k] \in Row BY <1>1
<1> QED BY <1>1, <1>2 DEF IInv, BallotsFromRoll, Ballots, Box!Ballot, Row

(* The initial state is an empty box.                                      *)
LEMMA BoxInit ==
  ASSUME Init
  PROVE  Box!Init
<1>1. Ballots = {} BY DEF Init, Ballots
<1>2. Confirmed = {} BY ConfirmedMember DEF Init, Acked
<1> QED BY <1>1, <1>2 DEF Box!Init

(* A step of the server casts a ballot, confirms one, or neither.          *)
LEMMA BoxStep ==
  ASSUME IInv, [Next]_vars
  PROVE  [Box!Next]_(Box!vars)
<1>1. CASE UNCHANGED vars
  <2>1. Ballots' = Ballots
    BY <1>1 DEF vars, tables, Ballots
  <2>2. Confirmed' = Confirmed
    BY <1>1 DEF vars, wire, Confirmed, Acked, Confirmation
  <2> QED BY <2>1, <2>2 DEF Box!vars
<1>2. ASSUME Next, NEW c \in Conns, SaveVote(c), VoteSaved(c)
      PROVE  [Box!Next]_(Box!vars)
  <2>1. handler[c] = "save_vote" BY <1>2 DEF SaveVote
  <2>2. /\ Len(votos) \in Nat /\ Len(votos') = Len(votos) + 1
        /\ votos'[Len(votos) + 1] = NewRow(c)
        /\ \A k \in 1..Len(votos) : votos'[k] = votos[k]
        /\ DOMAIN votos = 1..Len(votos) /\ DOMAIN votos' = 1..Len(votos')
    BY <1>2, <2>1, SavedRow, TablesGrow
  <2>3. Ballots' = Ballots \cup {NewRow(c)}
    BY <2>2 DEF Ballots
  <2>4. Confirmed' = Confirmed
    BY <1>2 DEF SaveVote, VoteSaved, Confirmed, Acked, Confirmation
  <2>5. \A a \in Ballots : a.voter # NewRow(c).voter
    BY <1>2 DEF VoteSaved, UniqueVoter, HasBallot, Ballots, NewRow
  <2>6. NewRow(c) \in Box!Ballot
    <3>1. Current(c) \in Vote /\ receipt[c] \in Receipts
      BY <2>1, VoteInService DEF Serving
    <3>2. Current(c).voter \in Roll
      BY <2>1 DEF IInv, TypeOK, Vetted, Serving
    <3> QED BY <3>1, <3>2 DEF Box!Ballot, NewRow, Vote
  <2> QED BY <2>3, <2>4, <2>5, <2>6 DEF Box!Next, Box!Cast
<1>3. ASSUME Next, NEW c \in Conns, Ack(c)
      PROVE  [Box!Next]_(Box!vars)
  <2>1. Ballots' = Ballots
    BY <1>3 DEF Ack, tables, Ballots
  <2>2. NewRow(c) \in Ballots /\ NewRow(c) \notin Confirmed
    BY <1>3, AckFresh DEF Ack
  <2>3. \A d \in Conns : Ack(d) => d = c
    BY <1>3 DEF Ack, Goto, IInv, TypeOK
  <2>4. Confirmed' = Confirmed \cup {NewRow(c)}
    BY <1>3, <2>3, ConfirmedStep
  <2> QED BY <2>1, <2>2, <2>4, RowIsBallot DEF Box!Next, Box!Confirm
<1>4. ASSUME Next, votos' = votos, \A c \in Conns : ~ Ack(c)
      PROVE  [Box!Next]_(Box!vars)
  <2>1. Ballots' = Ballots BY <1>4 DEF Ballots
  <2>2. Confirmed' = Confirmed BY <1>4, ConfirmedStep
  <2> QED BY <2>1, <2>2 DEF Box!vars
<1> QED BY <1>1, <1>2, <1>3, <1>4, TablesStep

(* The server, with its threads, failures and restarts, is a ballot box.   *)
THEOREM Refinement == Spec => ImplementsBallotBox
  BY Invariance, BoxInit, BoxStep, PTL DEF Spec, ImplementsBallotBox, Box!Spec

=============================================================================
