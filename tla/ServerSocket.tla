---------------------------- MODULE ServerSocket ----------------------------
(***************************************************************************)
(* The voting server: the accept loop start_server, one handle_client      *)
(* thread per connection, the SQLite tables they share and the counters of *)
(* server_state, over the peers' connections and over the ends and         *)
(* restarts of the process.                                                *)
(*                                                                         *)
(* One action is one stretch of code between two points where another      *)
(* thread can be seen: a critical section of server_state_mutex, a call    *)
(* into SQLite (serialized by the library's own mutex) or a socket call.   *)
(* A message is the outcome of parse_vote_message on what ssl_recv         *)
(* returned: a vote, or Malformed.                                         *)
(***************************************************************************)
EXTENDS Integers, Sequences, FiniteSets

CONSTANTS
  Conns,        \* TCP connections; each one is opened at most once
  VoterIds,     \* the voter ids a message may name
  Roll,         \* the ids init_database seeds into eleitores
  Candidates,
  Receipts,     \* what generate_receipt may produce; not unique
  Malformed,    \* a message parse_vote_message rejects
  NoReceipt,
  NoConn,
  DbMayFail,    \* may a SQLite call fail (locked file, full disk, I/O error)?
  MaxMsgs,      \* bound: messages a peer sends on one connection
  MaxStarts     \* bound: times the operator starts the server

Vote == [voter : VoterIds, candidate : Candidates]

Message == Vote \cup {Malformed}

ASSUME RollAssumption == Roll \subseteq VoterIds
ASSUME SentinelAssumption ==
  Malformed \notin Vote /\ NoReceipt \notin Receipts /\ NoConn \notin Conns
ASSUME DbAssumption == DbMayFail \in BOOLEAN
ASSUME BoundAssumption == MaxMsgs \in Nat /\ MaxStarts \in Nat

VARIABLES
  votos,              \* table votos, its rows in the order of their ids
  eleitores,          \* table eleitores
  connected_clients,  \* the counters of server_state
  active_threads,
  total_votes,
  acceptor,           \* where start_server is; "down" when there is no process
  client_socket,      \* the connection start_server has in hand
  handler,            \* where the life of each connection, or its thread, is
  receipt,            \* the local of handle_client, per connection
  sent,               \* what each peer has sent
  got,                \* how many of those messages ssl_recv has returned
  replies,            \* what the server has handed to ssl_send
  hungup,             \* the peer is gone (close, crash or network failure)
  starts,             \* bound counter: starts so far
  caster,             \* history: caster[k] = <<connection, message>> of row k
  base                \* history: rows in votos when this process started

tables   == <<votos, eleitores, caster>>
counters == <<connected_clients, active_threads, total_votes>>
process  == <<acceptor, client_socket, starts, base>>
wire     == <<sent, got, replies, hungup>>
vars     == <<tables, counters, process, handler, receipt, wire>>

NackKind == {"FORMATO_INVALIDO", "ELEITOR_INVALIDO", "JA_VOTOU", "ERRO_DB"}

Reply == [kind : NackKind \cup {"ACK"}, receipt : Receipts \cup {NoReceipt}]

Row == [voter : VoterIds, candidate : Candidates, receipt : Receipts]

AcceptorPc == {"down", "boot", "stopped", "accept", "rate_limit",
               "count_thread", "create_thread", "uncount_thread"}

(* A message has been read and is not answered yet. *)
Serving == {"voter_exists", "has_voted", "generate_receipt", "save_vote",
            "count_vote", "ack"}

(* The thread counted itself in connected_clients. *)
Connected == {"recv", "ssl_cleanup", "leave"} \cup Serving

(* The thread exists. *)
Running == {"ssl_accept", "enter"} \cup Connected

(* The connection is over: refused by the accept loop, its handshake       *)
(* failed, served to the end, or lost with its process.                    *)
Over == {"refused", "failed", "done", "gone"}

HandlerPc == {"idle", "queued", "accepted"} \cup Running \cup Over

Listening == AcceptorPc \ {"down", "boot", "stopped"}

(* The TLS session is up and the handler has not left its loop. *)
Open == {"enter", "recv"} \cup Serving

-----------------------------------------------------------------------------
(* Helpers of the handlers. *)

Goto(c, pc) == handler' = [handler EXCEPT ![c] = pc]

(* The vote the handler of c is serving: its buffer, parsed. *)
Current(c) == sent[c][got[c]]

(* ssl_send. Its result is ignored by the code. *)
Send(c, kind, r) ==
  replies' = [replies EXCEPT ![c] = Append(@, [kind |-> kind, receipt |-> r])]

(* The NACK branches: answer and read the next message. *)
Nack(c, kind) ==
  /\ Send(c, kind, NoReceipt)
  /\ Goto(c, "recv")

HasBallot(v) == \E k \in DOMAIN votos : votos[k].voter = v

(* A SELECT whose result is read as step == SQLITE_ROW: a call that fails  *)
(* reads as "no row".                                                      *)
Found(truth) == {truth} \cup (IF DbMayFail THEN {FALSE} ELSE {})

(* Mutant: the column without its UNIQUE. *)
UniqueVoterDropped(v) == TRUE

(* voter_id TEXT UNIQUE. *)
UniqueVoter(v) == ~ HasBallot(v)

(* What init_database leaves of the seeding: the result of each of its     *)
(* INSERT OR IGNORE is ignored.                                            *)
Seeded == IF DbMayFail THEN SUBSET Roll ELSE {Roll}

NewRow(c) ==
  [voter |-> Current(c).voter, candidate |-> Current(c).candidate,
   receipt |-> receipt[c]]

(* In start_server: close(client_socket); continue. *)
Refuse ==
  /\ acceptor' = "accept" /\ client_socket' = NoConn
  /\ Goto(client_socket, "refused")

-----------------------------------------------------------------------------
(* Mutants: mistakes one could make in the actions below. They are no part *)
(* of Next; each is put in the place of its action to see that a property  *)
(* notices.                                                                *)

(* The tables are dropped and created anew at every start. *)
StartRecreatesTables ==
  /\ acceptor = "down" /\ starts < MaxStarts
  /\ starts' = starts + 1
  /\ votos' = <<>> /\ caster' = <<>> /\ eleitores' = Roll
  /\ connected_clients' = 0 /\ active_threads' = 1 /\ total_votes' = 0
  /\ acceptor' = "boot" /\ client_socket' = NoConn /\ base' = 0
  /\ UNCHANGED <<handler, receipt, wire>>

(* The error path of pthread_create forgets the decrement. *)
UncountThreadForgotten ==
  /\ acceptor = "uncount_thread"
  /\ Refuse
  /\ UNCHANGED <<tables, counters, starts, base, receipt, wire>>

(* The branch of a malformed message continues without its ssl_send. *)
RecvSilent(c) ==
  /\ handler[c] = "recv"
  /\ got[c] < Len(sent[c])
  /\ got' = [got EXCEPT ![c] = @ + 1]
  /\ Goto(c, IF sent[c][got[c] + 1] = Malformed THEN "recv" ELSE "voter_exists")
  /\ UNCHANGED <<tables, counters, process, receipt, sent, replies, hungup>>

(* The loop runs while ssl_recv is not 0, so an error reads again. *)
RecvEndsRetried(c) ==
  /\ handler[c] = "recv" /\ hungup[c]
  /\ UNCHANGED vars

(* The result of voter_exists is not looked at. *)
VoterExistsIgnored(c) ==
  /\ handler[c] = "voter_exists"
  /\ Goto(c, "has_voted")
  /\ UNCHANGED <<tables, counters, process, receipt, wire>>

(* if(!has_voted(voter_id)) *)
HasVotedInverted(c) ==
  /\ handler[c] = "has_voted"
  /\ \E found \in Found(HasBallot(Current(c).voter)) :
       IF ~ found
       THEN Nack(c, "JA_VOTOU")
       ELSE Goto(c, "generate_receipt") /\ UNCHANGED replies
  /\ UNCHANGED <<tables, counters, process, receipt, sent, got, hungup>>

(* The result of save_vote is not looked at. *)
VoteNotSavedIgnored(c) ==
  /\ UniqueVoter(Current(c).voter) => DbMayFail
  /\ Goto(c, "count_vote")
  /\ UNCHANGED <<tables, receipt, replies>>

(* total_votes++ without the lock: a handler that counted since this one   *)
(* read the counter is overwritten.                                        *)
CountVoteUnlocked(c) ==
  /\ handler[c] = "count_vote"
  /\ \/ total_votes' = total_votes + 1
     \/ /\ \E d \in Conns : handler[d] = "ack"
        /\ UNCHANGED total_votes
  /\ Goto(c, "ack")
  /\ UNCHANGED <<tables, connected_clients, active_threads, process, receipt,
                 wire>>

(* A saved vote is counted and not answered. *)
CountVoteNoAck(c) ==
  /\ handler[c] = "count_vote"
  /\ total_votes' = total_votes + 1
  /\ Goto(c, "recv")
  /\ UNCHANGED <<tables, connected_clients, active_threads, process, receipt,
                 wire>>

(* generate_receipt is called again for the answer. *)
AckFreshReceipt(c) ==
  /\ handler[c] = "ack"
  /\ \E r \in Receipts : Send(c, "ACK", r)
  /\ receipt' = [receipt EXCEPT ![c] = NoReceipt]
  /\ Goto(c, "recv")
  /\ UNCHANGED <<tables, counters, process, sent, got, hungup>>

-----------------------------------------------------------------------------
(* The process. *)

Init ==
  /\ votos = <<>> /\ caster = <<>> /\ eleitores = {}
  /\ connected_clients = 0 /\ active_threads = 1 /\ total_votes = 0
  /\ acceptor = "down" /\ client_socket = NoConn /\ starts = 0 /\ base = 0
  /\ handler = [c \in Conns |-> "idle"]
  /\ receipt = [c \in Conns |-> NoReceipt]
  /\ sent = [c \in Conns |-> <<>>]
  /\ got = [c \in Conns |-> 0]
  /\ replies = [c \in Conns |-> <<>>]
  /\ hungup = [c \in Conns |-> FALSE]

(* main: init_database, then start_dashboard creates the network thread.   *)
(* A new process has its counters at the values they are declared with.    *)
Start ==
  /\ acceptor = "down" /\ starts < MaxStarts
  /\ starts' = starts + 1
  /\ \E s \in Seeded : eleitores' = eleitores \cup s
  /\ connected_clients' = 0 /\ active_threads' = 1 /\ total_votes' = 0
  /\ acceptor' = "boot" /\ client_socket' = NoConn
  /\ base' = Len(votos)
  /\ UNCHANGED <<votos, caster, handler, receipt, wire>>

(* init_server_ssl, socket, bind and listen: when one fails start_server   *)
(* returns and the process stays up without a network thread.              *)
Listen ==
  /\ acceptor = "boot"
  /\ acceptor' \in {"accept", "stopped"}
  /\ UNCHANGED <<tables, counters, client_socket, starts, base, handler,
                 receipt, wire>>

(* The process ends, whatever its threads are doing: the exit button (main *)
(* returns from start_dashboard), a signal, SIGPIPE from ssl_send to a     *)
(* peer that is gone, a crash. The kernel closes its connections; the      *)
(* rows SQLite has committed stay.                                         *)
ProcessEnds ==
  /\ acceptor # "down"
  /\ acceptor' = "down"
  /\ handler' = [c \in Conns |->
       IF handler[c] \in {"idle", "refused", "done"} THEN handler[c] ELSE "gone"]
  /\ receipt' = [c \in Conns |-> NoReceipt]
  /\ UNCHANGED <<tables, counters, client_socket, starts, base, wire>>

-----------------------------------------------------------------------------
(* start_server: the accept loop. *)

Accept(c) ==
  /\ acceptor = "accept" /\ handler[c] = "queued"
  /\ acceptor' = "rate_limit" /\ client_socket' = c
  /\ Goto(c, "accepted")
  /\ UNCHANGED <<tables, counters, starts, base, receipt, wire>>

(* rate_limit_allow says no, or malloc fails. *)
TurnAway ==
  /\ acceptor = "rate_limit"
  /\ Refuse
  /\ UNCHANGED <<tables, counters, starts, base, receipt, wire>>

RateLimitAllows ==
  /\ acceptor = "rate_limit"
  /\ acceptor' = "count_thread"
  /\ UNCHANGED <<tables, counters, client_socket, starts, base, handler,
                 receipt, wire>>

CountThread ==
  /\ acceptor = "count_thread"
  /\ active_threads' = active_threads + 1
  /\ acceptor' = "create_thread"
  /\ UNCHANGED <<tables, connected_clients, total_votes, client_socket, starts,
                 base, handler, receipt, wire>>

CreateThread ==
  /\ acceptor = "create_thread"
  /\ \/ /\ Goto(client_socket, "ssl_accept")
        /\ acceptor' = "accept" /\ client_socket' = NoConn
     \/ /\ acceptor' = "uncount_thread"
        /\ UNCHANGED <<client_socket, handler>>
  /\ UNCHANGED <<tables, counters, starts, base, receipt, wire>>

UncountThread ==
  /\ acceptor = "uncount_thread"
  /\ active_threads' = active_threads - 1
  /\ Refuse
  /\ UNCHANGED <<tables, connected_clients, total_votes, starts, base, receipt,
                 wire>>

-----------------------------------------------------------------------------
(* handle_client: the thread of connection c. *)

(* A failed handshake closes the socket and ends the thread on the spot;   *)
(* no counter is touched.                                                  *)
Handshake(c) ==
  /\ handler[c] = "ssl_accept"
  /\ \/ ~ hungup[c] /\ Goto(c, "enter")
     \/ Goto(c, "failed")
  /\ UNCHANGED <<tables, counters, process, receipt, wire>>

Enter(c) ==
  /\ handler[c] = "enter"
  /\ connected_clients' = connected_clients + 1
  /\ Goto(c, "recv")
  /\ UNCHANGED <<tables, active_threads, total_votes, process, receipt, wire>>

(* ssl_recv returns a message, which parse_vote_message accepts or not. *)
Recv(c) ==
  /\ handler[c] = "recv"
  /\ got[c] < Len(sent[c])
  /\ got' = [got EXCEPT ![c] = @ + 1]
  /\ IF sent[c][got[c] + 1] = Malformed
     THEN Nack(c, "FORMATO_INVALIDO")
     ELSE Goto(c, "voter_exists") /\ UNCHANGED replies
  /\ UNCHANGED <<tables, counters, process, receipt, sent, hungup>>

(* ssl_recv returns 0 or less: end of stream, or a reset that drops what   *)
(* was not read yet.                                                       *)
RecvEnds(c) ==
  /\ handler[c] = "recv" /\ hungup[c]
  /\ Goto(c, "ssl_cleanup")
  /\ UNCHANGED <<tables, counters, process, receipt, wire>>

VoterExists(c) ==
  /\ handler[c] = "voter_exists"
  /\ \E found \in Found(Current(c).voter \in eleitores) :
       IF found
       THEN Goto(c, "has_voted") /\ UNCHANGED replies
       ELSE Nack(c, "ELEITOR_INVALIDO")
  /\ UNCHANGED <<tables, counters, process, receipt, sent, got, hungup>>

HasVoted(c) ==
  /\ handler[c] = "has_voted"
  /\ \E found \in Found(HasBallot(Current(c).voter)) :
       IF found
       THEN Nack(c, "JA_VOTOU")
       ELSE Goto(c, "generate_receipt") /\ UNCHANGED replies
  /\ UNCHANGED <<tables, counters, process, receipt, sent, got, hungup>>

GenerateReceipt(c) ==
  /\ handler[c] = "generate_receipt"
  /\ \E r \in Receipts : receipt' = [receipt EXCEPT ![c] = r]
  /\ Goto(c, "save_vote")
  /\ UNCHANGED <<tables, counters, process, wire>>

(* The INSERT commits when sqlite3_step returns SQLITE_DONE. *)
VoteSaved(c) ==
  /\ UniqueVoter(Current(c).voter)
  /\ votos' = Append(votos, NewRow(c))
  /\ caster' = Append(caster, <<c, got[c]>>)
  /\ Goto(c, "count_vote")
  /\ UNCHANGED <<eleitores, receipt, replies>>

VoteNotSaved(c) ==
  /\ UniqueVoter(Current(c).voter) => DbMayFail
  /\ Nack(c, "ERRO_DB")
  /\ receipt' = [receipt EXCEPT ![c] = NoReceipt]
  /\ UNCHANGED tables

SaveVote(c) ==
  /\ handler[c] = "save_vote"
  /\ VoteSaved(c) \/ VoteNotSaved(c)
  /\ UNCHANGED <<counters, process, sent, got, hungup>>

CountVote(c) ==
  /\ handler[c] = "count_vote"
  /\ total_votes' = total_votes + 1
  /\ Goto(c, "ack")
  /\ UNCHANGED <<tables, connected_clients, active_threads, process, receipt,
                 wire>>

Ack(c) ==
  /\ handler[c] = "ack"
  /\ Send(c, "ACK", receipt[c])
  /\ receipt' = [receipt EXCEPT ![c] = NoReceipt]
  /\ Goto(c, "recv")
  /\ UNCHANGED <<tables, counters, process, sent, got, hungup>>

(* ssl_cleanup and close. *)
Cleanup(c) ==
  /\ handler[c] = "ssl_cleanup"
  /\ Goto(c, "leave")
  /\ UNCHANGED <<tables, counters, process, receipt, wire>>

Leave(c) ==
  /\ handler[c] = "leave"
  /\ connected_clients' = connected_clients - 1
  /\ active_threads' = active_threads - 1
  /\ Goto(c, "done")
  /\ UNCHANGED <<tables, total_votes, process, receipt, wire>>

-----------------------------------------------------------------------------
(* The peers. *)

PeerConnects(c) ==
  /\ handler[c] = "idle" /\ acceptor \in Listening
  /\ Goto(c, "queued")
  /\ UNCHANGED <<tables, counters, process, receipt, wire>>

PeerSends(c) ==
  /\ handler[c] \in Open /\ ~ hungup[c] /\ Len(sent[c]) < MaxMsgs
  /\ \E m \in Message : sent' = [sent EXCEPT ![c] = Append(@, m)]
  /\ UNCHANGED <<tables, counters, process, handler, receipt, got, replies,
                 hungup>>

PeerHangsUp(c) ==
  /\ handler[c] \in {"queued", "accepted", "ssl_accept"} \cup Open
  /\ ~ hungup[c]
  /\ hungup' = [hungup EXCEPT ![c] = TRUE]
  /\ UNCHANGED <<tables, counters, process, handler, receipt, sent, got, replies>>

-----------------------------------------------------------------------------
AcceptLoop ==
  \/ \E c \in Conns : Accept(c)
  \/ TurnAway
  \/ RateLimitAllows
  \/ CountThread
  \/ CreateThread
  \/ UncountThread

HandleClient(c) ==
  \/ Enter(c)
  \/ Recv(c)
  \/ RecvEnds(c)
  \/ VoterExists(c)
  \/ HasVoted(c)
  \/ GenerateReceipt(c)
  \/ SaveVote(c)
  \/ CountVote(c)
  \/ Ack(c)
  \/ Cleanup(c)
  \/ Leave(c)

Peer(c) ==
  \/ PeerConnects(c)
  \/ PeerSends(c)
  \/ PeerHangsUp(c)

Next ==
  \/ Start
  \/ Listen
  \/ ProcessEnds
  \/ AcceptLoop
  \/ \E c \in Conns : Handshake(c) \/ HandleClient(c) \/ Peer(c)

(* The scheduler runs every thread that can run, and SSL_accept returns    *)
(* when its peer is gone. Nothing makes a silent peer finish its           *)
(* handshake, speak or hang up, nor the operator start the server.         *)
Fairness ==
  /\ WF_vars(AcceptLoop)
  /\ \A c \in Conns :
       /\ WF_vars(HandleClient(c))
       /\ WF_vars(hungup[c] /\ Handshake(c))

Spec == Init /\ [][Next]_vars

FairSpec == Spec /\ Fairness

-----------------------------------------------------------------------------
(* What the voters have been told. *)

Acked(c) == {i \in DOMAIN replies[c] : replies[c][i].kind = "ACK"}

Confirmation(c, i) ==
  [voter |-> sent[c][i].voter, candidate |-> sent[c][i].candidate,
   receipt |-> replies[c][i].receipt]

Ballots == {votos[k] : k \in DOMAIN votos}

Confirmed == UNION {{Confirmation(c, i) : i \in Acked(c)} : c \in Conns}

Box == INSTANCE BallotBox
         WITH Voters <- Roll, ballots <- Ballots, confirmed <- Confirmed

-----------------------------------------------------------------------------
(* Properties. *)

(* Every variable has its type: in particular no decrement of a counter in *)
(* handle_client or start_server takes it below zero.                      *)
TypeOK ==
  /\ votos \in Seq(Row)
  /\ caster \in Seq(Conns \X (Nat \ {0}))
  /\ eleitores \in SUBSET Roll
  /\ connected_clients \in Nat /\ active_threads \in Nat /\ total_votes \in Nat
  /\ acceptor \in AcceptorPc
  /\ client_socket \in Conns \cup {NoConn}
  /\ starts \in Nat /\ base \in Nat
  /\ handler \in [Conns -> HandlerPc]
  /\ receipt \in [Conns -> Receipts \cup {NoReceipt}]
  /\ sent \in [Conns -> Seq(Message)]
  /\ got \in [Conns -> Nat]
  /\ replies \in [Conns -> Seq(Reply)]
  /\ hungup \in [Conns -> BOOLEAN]

(* No voter has two rows in votos, although has_voted and save_vote are    *)
(* two calls that other handlers may interleave with, has_voted reads a    *)
(* failed query as "has not voted", and the process may end in between.    *)
OneBallotPerVoter ==
  \A j, k \in DOMAIN votos : votos[j].voter = votos[k].voter => j = k

(* Only voters of the roll have a row, on every path to the INSERT, after  *)
(* every failed query and every restart.                                   *)
BallotsFromRoll ==
  \A k \in DOMAIN votos : votos[k].voter \in eleitores

(* An ACK tells the truth, for good: the row of the very message it        *)
(* answers, with that voter, that candidate and that receipt, is in votos  *)
(* then and after every later step, end of the process and restart.        *)
AckRecorded ==
  \A c \in Conns : \A i \in Acked(c) :
    \E k \in DOMAIN votos :
      caster[k] = <<c, i>> /\ votos[k] = Confirmation(c, i)

(* A voter gets at most one ACK, over all connections and restarts.        *)
AckOncePerVoter ==
  \A c, d \in Conns : \A i \in Acked(c), j \in Acked(d) :
    sent[c][i].voter = sent[d][j].voter => c = d /\ i = j

(* The handler that has recorded a vote hands its ACK to ssl_send and no   *)
(* other answer, unless the process ends before it does: a recorded vote   *)
(* is never refused. The result of ssl_send is ignored, so this does not   *)
(* say that the voter reads the ACK; ReceiptUnlessLost of VotingSystem     *)
(* says when he does.                                                      *)
RecordedAnswered ==
  \A k \in DOMAIN caster :
    LET c == caster[k][1]
        i == caster[k][2]
    IN  \/ i \in Acked(c)
        \/ /\ got[c] = i /\ Len(replies[c]) < i
           /\ handler[c] \in {"count_vote", "ack", "gone"}

(* A refusal tells the truth. JA_VOTOU: there is a row of that voter.      *)
(* With no SQLite failure, ELEITOR_INVALIDO: the voter is not on the roll; *)
(* and ERRO_DB: the vote lost the race between has_voted and save_vote to  *)
(* another vote of the same voter.                                         *)
NackHonest ==
  \A c \in Conns : \A i \in DOMAIN replies[c] :
    LET kind == replies[c][i].kind
        msg  == sent[c][i]
    IN  /\ kind = "FORMATO_INVALIDO" <=> msg = Malformed
        /\ kind = "JA_VOTOU" => HasBallot(msg.voter)
        /\ kind = "ELEITOR_INVALIDO" => DbMayFail \/ msg.voter \notin Roll
        /\ kind = "ERRO_DB" => DbMayFail \/ HasBallot(msg.voter)

(* The connections in a region of the code, and how many there are. *)
In(pcs) == {c \in Conns : handler[c] \in pcs}

Size(pcs) == Cardinality(In(pcs))

(* Between start_server's increment and the thread it creates. *)
Pending == IF acceptor \in {"create_thread", "uncount_thread"} THEN 1 ELSE 0

(* The counters the dashboard shows. connected_clients is the number of    *)
(* handlers inside their session; active_threads is one more than the      *)
(* threads that exist plus the threads whose handshake ever failed, which  *)
(* return without the decrement.                                           *)
CounterAccounting ==
  acceptor # "down" =>
    /\ connected_clients = Size(Connected)
    /\ active_threads =
         1 + Pending + Size(Running) + Size({"failed"})

(* "Threads ativas": one for the server and one per handler thread.        *)
ActiveThreadsExact ==
  acceptor = "accept" => active_threads = 1 + Size(Running)

(* total_votes is the number of rows this process has inserted: no         *)
(* increment is lost, doubled or made for a vote that was not saved.       *)
TotalVotesExact ==
  acceptor # "down" =>
    total_votes + Size({"count_vote"}) = Len(votos) - base

(* No step, a restart's init_database included, changes or drops a row, or *)
(* takes a voter off the roll.                                             *)
TablesOnlyGrow ==
  [][/\ Len(votos) <= Len(votos')
     /\ \A k \in DOMAIN votos : votos'[k] = votos[k]
     /\ eleitores \subseteq eleitores']_vars

(* The server is a ballot box. *)
ImplementsBallotBox == Box!Spec

(* Once a session is up, each message the peer sent gets its reply, unless *)
(* the peer leaves or the process ends.                                    *)
EveryMessageAnswered ==
  \A c \in Conns : \A i \in 1..MaxMsgs :
    Len(sent[c]) >= i ~>
      (Len(replies[c]) >= i \/ hungup[c] \/ handler[c] = "gone")

(* The server lets go of every connection whose end its TCP sees, whatever *)
(* its handler or the accept loop was doing with it.                       *)
HangupReleases ==
  \A c \in Conns : hungup[c] ~> handler[c] \in Over

-----------------------------------------------------------------------------
(* The inductive invariant: what holds between any two steps and makes the *)
(* properties above hold. ServerSocketProofs proves it.                    *)

(* Until start_server listens there is no connection, and when the process *)
(* has ended it has none.                                                  *)
Quiet ==
  acceptor \notin Listening =>
    \A c \in Conns : handler[c] \in {"idle", "refused", "done", "gone"}

(* From accept to pthread_create start_server has one connection in hand.  *)
InHand ==
  acceptor \in Listening \ {"accept"} =>
    client_socket \in Conns /\ handler[client_socket] = "accepted"

(* Every message that was read has its reply, but for the one in service.  *)
Paired ==
  \A c \in Conns :
    /\ Len(replies[c]) <= got[c] /\ got[c] <= Len(sent[c])
    /\ got[c] <= Len(replies[c]) + 1
    /\ got[c] = Len(replies[c]) + 1 => handler[c] \in Serving \cup {"gone"}
    /\ handler[c] \in Serving =>
         got[c] = Len(replies[c]) + 1 /\ Current(c) # Malformed

(* What a handler knows of the vote it serves. *)
Vetted ==
  \A c \in Conns :
    /\ handler[c] \in Serving \ {"voter_exists"} =>
         Current(c).voter \in eleitores
    /\ handler[c] \in {"save_vote", "count_vote", "ack"} =>
         receipt[c] \in Receipts
    /\ handler[c] \in {"count_vote", "ack"} =>
         \E k \in DOMAIN votos :
           caster[k] = <<c, got[c]>> /\ votos[k] = NewRow(c)

(* Each row records the voter and the candidate of a message that was read. *)
Traced ==
  /\ Len(caster) = Len(votos) /\ base <= Len(votos)
  /\ \A k \in DOMAIN votos :
       LET c == caster[k][1]
           i == caster[k][2]
       IN  /\ c \in Conns /\ i \in 1..got[c] /\ sent[c][i] # Malformed
           /\ votos[k].voter = sent[c][i].voter
           /\ votos[k].candidate = sent[c][i].candidate

(* Without SQLite failures every voter of the roll is found. *)
RollSeeded ==
  acceptor # "down" /\ ~ DbMayFail => eleitores = Roll

(* The regions the counters are about. *)
Regions == {Connected, Running, {"failed"}, {"count_vote"}}

(* At any time only finitely many connections have been opened. *)
Finite == \A pcs \in Regions : IsFiniteSet(In(pcs))

(* The state invariant of the server. *)
IInv ==
  /\ TypeOK /\ Quiet /\ InHand /\ Finite
  /\ Paired /\ Vetted /\ Traced /\ RollSeeded
  /\ OneBallotPerVoter /\ BallotsFromRoll
  /\ AckRecorded /\ RecordedAnswered /\ NackHonest
  /\ CounterAccounting /\ TotalVotesExact

=============================================================================
