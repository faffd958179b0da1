---------------------------- MODULE VotingClient ----------------------------
(***************************************************************************)
(* The voter's program: main, which asks for server and voter, connects,   *)
(* asks for the candidate, sends the vote and shows what came of it.       *)
(* c in Clients is one run of the program, a process of its own. What the  *)
(* system calls, OpenSSL and the server answer is left to chance here;     *)
(* VotingSystem puts the server in that place.                             *)
(***************************************************************************)
CONSTANTS
  Clients,      \* runs of the program
  Entries,      \* what voters type as their id
  Candidates,
  Responses,    \* what ssl_recv may return
  NoResponse,
  NoEntry

ASSUME NothingAssumption ==
  NoResponse \notin Responses /\ NoEntry \notin Entries \cup Candidates

VARIABLES
  pc,             \* the call the program is about to make
  held,           \* what it has acquired and not released
  voter_id,
  candidate,
  connect_error,  \* does the buffer hold a text?
  response,
  shown           \* which window told the voter the outcome

clientVars ==
  <<pc, held, voter_id, candidate, connect_error, response, shown>>

Resource == {"socket", "ctx", "ssl", "conn"}

(* connect_server_ssl: its calls that may fail, each with the next one. *)
AfterCall ==
  [socket |-> "inet_pton", inet_pton |-> "nonblock", nonblock |-> "connect",
   connect |-> "select", select |-> "getsockopt", getsockopt |-> "restore",
   restore |-> "init_client_ssl", init_client_ssl |-> "ssl_connect",
   ssl_connect |-> "malloc", malloc |-> "show_voting_menu"]

ConnectCall == DOMAIN AfterCall

(* The session is up. *)
InSession == {"show_voting_menu", "ssl_send", "ssl_recv", "close_ssl_connection"}

Ended == {"exit", "killed"}

Pc == {"show_login", "connect_failed"} \cup ConnectCall \cup InSession \cup Ended

Window == {"nothing", "connect_error", "connect_fallback", "receipt", "send_error"}

Acquired(call) ==
  CASE call = "socket"          -> {"socket"}
    [] call = "init_client_ssl" -> {"ctx"}
    [] call = "ssl_connect"     -> {"ssl"}
    [] call = "malloc"          -> {"conn"}
    [] OTHER                    -> {}

(* Mutant: a failed handshake closes the socket and leaves the context. *)
ReleasedLeaky(call) == IF call = "socket" THEN {} ELSE {"socket"}

(* What each error branch of connect_server_ssl closes and frees. *)
Released(call) ==
  CASE call = "socket"      -> {}
    [] call = "ssl_connect" -> {"socket", "ctx"}
    [] call = "malloc"      -> {"socket", "ssl", "ctx"}
    [] OTHER                -> {"socket"}

Goto(c, p) == pc' = [pc EXCEPT ![c] = p]

Show(c, w) == shown' = [shown EXCEPT ![c] = w]

-----------------------------------------------------------------------------
Init ==
  /\ pc = [c \in Clients |-> "show_login"]
  /\ held = [c \in Clients |-> {}]
  /\ voter_id = [c \in Clients |-> NoEntry]
  /\ candidate = [c \in Clients |-> NoEntry]
  /\ connect_error = [c \in Clients |-> FALSE]
  /\ response = [c \in Clients |-> NoResponse]
  /\ shown = [c \in Clients |-> "nothing"]

ShowLogin(c) ==
  /\ pc[c] = "show_login"
  /\ \E e \in Entries : voter_id' = [voter_id EXCEPT ![c] = e]
  /\ Goto(c, "socket")
  /\ UNCHANGED <<held, candidate, connect_error, response, shown>>

(* A call of connect_server_ssl succeeds. *)
CallReturns(c) ==
  /\ pc[c] \in ConnectCall
  /\ Goto(c, AfterCall[pc[c]])
  /\ held' = [held EXCEPT ![c] = @ \cup Acquired(pc[c])]
  /\ UNCHANGED <<voter_id, candidate, connect_error, response, shown>>

(* connect has not to wait: no select, no getsockopt. *)
ConnectsAtOnce(c) ==
  /\ pc[c] = "connect"
  /\ Goto(c, "restore")
  /\ UNCHANGED <<held, voter_id, candidate, connect_error, response, shown>>

(* A call fails, or select has waited CONNECT_TIMEOUT_SECONDS: clean up,   *)
(* return NULL. Only the malloc branch writes no message.                  *)
CallFails(c) ==
  /\ pc[c] \in ConnectCall
  /\ Goto(c, "connect_failed")
  /\ held' = [held EXCEPT ![c] = @ \ Released(pc[c])]
  /\ connect_error' = [connect_error EXCEPT ![c] = pc[c] # "malloc"]
  /\ UNCHANGED <<voter_id, candidate, response, shown>>

(* main: newtWinMessage and return 1. *)
ShowConnectError(c) ==
  /\ pc[c] = "connect_failed"
  /\ Show(c, IF connect_error[c] THEN "connect_error" ELSE "connect_fallback")
  /\ Goto(c, "exit")
  /\ UNCHANGED <<held, voter_id, candidate, connect_error, response>>

ShowVotingMenu(c) ==
  /\ pc[c] = "show_voting_menu"
  /\ \E k \in Candidates : candidate' = [candidate EXCEPT ![c] = k]
  /\ Goto(c, "ssl_send")
  /\ UNCHANGED <<held, voter_id, connect_error, response, shown>>

(* send_vote: the result of ssl_send is ignored. *)
SendVote(c) ==
  /\ pc[c] = "ssl_send"
  /\ Goto(c, "ssl_recv")
  /\ UNCHANGED <<held, voter_id, candidate, connect_error, response, shown>>

(* ssl_recv returns r, and show_receipt shows it, an ACK or not. *)
ShowReceipt(c, r) ==
  /\ pc[c] = "ssl_recv"
  /\ response' = [response EXCEPT ![c] = r]
  /\ Show(c, "receipt")
  /\ Goto(c, "close_ssl_connection")
  /\ UNCHANGED <<held, voter_id, candidate, connect_error>>

(* ssl_recv returns 0 or less: "Falha ao enviar voto". *)
ShowSendError(c) ==
  /\ pc[c] = "ssl_recv"
  /\ Show(c, "send_error")
  /\ Goto(c, "close_ssl_connection")
  /\ UNCHANGED <<held, voter_id, candidate, connect_error, response>>

CloseConnection(c) ==
  /\ pc[c] = "close_ssl_connection"
  /\ held' = [held EXCEPT ![c] = {}]
  /\ Goto(c, "exit")
  /\ UNCHANGED <<voter_id, candidate, connect_error, response, shown>>

(* The voter or SIGPIPE from ssl_send ends the program. *)
Killed(c) ==
  /\ pc[c] \notin Ended
  /\ held' = [held EXCEPT ![c] = {}]
  /\ Goto(c, "killed")
  /\ UNCHANGED <<voter_id, candidate, connect_error, response, shown>>

Run(c) ==
  \/ ShowLogin(c)
  \/ CallReturns(c)
  \/ ConnectsAtOnce(c)
  \/ CallFails(c)
  \/ ShowConnectError(c)
  \/ ShowVotingMenu(c)
  \/ SendVote(c)
  \/ \E r \in Responses : ShowReceipt(c, r)
  \/ ShowSendError(c)
  \/ CloseConnection(c)
  \/ Killed(c)

Next == \E c \in Clients : Run(c)

Spec == Init /\ [][Next]_clientVars

-----------------------------------------------------------------------------
TypeOK ==
  /\ pc \in [Clients -> Pc]
  /\ held \in [Clients -> SUBSET Resource]
  /\ voter_id \in [Clients -> Entries \cup {NoEntry}]
  /\ candidate \in [Clients -> Candidates \cup {NoEntry}]
  /\ connect_error \in [Clients -> BOOLEAN]
  /\ response \in [Clients -> Responses \cup {NoResponse}]
  /\ shown \in [Clients -> Window]

(* What a call works on. *)
Needed(call) ==
  CASE call \in {"inet_pton", "nonblock", "connect", "select", "getsockopt",
                 "restore", "init_client_ssl"} -> {"socket"}
    [] call = "ssl_connect"     -> {"socket", "ctx"}
    [] call = "malloc"          -> {"socket", "ctx", "ssl"}
    [] call \in InSession       -> Resource
    [] OTHER                    -> {}

(* On whichever of its ten calls the connection fails, at the time limit   *)
(* or later, nothing stays open or allocated, and until then nothing is    *)
(* released that a later call works on.                                    *)
HeldAsNeeded == \A c \in Clients : held[c] = Needed(pc[c])

(* The inductive invariant. TlsClientProofs proves it.                     *)
ClientInv == TypeOK /\ HeldAsNeeded

=============================================================================
