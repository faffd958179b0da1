-------------------------- MODULE ServerResources --------------------------
(***************************************************************************)
(* What the server's threads hold: the TLS context and the listening       *)
(* socket, which start_server sets up in nine calls that may fail, and for *)
(* each connection its socket, the block of arguments that the accept loop *)
(* allocates and the new thread frees, and the TLS session ssl_accept      *)
(* makes. ServerSocket takes the set-up and the handshake as one step      *)
(* each; here they are the calls of init_server_ssl and ssl_accept, with   *)
(* the clean-up of each error branch, among the same threads.              *)
(***************************************************************************)
EXTENDS ServerSocket

VARIABLES
  booting,   \* the call start_server is about to make
  service,   \* what start_server holds for all connections
  held,      \* what is held for each connection
  greeting   \* the step its thread is about to make before it serves

resources == <<booting, service, held, greeting>>

resourceVars == <<vars, resources>>

NoCall == "none"

(* init_server_ssl, then start_server: each call with the next one. The    *)
(* two paths are resolved beside the program's own.                        *)
SetupOrder ==
  [SSL_CTX_new |-> "resolve_cert", resolve_cert |-> "use_certificate",
   use_certificate |-> "resolve_key", resolve_key |-> "use_PrivateKey",
   use_PrivateKey |-> "check_private_key", check_private_key |-> "socket",
   socket |-> "bind", bind |-> "listen"]

SetupCall == DOMAIN SetupOrder \cup {"listen"}

SetupGains(call) ==
  CASE call = "SSL_CTX_new" -> {"ctx"}
    [] call = "socket"      -> {"listener"}
    [] OTHER                -> {}

(* Mutant: the branch of listen closes the socket and forgets the context. *)
SetupFreesSocket(call) ==
  CASE call = "SSL_CTX_new"        -> {}
    [] call \in {"bind", "listen"} -> {"listener"}
    [] OTHER                       -> {"ctx"}

(* What each error branch of the set-up frees and closes. *)
SetupFrees(call) ==
  CASE call = "SSL_CTX_new"        -> {}
    [] call \in {"bind", "listen"} -> {"listener", "ctx"}
    [] OTHER                       -> {"ctx"}

Hold(c, S) == held' = [held EXCEPT ![c] = @ \cup S]

Release(c, S) == held' = [held EXCEPT ![c] = @ \ S]

Greet(c, step) == greeting' = [greeting EXCEPT ![c] = step]

-----------------------------------------------------------------------------
ResourceInit ==
  /\ Init
  /\ booting = NoCall /\ service = {}
  /\ held = [c \in Conns |-> {}]
  /\ greeting = [c \in Conns |-> NoCall]

StartProcess ==
  /\ Start
  /\ booting' = "SSL_CTX_new"
  /\ UNCHANGED <<service, held, greeting>>

SetupCallReturns ==
  /\ booting \in DOMAIN SetupOrder
  /\ booting' = SetupOrder[booting]
  /\ service' = service \cup SetupGains(booting)
  /\ UNCHANGED <<vars, held, greeting>>

(* listen succeeds: the accept loop begins. *)
SetupEnds ==
  /\ booting = "listen"
  /\ Listen /\ acceptor' = "accept"
  /\ booting' = NoCall
  /\ UNCHANGED <<service, held, greeting>>

SetupFails ==
  /\ booting \in SetupCall
  /\ Listen /\ acceptor' = "stopped"
  /\ booting' = NoCall
  /\ service' = service \ SetupFrees(booting)
  /\ UNCHANGED <<held, greeting>>

(* The kernel takes back what a process has left. *)
ProcessGone ==
  /\ ProcessEnds
  /\ booting' = NoCall /\ service' = {}
  /\ held' = [c \in Conns |-> {}]
  /\ greeting' = [c \in Conns |-> NoCall]

-----------------------------------------------------------------------------
(* The accept loop. *)

AcceptHolds(c) ==
  /\ Accept(c)
  /\ Hold(c, {"socket"})
  /\ UNCHANGED <<booting, service, greeting>>

(* Refused by the limiter, or malloc returns NULL: the socket is closed.   *)
TurnAwayCloses ==
  /\ TurnAway
  /\ Release(client_socket, {"socket"})
  /\ UNCHANGED <<booting, service, greeting>>

AllocateArgs ==
  /\ RateLimitAllows
  /\ Hold(client_socket, {"args"})
  /\ UNCHANGED <<booting, service, greeting>>

(* Mutant: the accept loop frees the arguments it has allocated. *)
HandOverFreed ==
  /\ CreateThread
  /\ IF acceptor' = "accept"
     THEN /\ Greet(client_socket, "args")
          /\ Release(client_socket, {"args"})
     ELSE UNCHANGED <<greeting, held>>
  /\ UNCHANGED <<booting, service>>

(* The thread gets the arguments with the pointer; the accept loop does    *)
(* not touch them again, unless there is no thread.                        *)
HandOver ==
  /\ CreateThread
  /\ IF acceptor' = "accept"
     THEN Greet(client_socket, "args")
     ELSE UNCHANGED greeting
  /\ UNCHANGED <<booting, service, held>>

NoThread ==
  /\ UncountThread
  /\ Release(client_socket, {"socket", "args"})
  /\ UNCHANGED <<booting, service, greeting>>

-----------------------------------------------------------------------------
(* The thread of connection c. *)

(* Copies the address and frees the block. *)
TakeArgs(c) ==
  /\ greeting[c] = "args"
  /\ Greet(c, "SSL_new")
  /\ Release(c, {"args"})
  /\ UNCHANGED <<vars, booting, service>>

SslNew(c) ==
  /\ greeting[c] = "SSL_new"
  /\ Greet(c, "SSL_accept")
  /\ Hold(c, {"ssl"})
  /\ UNCHANGED <<vars, booting, service>>

(* ssl_accept returns NULL, after SSL_free if there is a session, and      *)
(* handle_client closes the socket.                                        *)
SslAcceptFails(c) ==
  /\ greeting[c] \in {"SSL_new", "SSL_accept"}
  /\ Handshake(c) /\ handler'[c] = "failed"
  /\ Greet(c, NoCall)
  /\ Release(c, {"ssl", "socket"})
  /\ UNCHANGED <<booting, service>>

SslAccept(c) ==
  /\ greeting[c] = "SSL_accept"
  /\ Handshake(c) /\ handler'[c] = "enter"
  /\ Greet(c, NoCall)
  /\ UNCHANGED <<booting, service, held>>

CleanupReleases(c) ==
  /\ Cleanup(c)
  /\ Release(c, {"ssl", "socket"})
  /\ UNCHANGED <<booting, service, greeting>>

(* Steps that acquire and release nothing. *)
OtherStep ==
  /\ \/ CountThread
     \/ \E c \in Conns : (HandleClient(c) /\ handler[c] # "ssl_cleanup") \/ Peer(c)
  /\ UNCHANGED resources

ResourceNext ==
  \/ StartProcess
  \/ SetupCallReturns
  \/ SetupEnds
  \/ SetupFails
  \/ ProcessGone
  \/ TurnAwayCloses
  \/ AllocateArgs
  \/ HandOver
  \/ NoThread
  \/ \E c \in Conns :
       \/ AcceptHolds(c)
       \/ TakeArgs(c)
       \/ SslNew(c)
       \/ SslAcceptFails(c)
       \/ SslAccept(c)
       \/ CleanupReleases(c)
  \/ OtherStep

ResourceSpec == ResourceInit /\ [][ResourceNext]_resourceVars

-----------------------------------------------------------------------------
(* Properties. *)

ResourceTypeOK ==
  /\ booting \in SetupCall \cup {NoCall}
  /\ service \in SUBSET {"ctx", "listener"}
  /\ held \in [Conns -> SUBSET {"socket", "args", "ssl"}]
  /\ greeting \in [Conns -> {NoCall, "args", "SSL_new", "SSL_accept"}]

(* What a connection needs where it is: in the accept loop's hand, in its  *)
(* thread before the session is up, or in service.                         *)
NeededInHand ==
  IF acceptor = "rate_limit" THEN {"socket"} ELSE {"socket", "args"}

NeededToGreet(step) ==
  CASE step = "args"       -> {"socket", "args"}
    [] step = "SSL_new"    -> {"socket"}
    [] step = "SSL_accept" -> {"socket", "ssl"}
    [] OTHER               -> {}

NeededBy(c) ==
  CASE handler[c] = "accepted"   -> NeededInHand
    [] handler[c] = "ssl_accept" -> NeededToGreet(greeting[c])
    [] handler[c] \in Open \cup {"ssl_cleanup"} -> {"socket", "ssl"}
    [] OTHER                     -> {}

(* At every step each connection holds what the next calls on it work on,  *)
(* and nothing once it is over, on whichever call of the accept loop or    *)
(* the thread it has failed: no socket, session or block is leaked,        *)
(* released twice, or used by one thread after another has released it.    *)
ConnectionHolds == \A c \in Conns : held[c] = NeededBy(c)

NeededToSetUp(call) ==
  CASE call \in {"SSL_CTX_new", NoCall} -> {}
    [] call \in {"bind", "listen"}      -> {"ctx", "listener"}
    [] OTHER                            -> {"ctx"}

(* The context outlives every thread that makes sessions of it, and a      *)
(* set-up that fails leaves nothing.                                       *)
ServiceHolds ==
  service = IF acceptor \in Listening THEN {"ctx", "listener"}
            ELSE NeededToSetUp(booting)

(* The accept loop has one connection in its hand. *)
OneInHand ==
  \A c \in Conns :
    handler[c] = "accepted" =>
      acceptor \in Listening \ {"accept"} /\ client_socket = c

(* The inductive invariant, with IInv of the server. AuditTrailProofs      *)
(* proves it.                                                              *)
ResourceInv ==
  /\ ResourceTypeOK /\ ConnectionHolds /\ ServiceHolds /\ OneInHand
  /\ acceptor = "boot" <=> booting \in SetupCall
  /\ \A c \in Conns : handler[c] = "ssl_accept" <=> greeting[c] # NoCall

=============================================================================
