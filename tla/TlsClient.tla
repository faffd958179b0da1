----------------------------- MODULE TlsClient -----------------------------
(***************************************************************************)
(* The client's TLS wrapper: init_client_ssl, which loads the authority    *)
(* embedded in the program, and ssl_connect, which has the server's        *)
(* address checked and shakes hands. VotingClient takes each as one call   *)
(* that returns or fails; here are the library calls each is made of, with *)
(* what they acquire and set, the clean-up of each error branch and the    *)
(* text it leaves for main. connect_server_ssl has taken only an IPv4      *)
(* address, so the branch for host names is never taken.                   *)
(***************************************************************************)
EXTENDS VotingClient

VARIABLES
  at,       \* the library call the wrapper is about to make
  inner,    \* what the wrapper has acquired and not released or returned
  checks,   \* what the handshake will check the server with
  oldest,   \* the call whose error is at the head of OpenSSL's queue
  text,     \* error_buffer
  failed    \* history: the call whose failure ended connect_server_ssl

tls == <<at, inner, checks, oldest, text, failed>>

tlsVars == <<clientVars, tls>>

Outside == "outside"   \* no wrapper is running

NoCall == "none"

(* A text names the call it is about, and the branch that wrote it.        *)
Text(call, kind) == [call |-> call, kind |-> kind]

Empty == Text(NoCall, "empty")       \* error_buffer[0] = '\0'

(* The calls of the two wrappers in their order. *)
FirstCall == [init_client_ssl |-> "SSL_CTX_new", ssl_connect |-> "SSL_new"]

FollowingCall ==
  [SSL_CTX_new |-> "EMBEDDED_CA_PEM", EMBEDDED_CA_PEM |-> "BIO_new_mem_buf",
   BIO_new_mem_buf |-> "PEM_read_bio_X509",
   PEM_read_bio_X509 |-> "SSL_CTX_get_cert_store",
   SSL_CTX_get_cert_store |-> "X509_STORE_add_cert",
   SSL_new |-> "SSL_get0_param",
   SSL_get0_param |-> "X509_VERIFY_PARAM_set1_ip_asc",
   X509_VERIFY_PARAM_set1_ip_asc |-> "SSL_connect"]

LastCall == {"X509_STORE_add_cert", "SSL_connect"}

LibraryCall == DOMAIN FollowingCall \cup LastCall

Wrappers == DOMAIN FirstCall

Gained(call) ==
  CASE call = "SSL_CTX_new"       -> {"ctx"}
    [] call = "BIO_new_mem_buf"   -> {"bio"}
    [] call = "PEM_read_bio_X509" -> {"ca_certificate"}
    [] call = "SSL_new"           -> {"ssl"}
    [] OTHER                      -> {}

(* Mutant: a store that does not take the certificate keeps it. *)
FreedNotCertificate(call) ==
  CASE call \in {"SSL_CTX_new", "SSL_new"}              -> {}
    [] call \in {"EMBEDDED_CA_PEM", "BIO_new_mem_buf"}  -> {"ctx"}
    [] call \in {"PEM_read_bio_X509", "SSL_CTX_get_cert_store",
                 "X509_STORE_add_cert"}                 -> {"bio", "ctx"}
    [] OTHER                                            -> {"ssl"}

(* What the wrapper frees when the call fails, in load_embedded_ca and in  *)
(* the caller that gets its 0.                                             *)
Freed(call) ==
  CASE call \in {"SSL_CTX_new", "SSL_new"}             -> {}
    [] call \in {"EMBEDDED_CA_PEM", "BIO_new_mem_buf"} -> {"ctx"}
    [] call = "PEM_read_bio_X509"                      -> {"bio", "ctx"}
    [] call \in {"SSL_CTX_get_cert_store", "X509_STORE_add_cert"} ->
         {"ca_certificate", "bio", "ctx"}
    [] OTHER -> {"ssl"}

(* OpenSSL queues the errors its calls meet, those of calls that succeed   *)
(* for the caller too; the test of EMBEDDED_CA_PEM is no call of OpenSSL.  *)
(* The calls next to one whose results nobody looks at go with it.         *)
OldestAfter(call, queued) ==
  IF queued = NoCall /\ call # "EMBEDDED_CA_PEM"
  THEN {NoCall, call}
  ELSE {queued}

(* What the error branch writes. capture_openssl_error takes the oldest    *)
(* error of the queue, whichever call has left it there, and a text of its *)
(* own when the queue is empty; capture_ssl_handshake_error first tells    *)
(* why the certificate is refused, and errno before its own.               *)
Reported(call, queued) ==
  LET own == {Text(call, "fixed")}
      taken(rest) == IF queued = NoCall THEN rest ELSE {Text(queued, "openssl")}
  IN  CASE call = "SSL_connect" ->
             {Text(call, "verify_result")}
               \cup taken({Text(call, "errno")} \cup own)
        [] call \in {"SSL_CTX_new", "BIO_new_mem_buf", "PEM_read_bio_X509",
                     "X509_STORE_add_cert", "SSL_new"} -> taken(own)
        [] OTHER -> own

(* What a call adds to the checks of the handshake; SSL_CTX_set_verify,    *)
(* which cannot fail, ends init_client_ssl.                                *)
Sets(call) ==
  CASE call = "X509_STORE_add_cert"           -> {"authority", "verify_peer"}
    [] call = "X509_VERIFY_PARAM_set1_ip_asc" -> {"address"}
    [] OTHER                                  -> {}

AllChecks == {"authority", "verify_peer", "address"}

-----------------------------------------------------------------------------
TlsInit ==
  /\ Init
  /\ at = [c \in Clients |-> Outside]
  /\ inner = [c \in Clients |-> {}]
  /\ checks = [c \in Clients |-> {}]
  /\ oldest = [c \in Clients |-> NoCall]
  /\ text = [c \in Clients |-> Empty]
  /\ failed = [c \in Clients |-> NoCall]

Proceed(c, call) == at' = [at EXCEPT ![c] = call]

Write(c, t) == text' = [text EXCEPT ![c] = t]

Queue(c, call) == oldest' = [oldest EXCEPT ![c] = call]

FailedAt(c, call) == failed' = [failed EXCEPT ![c] = call]

(* Mutant: ssl_connect does not empty the queue. *)
EnterWrapperOldErrors(c) ==
  /\ pc[c] \in Wrappers /\ at[c] = Outside
  /\ Proceed(c, FirstCall[pc[c]])
  /\ Write(c, Empty)
  /\ UNCHANGED <<clientVars, inner, checks, oldest, failed>>

(* Each wrapper empties error_buffer first; ssl_connect, not               *)
(* init_client_ssl, also empties the queue.                                *)
EnterWrapper(c) ==
  /\ pc[c] \in Wrappers /\ at[c] = Outside
  /\ Proceed(c, FirstCall[pc[c]])
  /\ Write(c, Empty)
  /\ Queue(c, IF pc[c] = "ssl_connect" THEN NoCall ELSE oldest[c])
  /\ UNCHANGED <<clientVars, inner, checks, failed>>

LibraryCallReturns(c) ==
  /\ at[c] \in DOMAIN FollowingCall
  /\ Proceed(c, FollowingCall[at[c]])
  /\ inner' = [inner EXCEPT ![c] = @ \cup Gained(at[c])]
  /\ checks' = [checks EXCEPT ![c] = @ \cup Sets(at[c])]
  /\ \E q \in OldestAfter(at[c], oldest[c]) : Queue(c, q)
  /\ UNCHANGED <<clientVars, text, failed>>

(* The last call succeeds: what only the wrapper needed is freed, and the  *)
(* context or the session goes to connect_server_ssl.                      *)
WrapperReturns(c) ==
  /\ at[c] \in LastCall
  /\ CallReturns(c)
  /\ Proceed(c, Outside)
  /\ inner' = [inner EXCEPT ![c] = @ \ ({"ca_certificate", "bio"} \cup Acquired(pc[c]))]
  /\ checks' = [checks EXCEPT ![c] = @ \cup Sets(at[c])]
  /\ \E q \in OldestAfter(at[c], oldest[c]) : Queue(c, q)
  /\ UNCHANGED <<text, failed>>

(* Mutant: the result of configure_peer_verification is not looked at. *)
WrapperFailsLate(c) ==
  \/ /\ at[c] = "X509_VERIFY_PARAM_set1_ip_asc"
     /\ Proceed(c, "SSL_connect")
     /\ UNCHANGED <<clientVars, inner, checks, oldest, text, failed>>
  \/ /\ at[c] \in LibraryCall \ {"X509_VERIFY_PARAM_set1_ip_asc"}
     /\ CallFails(c)
     /\ Proceed(c, Outside)
     /\ inner' = [inner EXCEPT ![c] = @ \ Freed(at[c])]
     /\ \E q \in OldestAfter(at[c], oldest[c]) :
          Queue(c, q) /\ \E t \in Reported(at[c], q) : Write(c, t)
     /\ FailedAt(c, at[c])
     /\ UNCHANGED checks

(* The call that fails may queue its error too. The one the branch takes   *)
(* stays in oldest: nothing looks at the queue of this run again.          *)
WrapperFails(c) ==
  /\ at[c] \in LibraryCall
  /\ CallFails(c)
  /\ Proceed(c, Outside)
  /\ inner' = [inner EXCEPT ![c] = @ \ Freed(at[c])]
  /\ \E q \in OldestAfter(at[c], oldest[c]) :
       Queue(c, q) /\ \E t \in Reported(at[c], q) : Write(c, t)
  /\ FailedAt(c, at[c])
  /\ UNCHANGED checks

(* The calls of connect_server_ssl itself. Its error branches write a text *)
(* of their own, but for the one after malloc.                             *)
OwnCallReturns(c) ==
  /\ pc[c] \notin Wrappers
  /\ CallReturns(c) \/ ConnectsAtOnce(c)
  /\ UNCHANGED tls

OwnCallFails(c) ==
  /\ pc[c] \notin Wrappers
  /\ CallFails(c)
  /\ IF pc[c] = "malloc" THEN UNCHANGED text ELSE Write(c, Text(pc[c], "fixed"))
  /\ FailedAt(c, pc[c])
  /\ UNCHANGED <<at, inner, checks, oldest>>

(* The rest of main. *)
MainStep(c) ==
  /\ \/ ShowLogin(c)
     \/ ShowConnectError(c)
     \/ ShowVotingMenu(c)
     \/ SendVote(c)
     \/ \E r \in Responses : ShowReceipt(c, r)
     \/ ShowSendError(c)
     \/ CloseConnection(c)
  /\ UNCHANGED tls

ProgramKilled(c) ==
  /\ Killed(c)
  /\ Proceed(c, Outside)
  /\ inner' = [inner EXCEPT ![c] = {}]
  /\ UNCHANGED <<checks, oldest, text, failed>>

TlsRun(c) ==
  \/ EnterWrapper(c)
  \/ LibraryCallReturns(c)
  \/ WrapperReturns(c)
  \/ WrapperFails(c)
  \/ OwnCallReturns(c)
  \/ OwnCallFails(c)
  \/ MainStep(c)
  \/ ProgramKilled(c)

TlsNext == \E c \in Clients : TlsRun(c)

TlsSpec == TlsInit /\ [][TlsNext]_tlsVars

-----------------------------------------------------------------------------
(* Properties. *)

InnerResource == {"ctx", "bio", "ca_certificate", "ssl"}

TextKind == {"empty", "fixed", "openssl", "verify_result", "errno"}

AnyCall == LibraryCall \cup ConnectCall \cup {NoCall}

TlsTypeOK ==
  /\ at \in [Clients -> LibraryCall \cup {Outside}]
  /\ inner \in [Clients -> SUBSET InnerResource]
  /\ checks \in [Clients -> SUBSET AllChecks]
  /\ oldest \in [Clients -> LibraryCall \cup {NoCall}]
  /\ text \in [Clients -> [call : AnyCall, kind : TextKind]]
  /\ failed \in [Clients -> AnyCall]

(* What the library call works on, beside what connect_server_ssl holds. *)
InnerNeeded(call) ==
  CASE call \in {"EMBEDDED_CA_PEM", "BIO_new_mem_buf"} -> {"ctx"}
    [] call = "PEM_read_bio_X509" -> {"ctx", "bio"}
    [] call \in {"SSL_CTX_get_cert_store", "X509_STORE_add_cert"} ->
         {"ctx", "bio", "ca_certificate"}
    [] call \in {"SSL_get0_param", "X509_VERIFY_PARAM_set1_ip_asc",
                 "SSL_connect"} -> {"ssl"}
    [] OTHER -> {}

(* On whichever library call a wrapper fails, what it has acquired is      *)
(* freed, and until then nothing is freed that a later call works on.      *)
InnerHeldAsNeeded == \A c \in Clients : inner[c] = InnerNeeded(at[c])

(* No vote is entered, sent or answered over a session whose handshake did *)
(* not check the server's certificate against the embedded authority and   *)
(* the address the voter typed.                                            *)
SessionChecked ==
  \A c \in Clients :
    pc[c] \in InSession \/ at[c] = "SSL_connect" => checks[c] = AllChecks

(* The calls of init_client_ssl, and those of ssl_connect. *)
InitCalls == {"SSL_CTX_new", "EMBEDDED_CA_PEM", "BIO_new_mem_buf",
              "PEM_read_bio_X509", "SSL_CTX_get_cert_store",
              "X509_STORE_add_cert"}

ConnectCalls == {"SSL_new", "SSL_get0_param", "X509_VERIFY_PARAM_set1_ip_asc",
                 "SSL_connect"}

SameWrapper(a, b) ==
  {a, b} \subseteq InitCalls \/ {a, b} \subseteq ConnectCalls

(* The text main shows is about the call that failed: its branch's own, or *)
(* an error OpenSSL has queued since the wrapper of that call began, never *)
(* one that loading the authority has left behind. main's own text is      *)
(* shown after malloc alone, whose branch writes none: connect_error of    *)
(* VotingClient is what is in the buffer.                                  *)
TextAsTold ==
  \A c \in Clients : pc[c] = "connect_failed" =>
    /\ failed[c] = "malloc" <=> text[c] = Empty
    /\ connect_error[c] <=> text[c] # Empty
    /\ text[c] # Empty =>
         \/ text[c].call = failed[c]
         \/ text[c].kind = "openssl" /\ SameWrapper(text[c].call, failed[c])

(* The inductive invariant. TlsClientProofs proves it. *)
Placed ==
  \A c \in Clients :
    /\ at[c] # Outside => pc[c] \in Wrappers
    /\ at[c] \in LibraryCall =>
         (pc[c] = "init_client_ssl" <=> at[c] \in InitCalls)

ChecksSoFar ==
  \A c \in Clients :
    /\ pc[c] \in {"ssl_connect", "malloc"} \cup InSession =>
         {"authority", "verify_peer"} \subseteq checks[c]
    /\ at[c] = "SSL_connect" \/ pc[c] \in {"malloc"} \cup InSession =>
         "address" \in checks[c]

(* From here on the queue is no longer that of init_client_ssl alone. *)
Later ==
  {"ssl_connect", "malloc", "connect_failed"} \cup InSession \cup Ended

(* Nothing is in the buffer or, from an earlier wrapper, in the queue that *)
(* the next error branch could tell in its place.                          *)
TextSoFar ==
  \A c \in Clients :
    /\ pc[c] = "malloc" \/ at[c] # Outside => text[c] = Empty
    /\ pc[c] \notin Later => oldest[c] \in InitCalls \cup {NoCall}
    /\ at[c] \in ConnectCalls => oldest[c] \in ConnectCalls \cup {NoCall}

TlsInv ==
  /\ ClientInv /\ TlsTypeOK /\ Placed
  /\ InnerHeldAsNeeded /\ ChecksSoFar /\ TextSoFar /\ TextAsTold

=============================================================================
