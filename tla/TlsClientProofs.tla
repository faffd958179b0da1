--------------------------- MODULE TlsClientProofs ---------------------------
(* The theorems about the client and its TLS wrapper: what they acquire is *)
(* freed on every path, no session is used whose server was not checked,   *)
(* and the text main shows is that of the call that failed.                *)
EXTENDS TlsClient, TLAPS

-----------------------------------------------------------------------------
(* The client of VotingClient: it holds what its next call works on, and   *)
(* nothing when a connection could not be made.                            *)

LEMMA InvInit == Init => ClientInv
BY DEF Init, ClientInv, TypeOK, HeldAsNeeded, Needed, Pc, ConnectCall, AfterCall,
       InSession, Window

(* A call that succeeds leaves what the next call needs, one that fails    *)
(* leaves nothing.                                                         *)
LEMMA CallEffect ==
  ASSUME NEW call \in ConnectCall
  PROVE  /\ AfterCall[call] \in Pc
         /\ Needed(AfterCall[call]) = Needed(call) \cup Acquired(call)
         /\ Needed(call) \ Released(call) = {}
         /\ Acquired(call) \subseteq Resource
<1>1. /\ Needed("select") = {"socket"}
      /\ Needed("restore") = {"socket"}
      /\ Needed("show_voting_menu") = Resource
      /\ Needed("socket") = {}
  BY DEF Needed, InSession
<1>2. call \in {"socket", "inet_pton", "nonblock", "connect", "select",
                "getsockopt", "restore", "init_client_ssl", "ssl_connect", "malloc"}
  BY DEF ConnectCall, AfterCall
<1> QED
  BY <1>2 DEF AfterCall, Pc, ConnectCall, InSession, Needed, Acquired, Released,
              Resource

LEMMA InvStep == ClientInv /\ [Next]_clientVars => ClientInv'
<1> SUFFICES ASSUME ClientInv, [Next]_clientVars PROVE ClientInv'
  OBVIOUS
<1> USE DEF ClientInv
<1>1. ASSUME NEW c \in Clients, CallReturns(c) PROVE ClientInv'
  <2>1. pc[c] \in ConnectCall /\ held[c] = Needed(pc[c])
    BY <1>1 DEF CallReturns, HeldAsNeeded
  <2>2. TypeOK'
    BY <1>1, <2>1, CallEffect DEF CallReturns, Goto, TypeOK
  <2>3. HeldAsNeeded'
    BY <1>1, <2>1, CallEffect DEF CallReturns, Goto, TypeOK, HeldAsNeeded
  <2> QED
    BY <2>2, <2>3
<1>2. ASSUME NEW c \in Clients, CallFails(c) PROVE ClientInv'
  <2>1. pc[c] \in ConnectCall /\ held[c] = Needed(pc[c])
    BY <1>2 DEF CallFails, HeldAsNeeded
  <2>2. Needed("connect_failed") = {} /\ "connect_failed" \in Pc
    BY DEF Needed, Pc, InSession
  <2>3. TypeOK'
    BY <1>2, <2>2 DEF CallFails, Goto, TypeOK
  <2>4. HeldAsNeeded'
    BY <1>2, <2>1, <2>2, CallEffect DEF CallFails, Goto, TypeOK, HeldAsNeeded
  <2> QED
    BY <2>3, <2>4
<1>3. ASSUME NEW c \in Clients, ConnectsAtOnce(c) PROVE ClientInv'
  <2>1. /\ Needed("connect") = {"socket"} /\ Needed("restore") = {"socket"}
        /\ "restore" \in Pc
    BY DEF Needed, Pc, ConnectCall, AfterCall, InSession
  <2>2. pc[c] = "connect" /\ held[c] = Needed("restore")
    BY <1>3, <2>1 DEF ConnectsAtOnce, HeldAsNeeded
  <2>3. TypeOK'
    BY <1>3, <2>1 DEF ConnectsAtOnce, Goto, TypeOK
  <2>4. ASSUME NEW d \in Clients PROVE held'[d] = Needed(pc'[d])
    <3>1. CASE d = c
      BY <1>3, <2>2, <3>1 DEF ConnectsAtOnce, Goto, TypeOK
    <3>2. CASE d # c
      BY <1>3, <3>2 DEF ConnectsAtOnce, Goto, TypeOK, HeldAsNeeded
    <3> QED
      BY <3>1, <3>2
  <2>5. HeldAsNeeded'
    BY <2>4 DEF HeldAsNeeded
  <2> QED
    BY <2>3, <2>5
<1>4. ASSUME NEW c \in Clients,
             ShowLogin(c) \/ ShowConnectError(c) \/ CloseConnection(c) \/ Killed(c)
      PROVE  ClientInv'
  <2>1. /\ Needed("show_login") = {} /\ Needed("socket") = {}
        /\ Needed("connect_failed") = {}
        /\ Needed("exit") = {} /\ Needed("killed") = {}
        /\ "socket" \in Pc /\ "exit" \in Pc /\ "killed" \in Pc
    BY DEF Needed, Pc, ConnectCall, AfterCall, InSession, Ended
  <2>2. CASE ShowLogin(c)
    BY <2>1, <2>2 DEF ShowLogin, Goto, TypeOK, HeldAsNeeded
  <2>3. CASE ShowConnectError(c)
    BY <2>1, <2>3 DEF ShowConnectError, Show, Window, Goto, TypeOK, HeldAsNeeded
  <2>4. CASE CloseConnection(c)
    BY <2>1, <2>4 DEF CloseConnection, Goto, TypeOK, HeldAsNeeded
  <2>5. CASE Killed(c)
    BY <2>1, <2>5 DEF Killed, Goto, TypeOK, HeldAsNeeded
  <2> QED
    BY <1>4, <2>2, <2>3, <2>4, <2>5
<1>5. ASSUME NEW c \in Clients,
             \/ ShowVotingMenu(c) \/ SendVote(c) \/ ShowSendError(c)
             \/ \E r \in Responses : ShowReceipt(c, r)
      PROVE  ClientInv'
  <2>1. /\ Needed("show_voting_menu") = Resource /\ Needed("ssl_send") = Resource
        /\ Needed("ssl_recv") = Resource
        /\ Needed("close_ssl_connection") = Resource
        /\ "ssl_send" \in Pc /\ "ssl_recv" \in Pc /\ "close_ssl_connection" \in Pc
    BY DEF Needed, Pc, InSession
  <2>2. CASE ShowVotingMenu(c)
    BY <2>1, <2>2 DEF ShowVotingMenu, Goto, TypeOK, HeldAsNeeded
  <2>3. CASE SendVote(c)
    BY <2>1, <2>3 DEF SendVote, Goto, TypeOK, HeldAsNeeded
  <2>4. CASE ShowSendError(c)
    BY <2>1, <2>4 DEF ShowSendError, Show, Window, Goto, TypeOK, HeldAsNeeded
  <2>5. ASSUME NEW r \in Responses, ShowReceipt(c, r) PROVE ClientInv'
    BY <2>1, <2>5 DEF ShowReceipt, Show, Window, Goto, TypeOK, HeldAsNeeded
  <2> QED
    BY <1>5, <2>2, <2>3, <2>4, <2>5
<1>6. CASE UNCHANGED clientVars
  BY <1>6 DEF clientVars, TypeOK, HeldAsNeeded
<1> QED
  BY <1>1, <1>2, <1>3, <1>4, <1>5, <1>6 DEF Next, Run

(* connect_server_ssl, send_vote and close_ssl_connection: on every path,  *)
(* whatever call fails, the client holds exactly what the call it is about *)
(* to make works on, and has released everything when it gives up or ends. *)
THEOREM NothingLeaks == Spec => []ClientInv
<1> QED
  BY InvInit, InvStep, PTL DEF Spec

-----------------------------------------------------------------------------
(* The tables of calls. *)

LEMMA Names ==
  /\ LibraryCall = InitCalls \cup ConnectCalls
  /\ DOMAIN FollowingCall = LibraryCall \ LastCall
  /\ LastCall = {"X509_STORE_add_cert", "SSL_connect"}
  /\ Wrappers = {"init_client_ssl", "ssl_connect"}
  /\ Outside \notin LibraryCall
BY DEF LibraryCall, InitCalls, ConnectCalls, FollowingCall, LastCall, Wrappers,
       FirstCall, Outside

(* A call that returns leads to the next one of its wrapper, with what     *)
(* that one works on.                                                      *)
LEMMA Following ==
  ASSUME NEW call \in LibraryCall \ LastCall
  PROVE  /\ FollowingCall[call] \in LibraryCall
         /\ FollowingCall[call] \in InitCalls <=> call \in InitCalls
         /\ InnerNeeded(FollowingCall[call]) = InnerNeeded(call) \cup Gained(call)
         /\ FollowingCall[call] # "SSL_new"
         /\ FollowingCall[call] = "SSL_connect" => Sets(call) = {"address"}
         /\ Gained(call) \subseteq InnerResource /\ Sets(call) \subseteq AllChecks
<1>1. call \in {"SSL_CTX_new", "EMBEDDED_CA_PEM", "BIO_new_mem_buf",
                "PEM_read_bio_X509", "SSL_CTX_get_cert_store",
                "SSL_new", "SSL_get0_param", "X509_VERIFY_PARAM_set1_ip_asc"}
  BY Names DEF InitCalls, ConnectCalls, LastCall
<1> QED
  BY <1>1, Names DEF FollowingCall, InitCalls, ConnectCalls, InnerNeeded, Gained,
                     Sets, InnerResource, AllChecks

(* Every error branch frees all there is. *)
LEMMA FreesAll ==
  ASSUME NEW call \in LibraryCall
  PROVE  InnerNeeded(call) \ Freed(call) = {}
<1>1. call \in InitCalls \cup ConnectCalls
  BY Names
<1> QED
  BY <1>1 DEF InitCalls, ConnectCalls, InnerNeeded, Freed

LEMMA EmptyText == Empty \in [call : AnyCall, kind : TextKind]
BY DEF Empty, Text, AnyCall, TextKind

(* What a call may leave at the head of the queue: nothing, its own error  *)
(* or what was there.                                                      *)
LEMMA Queued ==
  ASSUME NEW call \in LibraryCall, NEW q \in LibraryCall \cup {NoCall},
         NEW r \in OldestAfter(call, q)
  PROVE  /\ r \in LibraryCall \cup {NoCall}
         /\ call \in InitCalls /\ q \in InitCalls \cup {NoCall} =>
              r \in InitCalls \cup {NoCall}
         /\ call \in ConnectCalls /\ q \in ConnectCalls \cup {NoCall} =>
              r \in ConnectCalls \cup {NoCall}
BY DEF OldestAfter

(* The text of an error branch is about the call that failed, or about the *)
(* one at the head of the queue.                                           *)
LEMMA Told ==
  ASSUME NEW call \in LibraryCall, NEW q \in LibraryCall \cup {NoCall},
         NEW t \in Reported(call, q)
  PROVE  /\ t \in [call : AnyCall, kind : TextKind] /\ t # Empty
         /\ t.call = call \/ (t.kind = "openssl" /\ t.call = q /\ q # NoCall)
<1>1. \/ t \in {Text(call, "fixed"), Text(call, "errno"), Text(call, "verify_result")}
      \/ q # NoCall /\ t = Text(q, "openssl")
  <2>1. CASE call = "SSL_connect"
    BY <2>1 DEF Reported
  <2>2. CASE call \in {"SSL_CTX_new", "BIO_new_mem_buf", "PEM_read_bio_X509",
                       "X509_STORE_add_cert", "SSL_new"}
    BY <2>2 DEF Reported
  <2>3. CASE call \notin {"SSL_connect", "SSL_CTX_new", "BIO_new_mem_buf",
                          "PEM_read_bio_X509", "X509_STORE_add_cert", "SSL_new"}
    BY <2>3 DEF Reported
  <2> QED
    BY <2>1, <2>2, <2>3
<1> QED
  BY <1>1 DEF Text, Empty, AnyCall, TextKind

-----------------------------------------------------------------------------
(* The invariant is about each run of the program by itself. *)

Calling(c) ==
  /\ at[c] # Outside => pc[c] \in Wrappers
  /\ at[c] \in LibraryCall => (pc[c] = "init_client_ssl" <=> at[c] \in InitCalls)
  /\ inner[c] = InnerNeeded(at[c])

Checking(c) ==
  /\ pc[c] \in {"ssl_connect", "malloc"} \cup InSession =>
       {"authority", "verify_peer"} \subseteq checks[c]
  /\ at[c] = "SSL_connect" \/ pc[c] \in {"malloc"} \cup InSession =>
       "address" \in checks[c]

Telling(c) ==
  /\ pc[c] = "malloc" \/ at[c] # Outside => text[c] = Empty
  /\ pc[c] \notin Later => oldest[c] \in InitCalls \cup {NoCall}
  /\ at[c] \in ConnectCalls => oldest[c] \in ConnectCalls \cup {NoCall}

(* What has been told of a connection that failed. *)
Truthful(c) ==
  pc[c] = "connect_failed" =>
    /\ failed[c] = "malloc" <=> text[c] = Empty
    /\ connect_error[c] <=> text[c] # Empty
    /\ text[c] # Empty =>
         \/ text[c].call = failed[c]
         \/ text[c].kind = "openssl" /\ SameWrapper(text[c].call, failed[c])

Local ==
  \A c \in Clients : Calling(c) /\ Checking(c) /\ Telling(c) /\ Truthful(c)

LEMMA InvIsLocal == TlsInv <=> ClientInv /\ TlsTypeOK /\ Local
BY DEF TlsInv, Local, Calling, Checking, Telling, Truthful, Placed,
       InnerHeldAsNeeded, ChecksSoFar, TextSoFar, TextAsTold

(* What a step of run c does to the others: nothing. *)
Apart(c) ==
  \A d \in Clients \ {c} :
    /\ pc'[d] = pc[d] /\ connect_error'[d] = connect_error[d]
    /\ at'[d] = at[d] /\ inner'[d] = inner[d] /\ checks'[d] = checks[d]
    /\ text'[d] = text[d] /\ oldest'[d] = oldest[d] /\ failed'[d] = failed[d]

LEMMA StepIsLocal ==
  ASSUME Local, NEW c \in Clients, Apart(c),
         Calling(c)', Checking(c)', Telling(c)', Truthful(c)'
  PROVE  Local'
<1> SUFFICES ASSUME NEW d \in Clients, d # c
             PROVE  (Calling(d) /\ Checking(d) /\ Telling(d) /\ Truthful(d))'
  BY DEF Local
<1>1. Calling(d) /\ Checking(d) /\ Telling(d) /\ Truthful(d)
  BY DEF Local
<1>2. /\ pc'[d] = pc[d] /\ connect_error'[d] = connect_error[d]
      /\ at'[d] = at[d] /\ inner'[d] = inner[d] /\ checks'[d] = checks[d]
      /\ text'[d] = text[d] /\ oldest'[d] = oldest[d] /\ failed'[d] = failed[d]
  BY DEF Apart
<1>3. Calling(d)'
  BY <1>1, <1>2 DEF Calling
<1>4. Checking(d)'
  BY <1>1, <1>2 DEF Checking
<1>5. Telling(d)' /\ Truthful(d)'
  BY <1>1, <1>2 DEF Telling, Truthful
<1> QED
  BY <1>3, <1>4, <1>5

(* Seen without the wrapper's calls, a step is one of VotingClient. *)
LEMMA ClientStep ==
  ASSUME NEW c \in Clients, TlsRun(c)
  PROVE  [Next]_clientVars
BY DEF TlsRun, EnterWrapper, LibraryCallReturns, WrapperReturns, WrapperFails,
       OwnCallReturns, OwnCallFails, MainStep, ProgramKilled, Next, Run

-----------------------------------------------------------------------------
(* The steps. *)

LEMMA EnterStep ==
  ASSUME TlsInv, NEW c \in Clients, EnterWrapper(c)
  PROVE  TlsTypeOK' /\ Local'
<1>1. ClientInv /\ TlsTypeOK /\ Local
  BY InvIsLocal
<1>2. Calling(c) /\ Checking(c) /\ Telling(c)
  BY <1>1 DEF Local
<1>3. /\ at'[c] = FirstCall[pc[c]] /\ text'[c] = Empty
      /\ pc' = pc /\ connect_error' = connect_error /\ failed' = failed
      /\ oldest'[c] = (IF pc[c] = "ssl_connect" THEN NoCall ELSE oldest[c])
      /\ inner' = inner /\ checks' = checks
      /\ at[c] = Outside /\ pc[c] \in Wrappers
  BY <1>1 DEF EnterWrapper, Proceed, Write, Queue, TlsTypeOK, clientVars
<1>4. pc[c] = "init_client_ssl" \/ pc[c] = "ssl_connect"
  BY <1>3, Names
<1>5. /\ at'[c] \in {"SSL_CTX_new", "SSL_new"}
      /\ pc[c] = "init_client_ssl" <=> at'[c] = "SSL_CTX_new"
  BY <1>3, <1>4 DEF FirstCall
<1>6. TlsTypeOK'
  <2>1. at'[c] \in LibraryCall
    BY <1>5, Names DEF InitCalls, ConnectCalls
  <2> QED
    BY <1>1, <1>3, <2>1, EmptyText DEF EnterWrapper, Proceed, Write, Queue, TlsTypeOK
<1>7. Apart(c)
  BY <1>1, <1>3 DEF EnterWrapper, Proceed, Write, Queue, TlsTypeOK, Apart
<1>8. Calling(c)'
  <2>1. InnerNeeded(at'[c]) = {} /\ InnerNeeded(Outside) = {}
    BY <1>5 DEF InnerNeeded, Outside
  <2>2. at'[c] \in InitCalls <=> at'[c] = "SSL_CTX_new"
    BY <1>5 DEF InitCalls
  <2> QED
    BY <1>2, <1>3, <1>5, <2>1, <2>2 DEF Calling
<1>9. Checking(c)'
  BY <1>2, <1>3, <1>5 DEF Checking
<1>10. Telling(c)' /\ Truthful(c)'
  <2>1. pc[c] # "connect_failed" /\ pc'[c] = pc[c]
    BY <1>3, <1>4
  <2>2. pc[c] \notin Later => pc[c] # "ssl_connect"
    BY DEF Later
  <2>3. at'[c] \in ConnectCalls => pc[c] = "ssl_connect"
    BY <1>4, <1>5 DEF ConnectCalls
  <2> QED
    BY <1>2, <1>3, <2>1, <2>2, <2>3 DEF Telling, Truthful
<1> QED
  BY <1>1, <1>6, <1>7, <1>8, <1>9, <1>10, StepIsLocal

LEMMA LibraryStep ==
  ASSUME TlsInv, NEW c \in Clients, LibraryCallReturns(c)
  PROVE  TlsTypeOK' /\ Local'
<1>1. ClientInv /\ TlsTypeOK /\ Local
  BY InvIsLocal
<1>2. Calling(c) /\ Checking(c) /\ Telling(c)
  BY <1>1 DEF Local
<1>3. at[c] \in LibraryCall \ LastCall
  BY Names DEF LibraryCallReturns
<1> PICK q \in OldestAfter(at[c], oldest[c]) : Queue(c, q)
  BY DEF LibraryCallReturns
<1>4. /\ at'[c] = FollowingCall[at[c]]
      /\ inner'[c] = inner[c] \cup Gained(at[c])
      /\ checks'[c] = checks[c] \cup Sets(at[c])
      /\ pc' = pc /\ connect_error' = connect_error /\ text' = text
      /\ failed' = failed /\ oldest'[c] = q
  BY <1>1 DEF LibraryCallReturns, Proceed, Queue, TlsTypeOK, clientVars
<1>5. TlsTypeOK'
  <2>1. q \in LibraryCall \cup {NoCall}
    BY <1>1, <1>3, Queued DEF TlsTypeOK
  <2> QED
    BY <1>1, <1>3, <1>4, <2>1, Following DEF LibraryCallReturns, Proceed, Queue, TlsTypeOK
<1>6. Apart(c)
  BY <1>1, <1>4 DEF LibraryCallReturns, Proceed, Queue, TlsTypeOK, Apart
<1>7. at[c] # Outside /\ at'[c] \in LibraryCall /\ at'[c] # Outside
  BY <1>3, <1>4, Following, Names
<1>8. Calling(c)'
  BY <1>2, <1>3, <1>4, <1>7, Following DEF Calling
<1>9. Checking(c)'
  BY <1>2, <1>3, <1>4, Following DEF Checking
<1>10. Telling(c)' /\ Truthful(c)'
  <2>1. pc[c] # "connect_failed" /\ pc'[c] = pc[c]
    BY <1>2, <1>4, <1>7, Names DEF Calling
  <2>2. at[c] \in InitCalls \/ at[c] \in ConnectCalls
    BY <1>3, Names
  <2>3. pc[c] \notin Later => at[c] \in InitCalls
    BY <1>2, <1>3, <1>7, Names DEF Calling, Later
  <2>4. at'[c] \in ConnectCalls => at[c] \in ConnectCalls
    BY <1>3, <1>4, <2>2, Following, Names DEF InitCalls, ConnectCalls
  <2>5. oldest[c] \in LibraryCall \cup {NoCall}
    BY <1>1 DEF TlsTypeOK
  <2>6. pc'[c] \notin Later => oldest'[c] \in InitCalls \cup {NoCall}
    BY <1>2, <1>3, <1>4, <2>1, <2>3, <2>5, Queued DEF Telling
  <2>7. at'[c] \in ConnectCalls => oldest'[c] \in ConnectCalls \cup {NoCall}
    BY <1>2, <1>3, <1>4, <2>4, <2>5, Queued DEF Telling
  <2>8. text'[c] = Empty
    BY <1>2, <1>4, <1>7 DEF Telling
  <2> QED
    BY <2>1, <2>6, <2>7, <2>8 DEF Telling, Truthful
<1> QED
  BY <1>1, <1>5, <1>6, <1>8, <1>9, <1>10, StepIsLocal

(* What the names of the calls say of where a run is. *)
LEMMA Places ==
  /\ "connect_failed" \notin {"ssl_connect", "malloc"} \cup InSession
  /\ "killed" \notin {"ssl_connect", "malloc"} \cup InSession
  /\ Wrappers \cap InSession = {} /\ "malloc" \notin InSession
  /\ InnerNeeded(Outside) = {}
  /\ Acquired("init_client_ssl") = {"ctx"} /\ Acquired("ssl_connect") = {"ssl"}
  /\ AfterCall["init_client_ssl"] = "ssl_connect"
  /\ AfterCall["ssl_connect"] = "malloc"
BY Names DEF InSession, InnerNeeded, Outside, Acquired, AfterCall

LEMMA ReturnsStep ==
  ASSUME TlsInv, NEW c \in Clients, WrapperReturns(c)
  PROVE  TlsTypeOK' /\ Local'
<1>1. ClientInv /\ TlsTypeOK /\ Local
  BY InvIsLocal
<1>2. Calling(c) /\ Checking(c) /\ Telling(c)
  BY <1>1 DEF Local
<1> PICK q \in OldestAfter(at[c], oldest[c]) : Queue(c, q)
  BY DEF WrapperReturns
<1>3. /\ at'[c] = Outside
      /\ inner'[c] = inner[c] \ ({"ca_certificate", "bio"} \cup Acquired(pc[c]))
      /\ checks'[c] = checks[c] \cup Sets(at[c])
      /\ pc'[c] = AfterCall[pc[c]]
      /\ connect_error' = connect_error /\ text' = text /\ failed' = failed
      /\ oldest'[c] = q /\ at[c] \in LastCall
  BY <1>1 DEF WrapperReturns, Proceed, Queue, TlsTypeOK, CallReturns, Goto, ClientInv, TypeOK
<1>4. TlsTypeOK'
  <2>1. Sets(at[c]) \subseteq AllChecks
    BY <1>3, Names DEF Sets, AllChecks
  <2>2. q \in LibraryCall \cup {NoCall}
    <3>1. at[c] \in LibraryCall /\ oldest[c] \in LibraryCall \cup {NoCall}
      BY <1>1, <1>3 DEF TlsTypeOK, LibraryCall
    <3> QED
      BY <3>1, Queued
  <2> QED
    BY <1>1, <1>3, <2>1, <2>2 DEF WrapperReturns, Proceed, Queue, TlsTypeOK
<1>5. Apart(c)
  BY <1>1, <1>3 DEF WrapperReturns, Proceed, Queue, CallReturns, Goto, TlsTypeOK,
                    ClientInv, TypeOK, Apart
<1>6. \/ at[c] = "X509_STORE_add_cert" /\ pc[c] = "init_client_ssl"
      \/ at[c] = "SSL_connect" /\ pc[c] = "ssl_connect"
  BY <1>2, <1>3, Names DEF Calling, InitCalls, ConnectCalls
<1>7. /\ at[c] # Outside /\ Outside \notin LibraryCall /\ Outside # "SSL_connect"
  BY <1>3, Names DEF InitCalls, ConnectCalls
<1>8. inner'[c] = {}
  <2>1. CASE at[c] = "X509_STORE_add_cert" /\ pc[c] = "init_client_ssl"
    BY <1>2, <1>3, <2>1, Places DEF Calling, InnerNeeded
  <2>2. CASE at[c] = "SSL_connect" /\ pc[c] = "ssl_connect"
    BY <1>2, <1>3, <2>2, Places DEF Calling, InnerNeeded
  <2> QED
    BY <1>6, <2>1, <2>2
<1>9. Calling(c)'
  BY <1>3, <1>7, <1>8, Places DEF Calling
<1>10. Checking(c)'
  <2>1. CASE at[c] = "X509_STORE_add_cert" /\ pc[c] = "init_client_ssl"
    <3>1. pc'[c] = "ssl_connect" /\ {"authority", "verify_peer"} \subseteq checks'[c]
      BY <1>3, <2>1, Places DEF Sets
    <3> QED
      BY <1>3, <1>7, <3>1, Places, Names DEF Checking
  <2>2. CASE at[c] = "SSL_connect" /\ pc[c] = "ssl_connect"
    <3>1. {"authority", "verify_peer", "address"} \subseteq checks'[c]
      BY <1>2, <1>3, <2>2 DEF Checking
    <3> QED
      BY <3>1 DEF Checking
  <2> QED
    BY <1>6, <2>1, <2>2
<1>11. Telling(c)' /\ Truthful(c)'
  <2>1. pc'[c] # "connect_failed" /\ pc'[c] \in Later
    BY <1>3, <1>6, Places DEF Later
  <2>2. at'[c] \notin ConnectCalls
    BY <1>3, <1>7, Names
  <2> QED
    BY <1>2, <1>3, <1>7, <2>1, <2>2 DEF Telling, Truthful
<1> QED
  BY <1>1, <1>4, <1>5, <1>9, <1>10, <1>11, StepIsLocal

LEMMA FailsStep ==
  ASSUME TlsInv, NEW c \in Clients, WrapperFails(c)
  PROVE  TlsTypeOK' /\ Local'
<1>1. ClientInv /\ TlsTypeOK /\ Local
  BY InvIsLocal
<1>2. Calling(c) /\ Checking(c) /\ Telling(c)
  BY <1>1 DEF Local
<1> PICK q \in OldestAfter(at[c], oldest[c]) :
        Queue(c, q) /\ \E t \in Reported(at[c], q) : Write(c, t)
  BY DEF WrapperFails
<1>3. PICK t \in Reported(at[c], q) : Write(c, t)
  OBVIOUS
<1>4. /\ at[c] \in LibraryCall
      /\ at'[c] = Outside /\ inner'[c] = inner[c] \ Freed(at[c])
      /\ checks' = checks /\ pc'[c] = "connect_failed"
      /\ text'[c] = t /\ failed'[c] = at[c] /\ oldest'[c] = q
  BY <1>1, <1>3 DEF WrapperFails, Proceed, Write, Queue, FailedAt, TlsTypeOK,
                    CallFails, Goto, ClientInv, TypeOK
<1>5. connect_error'[c] = (pc[c] # "malloc")
  BY <1>1 DEF WrapperFails, CallFails, ClientInv, TypeOK
<1>6. /\ q \in LibraryCall \cup {NoCall}
      /\ t \in [call : AnyCall, kind : TextKind] /\ t # Empty
      /\ t.call = at[c] \/ (t.kind = "openssl" /\ t.call = q /\ q # NoCall)
  <2>1. oldest[c] \in LibraryCall \cup {NoCall}
    BY <1>1 DEF TlsTypeOK
  <2>2. q \in LibraryCall \cup {NoCall}
    BY <1>3, <1>4, <2>1, Queued
  <2> QED
    BY <1>3, <1>4, <2>2, Told
<1>7. TlsTypeOK'
  BY <1>1, <1>3, <1>4, <1>6 DEF WrapperFails, Proceed, Write, Queue, FailedAt,
                                TlsTypeOK, AnyCall
<1>8. Apart(c)
  BY <1>1, <1>3 DEF WrapperFails, Proceed, Write, Queue, FailedAt, CallFails, Goto,
                    TlsTypeOK, ClientInv, TypeOK, Apart
<1>9. Outside # "SSL_connect" /\ Outside \notin LibraryCall /\ at[c] # Outside
  BY <1>4, Names DEF ConnectCalls
<1>10. Calling(c)'
  BY <1>2, <1>4, <1>9, FreesAll, Places DEF Calling
<1>11. Checking(c)'
  BY <1>4, <1>9, Places DEF Checking
<1>12. Telling(c)'
  <2>1. at'[c] \notin ConnectCalls /\ pc'[c] \in Later /\ pc'[c] # "malloc"
    BY <1>4, <1>9, Names DEF Later
  <2> QED
    BY <1>4, <2>1 DEF Telling
<1>13. Truthful(c)'
  <2>1. pc[c] # "malloc" /\ at[c] # "malloc"
    BY <1>2, <1>4, <1>9, Names DEF Calling, InitCalls, ConnectCalls
  <2>2. t.call = at[c] \/ (t.kind = "openssl" /\ SameWrapper(t.call, at[c]))
    <3>1. CASE at[c] \in InitCalls
      <4>1. pc[c] = "init_client_ssl"
        BY <1>2, <1>4, <3>1 DEF Calling
      <4>2. oldest[c] \in InitCalls \cup {NoCall}
        BY <1>2, <4>1 DEF Telling, Later, InSession, Ended
      <4>3. q \in InitCalls \cup {NoCall}
        BY <1>1, <1>3, <1>4, <3>1, <4>2, Queued DEF TlsTypeOK
      <4> QED
        BY <1>6, <3>1, <4>3 DEF SameWrapper
    <3>2. CASE at[c] \in ConnectCalls
      <4>1. oldest[c] \in ConnectCalls \cup {NoCall}
        BY <1>2, <3>2 DEF Telling
      <4>2. q \in ConnectCalls \cup {NoCall}
        BY <1>1, <1>3, <1>4, <3>2, <4>1, Queued DEF TlsTypeOK
      <4> QED
        BY <1>6, <3>2, <4>2 DEF SameWrapper
    <3> QED
      BY <1>4, <3>1, <3>2, Names
  <2> QED
    BY <1>4, <1>5, <1>6, <2>1, <2>2 DEF Truthful
<1> QED
  BY <1>1, <1>7, <1>8, <1>10, <1>11, <1>12, <1>13, StepIsLocal

(* Outside the wrappers at, inner and checks do not change. *)
LEMMA OutsideStep ==
  ASSUME TlsInv, NEW c \in Clients, pc[c] \notin Wrappers,
         UNCHANGED <<at, inner, checks, oldest>>,
         NEW p, pc' = [pc EXCEPT ![c] = p],
         p \in {"ssl_connect", "malloc"} => pc[c] \in {"ssl_connect", "malloc"},
         p \in InSession => pc[c] \in {"malloc"} \cup InSession,
         p \notin Later => pc[c] \notin Later
  PROVE  /\ at[c] = Outside
         /\ Calling(c)' /\ Checking(c)'
         /\ (p = "malloc" => text'[c] = Empty) => Telling(c)'
<1>1. ClientInv /\ TlsTypeOK /\ Local
  BY InvIsLocal
<1>2. Calling(c) /\ Checking(c) /\ Telling(c)
  BY <1>1 DEF Local
<1>3. at[c] = Outside
  BY <1>2 DEF Calling
<1>4. /\ pc'[c] = p /\ at'[c] = Outside /\ inner'[c] = inner[c] /\ checks'[c] = checks[c]
      /\ oldest'[c] = oldest[c]
  BY <1>1, <1>3 DEF ClientInv, TypeOK
<1>5. Outside \notin LibraryCall /\ Outside # "SSL_connect"
  BY Names DEF ConnectCalls
<1>6. Calling(c)'
  BY <1>2, <1>3, <1>4, <1>5 DEF Calling
<1>7. Checking(c)'
  <2>1. p = "malloc" => pc[c] = "malloc"
    BY Names
  <2> QED
    BY <1>2, <1>4, <1>5, <2>1 DEF Checking
<1>8. (p = "malloc" => text'[c] = Empty) => Telling(c)'
  BY <1>2, <1>4, <1>5, Names DEF Telling
<1> QED
  BY <1>3, <1>6, <1>7, <1>8

LEMMA OwnReturnsStep ==
  ASSUME TlsInv, NEW c \in Clients, OwnCallReturns(c)
  PROVE  TlsTypeOK' /\ Local'
<1>1. ClientInv /\ TlsTypeOK /\ Local
  BY InvIsLocal
<1>2. Telling(c)
  BY <1>1 DEF Local
<1>3. PICK p : /\ pc' = [pc EXCEPT ![c] = p]
               /\ p = AfterCall[pc[c]] \/ (p = "restore" /\ pc[c] = "connect")
  BY DEF OwnCallReturns, CallReturns, ConnectsAtOnce, Goto
<1>4. /\ UNCHANGED <<tls, connect_error>> /\ pc[c] \notin Wrappers
      /\ pc[c] \in ConnectCall
  BY DEF OwnCallReturns, CallReturns, ConnectsAtOnce, ConnectCall, AfterCall
<1>5. /\ p \notin {"ssl_connect", "malloc", "connect_failed"}
      /\ p \in InSession => pc[c] = "malloc"
      /\ p \notin Later => pc[c] \notin Later
  <2>1. pc[c] \in {"socket", "inet_pton", "nonblock", "connect", "select",
                   "getsockopt", "restore", "malloc"}
    BY <1>4, Names DEF ConnectCall, AfterCall
  <2>2. pc[c] # "malloc" =>
          p \in {"inet_pton", "nonblock", "connect", "select", "getsockopt",
                "restore", "init_client_ssl"}
    BY <1>3, <2>1 DEF AfterCall
  <2>3. pc[c] = "malloc" => p = "show_voting_menu"
    BY <1>3 DEF AfterCall
  <2> QED
    BY <2>1, <2>2, <2>3 DEF InSession, Later, Ended
<1>6. at[c] = Outside /\ Calling(c)' /\ Checking(c)' /\ Telling(c)'
  BY <1>3, <1>4, <1>5, OutsideStep DEF tls
<1>7. Truthful(c)'
  BY <1>1, <1>3, <1>5 DEF Truthful, ClientInv, TypeOK
<1>8. TlsTypeOK' /\ Apart(c)
  BY <1>1, <1>3, <1>4 DEF TlsTypeOK, Apart, tls, ClientInv, TypeOK
<1> QED
  BY <1>1, <1>6, <1>7, <1>8, StepIsLocal

LEMMA OwnFailsStep ==
  ASSUME TlsInv, NEW c \in Clients, OwnCallFails(c)
  PROVE  TlsTypeOK' /\ Local'
<1>1. ClientInv /\ TlsTypeOK /\ Local
  BY InvIsLocal
<1>2. Telling(c)
  BY <1>1 DEF Local
<1>3. /\ pc' = [pc EXCEPT ![c] = "connect_failed"]
      /\ UNCHANGED <<at, inner, checks, oldest>> /\ pc[c] \notin Wrappers
      /\ pc[c] \in ConnectCall /\ FailedAt(c, pc[c])
      /\ IF pc[c] = "malloc" THEN UNCHANGED text ELSE Write(c, Text(pc[c], "fixed"))
  BY DEF OwnCallFails, CallFails, Goto
<1>4. connect_error' = [connect_error EXCEPT ![c] = pc[c] # "malloc"]
  BY DEF OwnCallFails, CallFails
<1>5. at[c] = Outside /\ Calling(c)' /\ Checking(c)' /\ Telling(c)'
  <2>1. "connect_failed" \in Later
    BY DEF Later
  <2> QED
    BY <1>3, <2>1, Places, OutsideStep
<1>6. TlsTypeOK'
  BY <1>1, <1>3 DEF TlsTypeOK, Write, FailedAt, Text, AnyCall, TextKind
<1>7. Apart(c)
  BY <1>1, <1>3, <1>4 DEF TlsTypeOK, Write, FailedAt, Apart, ClientInv, TypeOK
<1>8. Truthful(c)'
  <2>1. pc'[c] = "connect_failed" /\ at'[c] = Outside
    BY <1>1, <1>3, <1>5 DEF ClientInv, TypeOK
  <2>0. failed'[c] = pc[c]
    BY <1>1, <1>3 DEF FailedAt, TlsTypeOK
  <2>2. connect_error'[c] = (pc[c] # "malloc")
    BY <1>1, <1>4 DEF ClientInv, TypeOK
  <2>3. CASE pc[c] = "malloc"
    BY <1>2, <1>3, <2>0, <2>1, <2>2, <2>3 DEF Telling, Truthful
  <2>4. CASE pc[c] # "malloc"
    <3>1. text'[c] = Text(pc[c], "fixed")
      BY <1>1, <1>3, <2>4 DEF Write, TlsTypeOK
    <3>2. text'[c] # Empty /\ text'[c].call = pc[c]
      BY <3>1 DEF Text, Empty
    <3> QED
      BY <2>0, <2>1, <2>2, <2>4, <3>2 DEF Truthful
  <2> QED
    BY <2>3, <2>4
<1> QED
  BY <1>1, <1>5, <1>6, <1>7, <1>8, StepIsLocal

LEMMA MainSteps ==
  ASSUME TlsInv, NEW c \in Clients, MainStep(c)
  PROVE  TlsTypeOK' /\ Local'
<1>1. ClientInv /\ TlsTypeOK /\ Local
  BY InvIsLocal
<1>2. UNCHANGED <<tls, connect_error>> /\ pc[c] \notin Wrappers
  BY Names DEF MainStep, ShowLogin, ShowConnectError, ShowVotingMenu, SendVote,
       ShowReceipt, ShowSendError, CloseConnection
<1>3. PICK p : /\ pc' = [pc EXCEPT ![c] = p]
               /\ \/ p = "socket" /\ pc[c] = "show_login"
                  \/ p = "exit"
                  \/ p \in InSession /\ pc[c] \in InSession
  BY DEF MainStep, ShowLogin, ShowConnectError, ShowVotingMenu, SendVote,
       ShowReceipt, ShowSendError, CloseConnection, Goto, InSession
<1>4. /\ p \notin {"ssl_connect", "malloc", "connect_failed"}
      /\ p = "socket" => pc[c] = "show_login"
  BY <1>3 DEF InSession
<1>5. /\ p \in InSession => pc[c] \in InSession
      /\ p \notin Later => pc[c] \notin Later
  BY <1>3, <1>4 DEF InSession, Later, Ended
<1>6. at[c] = Outside /\ Calling(c)' /\ Checking(c)' /\ Telling(c)'
  BY <1>2, <1>3, <1>4, <1>5, OutsideStep DEF tls
<1>7. Truthful(c)'
  BY <1>1, <1>3, <1>4 DEF Truthful, ClientInv, TypeOK
<1>8. TlsTypeOK' /\ Apart(c)
  BY <1>1, <1>2, <1>3 DEF TlsTypeOK, Apart, tls, ClientInv, TypeOK
<1> QED
  BY <1>1, <1>6, <1>7, <1>8, StepIsLocal

LEMMA KilledStep ==
  ASSUME TlsInv, NEW c \in Clients, ProgramKilled(c)
  PROVE  TlsTypeOK' /\ Local'
<1>1. ClientInv /\ TlsTypeOK /\ Local
  BY InvIsLocal
<1>2. /\ pc' = [pc EXCEPT ![c] = "killed"] /\ at' = [at EXCEPT ![c] = Outside]
      /\ inner' = [inner EXCEPT ![c] = {}]
      /\ UNCHANGED <<checks, oldest, text, failed, connect_error>>
  BY DEF ProgramKilled, Killed, Proceed, Goto
<1>3. pc'[c] = "killed" /\ at'[c] = Outside /\ inner'[c] = {}
  BY <1>1, <1>2 DEF TlsTypeOK, ClientInv, TypeOK
<1>4. TlsTypeOK' /\ Apart(c)
  BY <1>1, <1>2 DEF TlsTypeOK, Apart, ClientInv, TypeOK
<1>5. Outside \notin LibraryCall /\ Outside # "SSL_connect"
  BY Names DEF ConnectCalls
<1>6. Calling(c)' /\ Checking(c)' /\ Telling(c)' /\ Truthful(c)'
  <2>1. "killed" \in Later /\ Outside \notin ConnectCalls
    BY <1>5, Names DEF Later, Ended
  <2> QED
    BY <1>3, <1>5, <2>1, Places DEF Calling, Checking, Telling, Truthful
<1> QED
  BY <1>1, <1>4, <1>6, StepIsLocal

-----------------------------------------------------------------------------
(* The theorems. *)

LEMMA TlsInvInit == TlsInit => TlsInv
<1> SUFFICES ASSUME TlsInit PROVE TlsInv
  OBVIOUS
<1>1. ClientInv
  BY InvInit DEF TlsInit
<1>2. TlsTypeOK
  BY EmptyText DEF TlsInit, TlsTypeOK, AnyCall
<1>3. Outside \notin LibraryCall /\ Outside # "SSL_connect"
  BY Names DEF ConnectCalls
<1>4. \A c \in Clients : pc[c] = "show_login"
  BY DEF TlsInit, Init
<1>5. "show_login" \notin {"ssl_connect", "malloc", "connect_failed"} \cup InSession
  BY DEF InSession
<1>6. Local
  <2>1. Outside \notin ConnectCalls
    BY <1>3, Names
  <2> QED
    BY <1>3, <1>4, <1>5, <2>1, Places
       DEF Local, Calling, Checking, Telling, Truthful, TlsInit
<1> QED
  BY <1>1, <1>2, <1>6, InvIsLocal

LEMMA TlsInvStep == TlsInv /\ [TlsNext]_tlsVars => TlsInv'
<1> SUFFICES ASSUME TlsInv, [TlsNext]_tlsVars PROVE TlsInv'
  OBVIOUS
<1>1. ASSUME NEW c \in Clients, TlsRun(c) PROVE TlsInv'
  <2>1. ClientInv'
    BY <1>1, ClientStep, InvStep, InvIsLocal
  <2>2. TlsTypeOK' /\ Local'
    BY <1>1, EnterStep, LibraryStep, ReturnsStep, FailsStep, OwnReturnsStep,
       OwnFailsStep, MainSteps, KilledStep DEF TlsRun
  <2>3. (ClientInv /\ TlsTypeOK /\ Local => TlsInv)'
    BY InvIsLocal, PTL
  <2> QED
    BY <2>1, <2>2, <2>3
<1>2. CASE UNCHANGED tlsVars
  <2>1. ClientInv'
    BY <1>2, InvStep, InvIsLocal DEF tlsVars
  <2>2. TlsTypeOK' /\ Local'
    BY <1>2, InvIsLocal DEF tlsVars, tls, clientVars, TlsTypeOK, Local, Calling,
                            Checking, Telling, Truthful
  <2>3. (ClientInv /\ TlsTypeOK /\ Local => TlsInv)'
    BY InvIsLocal, PTL
  <2> QED
    BY <2>1, <2>2, <2>3
<1> QED
  BY <1>1, <1>2 DEF TlsNext

(* init_client_ssl and ssl_connect call by call: where the program is, the *)
(* library objects it has, the checks set so far and the text in the       *)
(* buffer belong together.                                                 *)
THEOREM TlsInvariance == TlsSpec => []TlsInv
BY TlsInvInit, TlsInvStep, PTL DEF TlsSpec

(* Whichever library call fails, in load_embedded_ca or after it, the      *)
(* context, the BIO, the certificate and the session are freed, each once, *)
(* and none before the last call that uses it.                             *)
THEOREM InnerFreed == TlsSpec => []InnerHeldAsNeeded
<1>1. TlsInv => InnerHeldAsNeeded
  BY DEF TlsInv
<1> QED
  BY <1>1, TlsInvariance, PTL

(* A vote is entered and sent only over a session whose handshake checked  *)
(* the certificate of the server, its signer and its address.              *)
THEOREM CheckedSessions == TlsSpec => []SessionChecked
<1>1. TlsInv => SessionChecked
  <2> SUFFICES ASSUME TlsInv, NEW c \in Clients,
                      pc[c] \in InSession \/ at[c] = "SSL_connect"
               PROVE  checks[c] = AllChecks
    BY DEF SessionChecked
  <2>1. Calling(c) /\ Checking(c) /\ checks[c] \subseteq AllChecks
    BY InvIsLocal DEF Local, TlsTypeOK
  <2>2. at[c] = "SSL_connect" => pc[c] = "ssl_connect"
    BY <2>1, Names DEF Calling, InitCalls, ConnectCalls
  <2> QED
    BY <2>1, <2>2 DEF Checking, AllChecks
<1> QED
  BY <1>1, TlsInvariance, PTL

(* The text main shows after a failed connection is about the call that    *)
(* failed: its branch's own, or an OpenSSL error queued since the wrapper  *)
(* of that call began. main's own text is shown for a failed malloc alone. *)
THEOREM TextTold == TlsSpec => []TextAsTold
<1>1. TlsInv => TextAsTold
  BY DEF TlsInv
<1> QED
  BY <1>1, TlsInvariance, PTL

(* The detailed wrapper keeps what VotingClient says of the whole client:  *)
(* it holds what its next call works on.                                   *)
THEOREM ClientHolds == TlsSpec => []ClientInv
<1>1. TlsInv => ClientInv
  BY DEF TlsInv
<1> QED
  BY <1>1, TlsInvariance, PTL

(* The wrapper's calls implement the two calls VotingClient takes them     *)
(* for: a library call before the last changes nothing main can see.       *)
THEOREM WrapperImplements == TlsSpec => Spec
<1>1. TlsInit => Init
  BY DEF TlsInit
<1>2. [TlsNext]_tlsVars => [Next]_clientVars
  <2>1. ASSUME NEW c \in Clients, TlsRun(c) PROVE [Next]_clientVars
    BY <2>1, ClientStep
  <2>2. UNCHANGED tlsVars => UNCHANGED clientVars
    BY DEF tlsVars
  <2> QED
    BY <2>1, <2>2 DEF TlsNext
<1> QED
  BY <1>1, <1>2, PTL DEF TlsSpec, Spec

=============================================================================
