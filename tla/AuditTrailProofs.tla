--------------------------- MODULE AuditTrailProofs ---------------------------
(* The theorems about the server with what it holds and what it writes in  *)
(* its log: for any number of connections, at any step of the set-up, the  *)
(* accept loop and the threads, and over ends and restarts of the process. *)
(* First the resources, then the log: writing it holds up no thread in a   *)
(* way that changes what the server and its threads hold, and what can be  *)
(* read in the files is what the threads did.                              *)
EXTENDS AuditTrail, ServerSocketProofs, SequenceTheorems, WellFoundedInduction

-----------------------------------------------------------------------------
(* What the server holds: the theorems about ServerResources. *)

(* A step with resources is a step of the server, or changes nothing of it. *)
LEMMA ServerStepOf ==
  ASSUME [ResourceNext]_resourceVars
  PROVE  [Next]_vars
<1>1. CASE UNCHANGED resourceVars
  BY <1>1 DEF resourceVars
<1>2. CASE ResourceNext
  <2>1. ASSUME StartProcess \/ SetupCallReturns \/ SetupEnds \/ SetupFails \/ ProcessGone
        PROVE  [Next]_vars
    BY <2>1 DEF StartProcess, SetupCallReturns, SetupEnds, SetupFails, ProcessGone, Next
  <2>2. ASSUME TurnAwayCloses \/ AllocateArgs \/ HandOver \/ NoThread
        PROVE  Next
    BY <2>2 DEF TurnAwayCloses, AllocateArgs, HandOver, NoThread, Next, AcceptLoop
  <2>3. ASSUME NEW c \in Conns,
               \/ AcceptHolds(c) \/ TakeArgs(c) \/ SslNew(c) \/ SslAcceptFails(c)
               \/ SslAccept(c) \/ CleanupReleases(c)
        PROVE  [Next]_vars
    BY <2>3 DEF AcceptHolds, TakeArgs, SslNew, SslAcceptFails, SslAccept,
                CleanupReleases, Next, AcceptLoop, HandleClient
  <2>4. ASSUME OtherStep PROVE Next
    BY <2>4 DEF OtherStep, Next, AcceptLoop
  <2> QED
    BY <1>2, <2>1, <2>2, <2>3, <2>4 DEF ResourceNext
<1> QED
  BY <1>1, <1>2

(* The set-up call by call. *)
SetupCalls ==
  {"SSL_CTX_new", "resolve_cert", "use_certificate", "resolve_key",
   "use_PrivateKey", "check_private_key", "socket", "bind", "listen"}

LEMMA SetupNames ==
  /\ SetupCall = SetupCalls /\ NoCall \notin SetupCall
  /\ DOMAIN SetupOrder = SetupCalls \ {"listen"}
BY DEF SetupCall, SetupOrder, SetupCalls, NoCall

LEMMA SetupAdvances ==
  ASSUME NEW call \in DOMAIN SetupOrder
  PROVE  /\ SetupOrder[call] \in SetupCall
         /\ NeededToSetUp(SetupOrder[call]) = NeededToSetUp(call) \cup SetupGains(call)
         /\ NeededToSetUp(SetupOrder[call]) \subseteq {"ctx", "listener"}
<1>1. call \in SetupCalls \ {"listen"}
  BY SetupNames
<1> QED
  BY <1>1, SetupNames DEF SetupCalls, SetupOrder, NeededToSetUp, SetupGains, NoCall

LEMMA SetupClears ==
  ASSUME NEW call \in SetupCall
  PROVE  NeededToSetUp(call) \ SetupFrees(call) = {}
<1>1. call \in SetupCalls
  BY SetupNames
<1> QED
  BY <1>1 DEF SetupCalls, NeededToSetUp, SetupFrees, NoCall

-----------------------------------------------------------------------------
(* The invariant is about each connection, and about the service.          *)

Kept(c) ==
  /\ held[c] = NeededBy(c)
  /\ handler[c] = "ssl_accept" <=> greeting[c] # NoCall
  /\ handler[c] = "accepted" => acceptor \in Listening \ {"accept"} /\ client_socket = c

ServiceKept ==
  /\ ServiceHolds
  /\ acceptor = "boot" <=> booting \in SetupCall

LEMMA InvParts ==
  ResourceInv <=> ResourceTypeOK /\ ServiceKept /\ \A c \in Conns : Kept(c)
BY DEF ResourceInv, ServiceKept, Kept, ConnectionHolds, OneInHand

LEMMA InvFromParts ==
  (ResourceTypeOK /\ ServiceKept /\ (\A c \in Conns : Kept(c)) => ResourceInv)'
BY InvParts, PTL

(* A step does nothing with connection d. *)
Untouched(d) ==
  /\ handler'[d] = handler[d] /\ held'[d] = held[d] /\ greeting'[d] = greeting[d]
  /\ handler[d] # "accepted" \/ UNCHANGED <<acceptor, client_socket>>

LEMMA UntouchedKept ==
  ASSUME NEW d \in Conns, Kept(d), Untouched(d)
  PROVE  Kept(d)'
<1>1. CASE handler[d] = "accepted"
  BY <1>1 DEF Kept, Untouched, NeededBy, NeededInHand
<1>2. CASE handler[d] # "accepted"
  BY <1>2 DEF Kept, Untouched, NeededBy
<1> QED
  BY <1>1, <1>2

(* Only the connection in its hand is where the accept loop has put it. *)
LEMMA OthersNotInHand ==
  ASSUME IInv, ResourceInv
  PROVE  /\ acceptor \in {"down", "boot", "stopped", "accept"} =>
              \A d \in Conns : handler[d] # "accepted"
         /\ acceptor \notin {"down", "boot", "stopped", "accept"} =>
              /\ client_socket \in Conns /\ handler[client_socket] = "accepted"
              /\ \A d \in Conns \ {client_socket} : handler[d] # "accepted"
<1>1. OneInHand /\ InHand /\ acceptor \in AcceptorPc
  BY DEF IInv, TypeOK, ResourceInv
<1> QED
  BY <1>1 DEF OneInHand, InHand, Listening, AcceptorPc

(* Before the server listens and after the process no connection is up. *)
LEMMA QuietNeedsNothing ==
  ASSUME IInv, ResourceInv, acceptor \notin Listening
  PROVE  \A d \in Conns : /\ handler[d] \in {"idle", "refused", "done", "gone"}
                          /\ held[d] = {} /\ greeting[d] = NoCall
<1> SUFFICES ASSUME NEW d \in Conns
             PROVE  /\ handler[d] \in {"idle", "refused", "done", "gone"}
                    /\ held[d] = {} /\ greeting[d] = NoCall
  OBVIOUS
<1>1. handler[d] \in {"idle", "refused", "done", "gone"}
  BY DEF IInv, Quiet
<1>2. NeededBy(d) = {}
  BY <1>1 DEF NeededBy, Open, Serving
<1> QED
  BY <1>1, <1>2, InvParts DEF Kept

LEMMA OverNeedsNothing ==
  ASSUME NEW d \in Conns, handler[d] \in {"idle", "queued", "leave"} \cup Over
  PROVE  NeededBy(d) = {}
BY DEF NeededBy, Over, Open, Serving

LEMMA OpenNeeds ==
  ASSUME NEW d \in Conns, handler[d] \in Open \cup {"ssl_cleanup"}
  PROVE  NeededBy(d) = {"socket", "ssl"} /\ handler[d] \notin {"accepted", "ssl_accept"}
BY DEF NeededBy, Open, Serving

-----------------------------------------------------------------------------
(* The process and its set-up. *)

LEMMA SetupStep ==
  ASSUME IInv, ResourceInv,
         StartProcess \/ SetupCallReturns \/ SetupEnds \/ SetupFails
  PROVE  ResourceInv'
<1>1. ResourceTypeOK /\ ServiceKept /\ \A c \in Conns : Kept(c)
  BY InvParts
<1>2. acceptor \in {"down", "boot"}
  <2>1. CASE SetupCallReturns
    <3>1. booting \in SetupCall
      BY <2>1, SetupNames DEF SetupCallReturns
    <3> QED
      BY <1>1, <3>1 DEF ServiceKept
  <2> QED
    BY <2>1 DEF StartProcess, SetupEnds, SetupFails, Start, Listen
<1>3. UNCHANGED <<handler, held, greeting>>
  BY DEF StartProcess, SetupCallReturns, SetupEnds, SetupFails, Start, Listen, vars
<1>4. acceptor \notin Listening
  BY <1>2 DEF Listening
<1>5. \A d \in Conns : Kept(d)'
  <2> SUFFICES ASSUME NEW d \in Conns PROVE Kept(d)'
    OBVIOUS
  <2>1. Untouched(d)
    BY <1>3, <1>4, QuietNeedsNothing DEF Untouched
  <2> QED
    BY <1>1, <2>1, UntouchedKept
<1>6. ServiceKept' /\ booting' \in SetupCall \cup {NoCall}
      /\ service' \in SUBSET {"ctx", "listener"}
  <2>1. NeededToSetUp(NoCall) = {} /\ NeededToSetUp("SSL_CTX_new") = {}
        /\ NeededToSetUp("listen") = {"ctx", "listener"}
    BY DEF NeededToSetUp, NoCall
  <2>2. CASE StartProcess
    <3>1. acceptor = "down" /\ booting = NoCall
      BY <1>1, <2>2 DEF StartProcess, Start, ServiceKept, ResourceTypeOK
    <3>2. service = {}
      BY <1>1, <1>4, <2>1, <3>1 DEF ServiceKept, ServiceHolds
    <3>3. acceptor' = "boot" /\ booting' = "SSL_CTX_new" /\ service' = service
      BY <2>2 DEF StartProcess, Start
    <3> QED
      BY <2>1, <3>2, <3>3, SetupNames DEF ServiceKept, ServiceHolds, Listening, SetupCalls
  <2>3. CASE SetupCallReturns
    <3>1. /\ booting \in DOMAIN SetupOrder /\ booting \in SetupCall
          /\ acceptor = "boot" /\ acceptor' = "boot"
      BY <1>1, <2>3, SetupNames DEF SetupCallReturns, ServiceKept, vars, process
    <3>2. service = NeededToSetUp(booting)
      BY <1>1, <1>4 DEF ServiceKept, ServiceHolds
    <3>3. booting' = SetupOrder[booting] /\ service' = service \cup SetupGains(booting)
      BY <2>3 DEF SetupCallReturns
    <3> QED
      BY <3>1, <3>2, <3>3, SetupAdvances DEF ServiceKept, ServiceHolds, Listening
  <2>4. CASE SetupEnds
    <3>1. booting = "listen" /\ acceptor' = "accept" /\ booting' = NoCall /\ service' = service
      BY <2>4 DEF SetupEnds
    <3>2. service = {"ctx", "listener"}
      BY <1>1, <1>4, <2>1, <3>1 DEF ServiceKept, ServiceHolds
    <3> QED
      BY <3>1, <3>2, SetupNames DEF ServiceKept, ServiceHolds, Listening, AcceptorPc
  <2>5. CASE SetupFails
    <3>1. /\ booting \in SetupCall /\ acceptor' = "stopped" /\ booting' = NoCall
          /\ service' = service \ SetupFrees(booting)
      BY <2>5 DEF SetupFails
    <3>2. service = NeededToSetUp(booting)
      BY <1>1, <1>4 DEF ServiceKept, ServiceHolds
    <3> QED
      BY <2>1, <3>1, <3>2, SetupClears, SetupNames DEF ServiceKept, ServiceHolds, Listening
  <2> QED
    BY <2>2, <2>3, <2>4, <2>5
<1>7. ResourceTypeOK'
  BY <1>1, <1>3, <1>6 DEF ResourceTypeOK
<1> QED
  BY <1>5, <1>6, <1>7, InvFromParts

LEMMA GoneStep ==
  ASSUME IInv, ResourceInv, ProcessGone
  PROVE  ResourceInv'
<1>1. /\ acceptor' = "down" /\ booting' = NoCall /\ service' = {}
      /\ held' = [c \in Conns |-> {}] /\ greeting' = [c \in Conns |-> NoCall]
      /\ \A d \in Conns : handler'[d] \in {"idle", "refused", "done", "gone"}
  BY DEF ProcessGone, ProcessEnds
<1>2. NeededToSetUp(NoCall) = {} /\ "down" \notin Listening
  BY DEF NeededToSetUp, NoCall, Listening
<1>3. ASSUME NEW d \in Conns PROVE NeededBy(d)' = {}
  BY <1>1 DEF NeededBy, Open, Serving
<1>4. (ConnectionHolds /\ OneInHand)'
  BY <1>1, <1>3 DEF ConnectionHolds, OneInHand
<1>5. ServiceHolds' /\ booting' \notin SetupCall
  BY <1>1, <1>2, SetupNames DEF ServiceHolds
<1>6. ResourceTypeOK'
  BY <1>1 DEF ResourceTypeOK
<1>7. \A d \in Conns : (handler[d] = "ssl_accept" <=> greeting[d] # NoCall)'
  BY <1>1
<1> QED
  BY <1>1, <1>4, <1>5, <1>6, <1>7 DEF ResourceInv

-----------------------------------------------------------------------------
(* The connections. *)

Things == {"socket", "args", "ssl"}

GreetingPc == {NoCall, "args", "SSL_new", "SSL_accept"}

(* What a step does with the functions, at one connection and elsewhere. *)
Sets(c, h, x, g) ==
  /\ handler' = [handler EXCEPT ![c] = h]
  /\ held' = [held EXCEPT ![c] = x]
  /\ greeting' = [greeting EXCEPT ![c] = g]

LEMMA SetsPointwise ==
  ASSUME TypeOK, ResourceTypeOK, NEW c \in Conns, NEW h, NEW x, NEW g,
         Sets(c, h, x, g)
  PROVE  /\ handler'[c] = h /\ held'[c] = x /\ greeting'[c] = g
         /\ \A d \in Conns \ {c} : handler'[d] = handler[d] /\ held'[d] = held[d]
                                   /\ greeting'[d] = greeting[d]
<1>1. /\ handler \in [Conns -> HandlerPc] /\ greeting \in [Conns -> GreetingPc]
      /\ held \in [Conns -> SUBSET Things]
  BY DEF TypeOK, ResourceTypeOK, GreetingPc, Things
<1> QED
  BY <1>1 DEF Sets

LEMMA SetsTyped ==
  ASSUME ResourceTypeOK, NEW c \in Conns, NEW h, NEW x \in SUBSET Things,
         NEW g \in GreetingPc, Sets(c, h, x, g), UNCHANGED <<booting, service>>
  PROVE  ResourceTypeOK'
<1>1. /\ held \in [Conns -> SUBSET Things] /\ greeting \in [Conns -> GreetingPc]
      /\ booting \in SetupCall \cup {NoCall} /\ service \in SUBSET {"ctx", "listener"}
  BY DEF ResourceTypeOK, GreetingPc, Things
<1>2. held' \in [Conns -> SUBSET Things] /\ greeting' \in [Conns -> GreetingPc]
  BY <1>1 DEF Sets
<1> QED
  BY <1>1, <1>2 DEF ResourceTypeOK, GreetingPc, Things

LEMMA ListeningPlaces ==
  Listening = {"accept", "rate_limit", "count_thread", "create_thread", "uncount_thread"}
BY DEF Listening, AcceptorPc

(* A step that touches connection c at most, while the server listens. *)
LEMMA OneConnection ==
  ASSUME IInv, ResourceInv, NEW c \in Conns, NEW h, NEW x \in SUBSET Things,
         NEW g \in GreetingPc, Sets(c, h, x, g), Kept(c)',
         \/ UNCHANGED <<acceptor, client_socket>>
         \/ \A d \in Conns \ {c} : handler[d] # "accepted",
         acceptor \in Listening, acceptor' \in Listening,
         UNCHANGED <<booting, service>>
  PROVE  ResourceInv'
<1>1. ResourceTypeOK /\ ServiceKept /\ (\A d \in Conns : Kept(d)) /\ TypeOK
  BY InvParts DEF IInv
<1>2. \A d \in Conns \ {c} : Untouched(d)
  <2> SUFFICES ASSUME NEW d \in Conns \ {c} PROVE Untouched(d)
    OBVIOUS
  <2>1. handler'[d] = handler[d] /\ held'[d] = held[d] /\ greeting'[d] = greeting[d]
    BY <1>1, SetsPointwise
  <2>2. CASE UNCHANGED <<acceptor, client_socket>>
    BY <2>1, <2>2 DEF Untouched
  <2>3. CASE \A e \in Conns \ {c} : handler[e] # "accepted"
    <3>1. handler[d] # "accepted"
      BY <2>3
    <3> QED
      BY <2>1, <3>1 DEF Untouched
  <2> QED
    BY <2>2, <2>3
<1>3. \A d \in Conns : Kept(d)'
  BY <1>1, <1>2, UntouchedKept
<1>4. ServiceKept'
  <2>1. acceptor # "boot" /\ acceptor' # "boot"
    BY ListeningPlaces
  <2>2. service = {"ctx", "listener"} /\ booting \notin SetupCall
    BY <1>1, <2>1 DEF ServiceKept, ServiceHolds
  <2> QED
    BY <2>1, <2>2 DEF ServiceKept, ServiceHolds
<1>5. ResourceTypeOK'
  BY <1>1, SetsTyped
<1> QED
  BY <1>3, <1>4, <1>5, InvFromParts

(* The same, when the connection holds nothing but what Kept asks. *)
LEMMA OneConnectionKept ==
  ASSUME IInv, ResourceInv, NEW c \in Conns, NEW h, NEW x \in SUBSET Things,
         NEW g \in GreetingPc, Sets(c, h, x, g), x = NeededBy(c)',
         h = "ssl_accept" <=> g # NoCall,
         h = "accepted" => acceptor' \in Listening \ {"accept"} /\ client_socket' = c,
         \/ UNCHANGED <<acceptor, client_socket>>
         \/ \A d \in Conns \ {c} : handler[d] # "accepted",
         acceptor \in Listening, acceptor' \in Listening,
         UNCHANGED <<booting, service>>
  PROVE  ResourceInv'
<1>1. handler'[c] = h /\ held'[c] = x /\ greeting'[c] = g
  BY SetsPointwise, InvParts DEF IInv
<1>2. Kept(c)'
  BY <1>1 DEF Kept
<1> QED
  BY <1>2, OneConnection

(* What is left alone is set to what it was. *)
LEMMA Left ==
  ASSUME TypeOK, ResourceTypeOK, NEW c \in Conns
  PROVE  /\ handler = [handler EXCEPT ![c] = handler[c]]
         /\ held = [held EXCEPT ![c] = held[c]]
         /\ greeting = [greeting EXCEPT ![c] = greeting[c]]
BY DEF TypeOK, ResourceTypeOK

-----------------------------------------------------------------------------
(* The steps of the accept loop. *)

LEMMA AcceptStep ==
  ASSUME IInv, ResourceInv, NEW c \in Conns, AcceptHolds(c)
  PROVE  ResourceInv'
<1>1. TypeOK /\ ResourceTypeOK /\ Kept(c)
  BY InvParts DEF IInv
<1>2. /\ acceptor = "accept" /\ acceptor' = "rate_limit" /\ client_socket' = c
      /\ handler[c] = "queued" /\ handler' = [handler EXCEPT ![c] = "accepted"]
      /\ held' = [held EXCEPT ![c] = @ \cup {"socket"}]
      /\ UNCHANGED <<booting, service, greeting>>
  BY DEF AcceptHolds, Accept, Goto, Hold
<1>3. held[c] = {} /\ greeting[c] = NoCall
  BY <1>1, <1>2, OverNeedsNothing DEF Kept
<1>4. Sets(c, "accepted", {"socket"}, NoCall)
  <2>1. held[c] \cup {"socket"} = {"socket"}
    BY <1>3
  <2>2. held' = [held EXCEPT ![c] = {"socket"}]
    BY <1>2, <2>1
  <2>3. greeting' = [greeting EXCEPT ![c] = NoCall]
    BY <1>1, <1>2, <1>3, Left
  <2> QED
    BY <1>2, <2>2, <2>3 DEF Sets
<1>5. NeededBy(c)' = {"socket"}
  <2>1. handler'[c] = "accepted"
    BY <1>1, <1>4, SetsPointwise
  <2> QED
    BY <1>2, <2>1 DEF NeededBy, NeededInHand, Open, Serving
<1>6. \A d \in Conns : handler[d] # "accepted"
  BY <1>2, OthersNotInHand
<1>7. {"socket"} \in SUBSET Things /\ NoCall \in GreetingPc
  BY DEF Things, GreetingPc
<1> QED
  BY <1>2, <1>4, <1>5, <1>6, <1>7, ListeningPlaces, OneConnectionKept

(* What start_server has in hand, by its place. *)
LEMMA InHandKept ==
  ASSUME IInv, ResourceInv, acceptor \in Listening \ {"accept"}
  PROVE  /\ client_socket \in Conns /\ handler[client_socket] = "accepted"
         /\ \A d \in Conns \ {client_socket} : handler[d] # "accepted"
         /\ greeting[client_socket] = NoCall /\ held[client_socket] = NeededInHand
<1>1. acceptor \notin {"down", "boot", "stopped", "accept"}
  BY ListeningPlaces
<1>2. /\ client_socket \in Conns /\ handler[client_socket] = "accepted"
      /\ \A d \in Conns \ {client_socket} : handler[d] # "accepted"
  BY <1>1, OthersNotInHand
<1>3. Kept(client_socket)
  BY <1>2, InvParts
<1> QED
  BY <1>2, <1>3 DEF Kept, NeededBy, Open, Serving

LEMMA TurnAwayStep ==
  ASSUME IInv, ResourceInv, TurnAwayCloses \/ NoThread
  PROVE  ResourceInv'
<1>1. TypeOK /\ ResourceTypeOK
  BY InvParts DEF IInv
<1>2. PICK S \in {{"socket"}, {"socket", "args"}} :
        /\ acceptor \in {"rate_limit", "uncount_thread"} /\ acceptor' = "accept"
        /\ handler' = [handler EXCEPT ![client_socket] = "refused"]
        /\ held' = [held EXCEPT ![client_socket] = @ \ S] /\ S = NeededInHand
        /\ UNCHANGED <<booting, service, greeting>>
  BY DEF TurnAwayCloses, TurnAway, NoThread, UncountThread, Refuse, Goto, Release,
         NeededInHand
<1>3. /\ client_socket \in Conns /\ greeting[client_socket] = NoCall
      /\ held[client_socket] = S
      /\ \A d \in Conns \ {client_socket} : handler[d] # "accepted"
  BY <1>2, InHandKept, ListeningPlaces
<1> SUFFICES ASSUME NEW c \in Conns, c = client_socket
             PROVE  ResourceInv'
  BY <1>3
<1>4. Sets(c, "refused", {}, NoCall)
  <2>1. held[c] \ S = {}
    BY <1>3
  <2>2. held' = [held EXCEPT ![c] = {}]
    BY <1>2, <2>1
  <2>3. greeting' = [greeting EXCEPT ![c] = NoCall]
    BY <1>1, <1>2, <1>3, Left
  <2> QED
    BY <1>2, <2>2, <2>3 DEF Sets
<1>5. NeededBy(c)' = {}
  <2>1. handler'[c] = "refused"
    BY <1>1, <1>4, SetsPointwise
  <2> QED
    BY <2>1 DEF NeededBy, Open, Serving
<1>6. NoCall \in GreetingPc /\ {} \in SUBSET Things
  BY DEF GreetingPc
<1> QED
  BY <1>2, <1>3, <1>4, <1>5, <1>6, ListeningPlaces, OneConnectionKept

LEMMA AllocateStep ==
  ASSUME IInv, ResourceInv, AllocateArgs
  PROVE  ResourceInv'
<1>1. TypeOK /\ ResourceTypeOK
  BY InvParts DEF IInv
<1>2. /\ acceptor = "rate_limit" /\ acceptor' = "count_thread"
      /\ held' = [held EXCEPT ![client_socket] = @ \cup {"args"}]
      /\ UNCHANGED <<booting, service, greeting, handler, client_socket>>
  BY DEF AllocateArgs, RateLimitAllows, Hold
<1>3. /\ client_socket \in Conns /\ greeting[client_socket] = NoCall
      /\ handler[client_socket] = "accepted" /\ held[client_socket] = {"socket"}
      /\ \A d \in Conns \ {client_socket} : handler[d] # "accepted"
  BY <1>2, InHandKept, ListeningPlaces DEF NeededInHand
<1> SUFFICES ASSUME NEW c \in Conns, c = client_socket
             PROVE  ResourceInv'
  BY <1>3
<1>4. Sets(c, "accepted", {"socket", "args"}, NoCall)
  <2>1. held[c] \cup {"args"} = {"socket", "args"}
    BY <1>3
  <2>2. held' = [held EXCEPT ![c] = {"socket", "args"}]
    BY <1>2, <2>1
  <2>3. handler' = [handler EXCEPT ![c] = "accepted"]
        /\ greeting' = [greeting EXCEPT ![c] = NoCall]
    BY <1>1, <1>2, <1>3, Left
  <2> QED
    BY <2>2, <2>3 DEF Sets
<1>5. NeededBy(c)' = {"socket", "args"}
  <2>1. handler'[c] = "accepted"
    BY <1>1, <1>4, SetsPointwise
  <2> QED
    BY <1>2, <2>1 DEF NeededBy, NeededInHand, Open, Serving
<1>6. {"socket", "args"} \in SUBSET Things /\ NoCall \in GreetingPc
  BY DEF Things, GreetingPc
<1> QED
  BY <1>2, <1>3, <1>4, <1>5, <1>6, ListeningPlaces, OneConnectionKept

LEMMA HandOverStep ==
  ASSUME IInv, ResourceInv, HandOver
  PROVE  ResourceInv'
<1>1. TypeOK /\ ResourceTypeOK
  BY InvParts DEF IInv
<1>2. acceptor = "create_thread" /\ UNCHANGED <<booting, service, held>>
  BY DEF HandOver, CreateThread
<1>3. /\ client_socket \in Conns /\ greeting[client_socket] = NoCall
      /\ handler[client_socket] = "accepted" /\ held[client_socket] = {"socket", "args"}
      /\ \A d \in Conns \ {client_socket} : handler[d] # "accepted"
  BY <1>2, InHandKept, ListeningPlaces DEF NeededInHand
<1> SUFFICES ASSUME NEW c \in Conns, c = client_socket
             PROVE  ResourceInv'
  BY <1>3
<1>4. {"socket", "args"} \in SUBSET Things /\ {NoCall, "args"} \subseteq GreetingPc
      /\ NoCall # "args"
  BY DEF Things, GreetingPc, NoCall
<1>5. held' = [held EXCEPT ![c] = {"socket", "args"}]
  BY <1>1, <1>2, <1>3, Left
<1>6. CASE acceptor' = "accept"
  <2>1. Sets(c, "ssl_accept", {"socket", "args"}, "args")
    BY <1>5, <1>6 DEF HandOver, CreateThread, Goto, Greet, Sets
  <2>2. handler'[c] = "ssl_accept" /\ greeting'[c] = "args"
    BY <1>1, <2>1, SetsPointwise
  <2>3. NeededBy(c)' = {"socket", "args"}
    BY <2>2 DEF NeededBy, NeededToGreet, Open, Serving
  <2> QED
    BY <1>2, <1>3, <1>4, <1>6, <2>1, <2>3, ListeningPlaces, OneConnectionKept
<1>7. CASE acceptor' = "uncount_thread"
  <2>1. UNCHANGED <<handler, greeting, client_socket>>
    BY <1>7 DEF HandOver, CreateThread
  <2>2. Sets(c, "accepted", {"socket", "args"}, NoCall)
    BY <1>1, <1>3, <1>5, <2>1, Left DEF Sets
  <2>3. NeededBy(c)' = {"socket", "args"}
    BY <1>3, <1>7, <2>1 DEF NeededBy, NeededInHand, Open, Serving
  <2> QED
    BY <1>2, <1>3, <1>4, <1>7, <2>1, <2>2, <2>3, ListeningPlaces, OneConnectionKept
<1>8. acceptor' = "accept" \/ acceptor' = "uncount_thread"
  BY DEF HandOver, CreateThread
<1> QED
  BY <1>6, <1>7, <1>8

-----------------------------------------------------------------------------
(* The steps of a connection's thread. *)

LEMMA Greeted ==
  ASSUME IInv, ResourceInv, NEW c \in Conns, handler[c] \in Running
  PROVE  acceptor \in Listening
<1>1. handler[c] \notin {"idle", "refused", "done", "gone"}
  BY DEF Running, Connected, Serving
<1> QED
  BY <1>1 DEF IInv, Quiet

(* The thread's own steps before the session is up. *)
LEMMA GreetingStep ==
  ASSUME IInv, ResourceInv, NEW c \in Conns, TakeArgs(c) \/ SslNew(c)
  PROVE  ResourceInv'
<1>1. TypeOK /\ ResourceTypeOK /\ Kept(c)
  BY InvParts DEF IInv
<1>2. /\ UNCHANGED <<handler, acceptor, client_socket, booting, service>>
      /\ greeting[c] \in {"args", "SSL_new"}
  BY DEF TakeArgs, SslNew, vars, process
<1>3. handler[c] = "ssl_accept" /\ held[c] = NeededToGreet(greeting[c])
  <2>1. greeting[c] # NoCall
    BY <1>2 DEF NoCall
  <2>2. handler[c] = "ssl_accept"
    BY <1>1, <2>1 DEF Kept
  <2>3. NeededBy(c) = NeededToGreet(greeting[c])
    BY <2>2 DEF NeededBy, Open, Serving
  <2> QED
    BY <1>1, <2>2, <2>3 DEF Kept
<1>4. acceptor \in Listening
  BY <1>3, Greeted DEF Running
<1>5. handler' = [handler EXCEPT ![c] = "ssl_accept"]
  BY <1>1, <1>2, <1>3, Left
<1>6. CASE TakeArgs(c)
  <2>1. /\ greeting[c] = "args" /\ greeting' = [greeting EXCEPT ![c] = "SSL_new"]
        /\ held' = [held EXCEPT ![c] = @ \ {"args"}]
    BY <1>6 DEF TakeArgs, Greet, Release
  <2>2. held[c] \ {"args"} = {"socket"}
    BY <1>3, <2>1 DEF NeededToGreet
  <2>3. held' = [held EXCEPT ![c] = {"socket"}]
    BY <2>1, <2>2
  <2>4. Sets(c, "ssl_accept", {"socket"}, "SSL_new")
    BY <1>5, <2>1, <2>3 DEF Sets
  <2>5. NeededBy(c)' = {"socket"}
    <3>1. handler'[c] = "ssl_accept" /\ greeting'[c] = "SSL_new"
      BY <1>1, <2>4, SetsPointwise
    <3> QED
      BY <3>1 DEF NeededBy, NeededToGreet, Open, Serving
  <2>6. {"socket"} \in SUBSET Things /\ "SSL_new" \in GreetingPc /\ "SSL_new" # NoCall
    BY DEF Things, GreetingPc, NoCall
  <2> QED
    BY <1>2, <1>4, <2>4, <2>5, <2>6, OneConnectionKept
<1>7. CASE SslNew(c)
  <2>1. /\ greeting[c] = "SSL_new" /\ greeting' = [greeting EXCEPT ![c] = "SSL_accept"]
        /\ held' = [held EXCEPT ![c] = @ \cup {"ssl"}]
    BY <1>7 DEF SslNew, Greet, Hold
  <2>2. held[c] \cup {"ssl"} = {"socket", "ssl"}
    BY <1>3, <2>1 DEF NeededToGreet
  <2>3. held' = [held EXCEPT ![c] = {"socket", "ssl"}]
    BY <2>1, <2>2
  <2>4. Sets(c, "ssl_accept", {"socket", "ssl"}, "SSL_accept")
    BY <1>5, <2>1, <2>3 DEF Sets
  <2>5. NeededBy(c)' = {"socket", "ssl"}
    <3>1. handler'[c] = "ssl_accept" /\ greeting'[c] = "SSL_accept"
      BY <1>1, <2>4, SetsPointwise
    <3> QED
      BY <3>1 DEF NeededBy, NeededToGreet, Open, Serving
  <2>6. /\ {"socket", "ssl"} \in SUBSET Things /\ "SSL_accept" \in GreetingPc
        /\ "SSL_accept" # NoCall
    BY DEF Things, GreetingPc, NoCall
  <2> QED
    BY <1>2, <1>4, <2>4, <2>5, <2>6, OneConnectionKept
<1> QED
  BY <1>6, <1>7

LEMMA HandshakeStep ==
  ASSUME IInv, ResourceInv, NEW c \in Conns, SslAcceptFails(c) \/ SslAccept(c)
  PROVE  ResourceInv'
<1>1. TypeOK /\ ResourceTypeOK /\ Kept(c)
  BY InvParts DEF IInv
<1>2. /\ handler[c] = "ssl_accept" /\ UNCHANGED <<acceptor, client_socket, booting, service>>
      /\ greeting' = [greeting EXCEPT ![c] = NoCall]
      /\ greeting[c] \in {"SSL_new", "SSL_accept"}
  BY DEF SslAcceptFails, SslAccept, Handshake, process, Greet
<1>3. held[c] = NeededToGreet(greeting[c])
  BY <1>1, <1>2 DEF Kept, NeededBy, Open, Serving
<1>4. acceptor \in Listening
  BY <1>2, Greeted DEF Running
<1>5. CASE SslAcceptFails(c)
  <2>1. held[c] \ {"ssl", "socket"} = {}
    BY <1>2, <1>3 DEF NeededToGreet
  <2>2. held' = [held EXCEPT ![c] = @ \ {"ssl", "socket"}] /\ handler'[c] = "failed"
    BY <1>5 DEF SslAcceptFails, Release
  <2>3. held' = [held EXCEPT ![c] = {}]
    BY <2>1, <2>2
  <2>4. handler' = [handler EXCEPT ![c] = "failed"]
    <3>1. \/ handler' = [handler EXCEPT ![c] = "enter"]
          \/ handler' = [handler EXCEPT ![c] = "failed"]
      BY <1>5 DEF SslAcceptFails, Handshake, Goto
    <3> QED
      BY <1>1, <2>2, <3>1 DEF TypeOK
  <2>5. Sets(c, "failed", {}, NoCall)
    BY <1>2, <2>3, <2>4 DEF Sets
  <2>6. NeededBy(c)' = {}
    BY <2>2 DEF NeededBy, Open, Serving
  <2>7. NoCall \in GreetingPc /\ {} \in SUBSET Things
    BY DEF GreetingPc
  <2> QED
    BY <1>2, <1>4, <2>5, <2>6, <2>7, OneConnectionKept
<1>6. CASE SslAccept(c)
  <2>1. held[c] = {"socket", "ssl"} /\ held' = held /\ handler'[c] = "enter"
    BY <1>3, <1>6 DEF SslAccept, NeededToGreet
  <2>2. handler' = [handler EXCEPT ![c] = "enter"]
    <3>1. \/ handler' = [handler EXCEPT ![c] = "enter"]
          \/ handler' = [handler EXCEPT ![c] = "failed"]
      BY <1>6 DEF SslAccept, Handshake, Goto
    <3> QED
      BY <1>1, <2>1, <3>1 DEF TypeOK
  <2>3. held' = [held EXCEPT ![c] = {"socket", "ssl"}]
    BY <1>1, <2>1, Left
  <2>4. Sets(c, "enter", {"socket", "ssl"}, NoCall)
    BY <1>2, <2>2, <2>3 DEF Sets
  <2>5. NeededBy(c)' = {"socket", "ssl"}
    BY <2>1 DEF NeededBy, Open, Serving
  <2>6. NoCall \in GreetingPc /\ {"socket", "ssl"} \in SUBSET Things
    BY DEF GreetingPc, Things
  <2> QED
    BY <1>2, <1>4, <2>4, <2>5, <2>6, OneConnectionKept
<1> QED
  BY <1>5, <1>6

(* In service, and the clean-up at its end. *)
LEMMA ServiceStep ==
  ASSUME IInv, ResourceInv, NEW c \in Conns, NEW h, NEW x,
         handler[c] \in Open \cup {"ssl_cleanup", "leave"},
         handler' = [handler EXCEPT ![c] = h],
         held' = [held EXCEPT ![c] = x],
         \/ /\ handler[c] \in Open /\ h \in Open \cup {"ssl_cleanup"}
            /\ x = {"socket", "ssl"}
         \/ handler[c] \in {"ssl_cleanup", "leave"} /\ h \in {"leave", "done"} /\ x = {},
         UNCHANGED <<acceptor, client_socket, booting, service, greeting>>
  PROVE  ResourceInv'
<1>1. TypeOK /\ ResourceTypeOK /\ Kept(c)
  BY InvParts DEF IInv
<1>2. acceptor \in Listening
  BY Greeted DEF Running, Connected, Open, Serving
<1>3. greeting[c] = NoCall
  <2>1. handler[c] # "ssl_accept"
    BY DEF Open, Serving
  <2> QED
    BY <1>1, <2>1 DEF Kept
<1>4. Sets(c, h, x, NoCall)
  BY <1>1, <1>3, Left DEF Sets
<1>5. handler'[c] = h
  BY <1>1, <1>4, SetsPointwise
<1>6. NeededBy(c)' = x
  BY <1>5 DEF NeededBy, Open, Serving
<1>7. x \in SUBSET Things /\ NoCall \in GreetingPc
  BY DEF Things, GreetingPc
<1>8. h # "ssl_accept" /\ h # "accepted"
  BY DEF Open, Serving
<1> QED
  BY <1>2, <1>4, <1>6, <1>7, <1>8, OneConnectionKept

LEMMA CleanupStep ==
  ASSUME IInv, ResourceInv, NEW c \in Conns, CleanupReleases(c)
  PROVE  ResourceInv'
<1>1. TypeOK /\ ResourceTypeOK /\ Kept(c)
  BY InvParts DEF IInv
<1>2. /\ handler[c] = "ssl_cleanup" /\ handler' = [handler EXCEPT ![c] = "leave"]
      /\ held' = [held EXCEPT ![c] = @ \ {"ssl", "socket"}]
      /\ UNCHANGED <<acceptor, client_socket, booting, service, greeting>>
  BY DEF CleanupReleases, Cleanup, Goto, Release, process
<1>3. held[c] \ {"ssl", "socket"} = {}
  BY <1>1, <1>2 DEF Kept, NeededBy, Open, Serving
<1>4. held' = [held EXCEPT ![c] = {}]
  BY <1>2, <1>3
<1> QED
  BY <1>2, <1>4, ServiceStep

(* The other steps of a handler stay in service, or leave it. *)
LEMMA HandlerStep ==
  ASSUME IInv, ResourceInv, NEW c \in Conns, HandleClient(c),
         handler[c] # "ssl_cleanup", UNCHANGED resources
  PROVE  ResourceInv'
<1>1. TypeOK /\ ResourceTypeOK /\ Kept(c)
  BY InvParts DEF IInv
<1>2. UNCHANGED <<acceptor, client_socket, booting, service, greeting, held>>
  BY DEF HandleClient, Enter, Recv, RecvEnds, VoterExists, HasVoted,
         GenerateReceipt, SaveVote, CountVote, Ack, Cleanup, Leave, process, resources
<1>3. CASE Leave(c)
  <2>1. handler[c] = "leave" /\ handler' = [handler EXCEPT ![c] = "done"]
    BY <1>3 DEF Leave, Goto
  <2>2. held[c] = {}
    BY <1>1, <2>1 DEF Kept, NeededBy, Open, Serving
  <2>3. held' = [held EXCEPT ![c] = {}]
    BY <1>1, <1>2, <2>2, Left
  <2> QED
    BY <1>2, <2>1, <2>3, ServiceStep
<1>4. CASE ~ Leave(c)
  <2>1. handler[c] \in Open
        /\ \E h \in Open \cup {"ssl_cleanup"} : handler' = [handler EXCEPT ![c] = h]
    <3>1. CASE Enter(c) \/ Recv(c) \/ RecvEnds(c) \/ CountVote(c) \/ Ack(c)
      BY <3>1 DEF Enter, Recv, RecvEnds, CountVote, Ack, Nack, Goto, Open, Serving
    <3>2. CASE VoterExists(c) \/ HasVoted(c) \/ GenerateReceipt(c)
      BY <3>2 DEF VoterExists, HasVoted, GenerateReceipt, Nack, Goto, Open, Serving
    <3>3. CASE SaveVote(c)
      BY <3>3 DEF SaveVote, VoteSaved, VoteNotSaved, Nack, Goto, Open, Serving
    <3> QED
      BY <1>4, <3>1, <3>2, <3>3 DEF HandleClient, Cleanup
  <2>2. held[c] = {"socket", "ssl"}
    BY <1>1, <2>1, OpenNeeds DEF Kept
  <2>3. held' = [held EXCEPT ![c] = {"socket", "ssl"}]
    BY <1>1, <1>2, <2>2, Left
  <2> QED
    BY <1>2, <2>1, <2>3, ServiceStep
<1> QED
  BY <1>3, <1>4

-----------------------------------------------------------------------------
(* The other steps, and all steps together. *)

LEMMA StillStep ==
  ASSUME ResourceInv,
         UNCHANGED <<handler, acceptor, client_socket, resources>>
  PROVE  ResourceInv'
BY DEF ResourceInv, ResourceTypeOK, ConnectionHolds, ServiceHolds, OneInHand,
       NeededBy, NeededInHand, resources

LEMMA CountStep ==
  ASSUME IInv, ResourceInv, CountThread, UNCHANGED resources
  PROVE  ResourceInv'
<1>1. TypeOK /\ ResourceTypeOK
  BY InvParts DEF IInv
<1>2. /\ acceptor = "count_thread" /\ acceptor' = "create_thread"
      /\ UNCHANGED <<booting, service, held, greeting, handler, client_socket>>
  BY DEF CountThread, resources
<1>3. /\ client_socket \in Conns /\ greeting[client_socket] = NoCall
      /\ handler[client_socket] = "accepted" /\ held[client_socket] = {"socket", "args"}
      /\ \A d \in Conns \ {client_socket} : handler[d] # "accepted"
  BY <1>2, InHandKept, ListeningPlaces DEF NeededInHand
<1> SUFFICES ASSUME NEW c \in Conns, c = client_socket
             PROVE  ResourceInv'
  BY <1>3
<1>4. Sets(c, "accepted", {"socket", "args"}, NoCall)
  BY <1>1, <1>2, <1>3, Left DEF Sets
<1>5. NeededBy(c)' = {"socket", "args"}
  BY <1>2, <1>3 DEF NeededBy, NeededInHand, Open, Serving
<1>6. {"socket", "args"} \in SUBSET Things /\ NoCall \in GreetingPc
  BY DEF Things, GreetingPc
<1> QED
  BY <1>2, <1>3, <1>4, <1>5, <1>6, ListeningPlaces, OneConnectionKept

LEMMA PeersStep ==
  ASSUME IInv, ResourceInv, NEW c \in Conns, Peer(c), UNCHANGED resources
  PROVE  ResourceInv'
<1>1. TypeOK /\ ResourceTypeOK /\ Kept(c)
  BY InvParts DEF IInv
<1>2. CASE PeerConnects(c)
  <2>1. /\ handler[c] = "idle" /\ acceptor \in Listening
        /\ handler' = [handler EXCEPT ![c] = "queued"]
        /\ UNCHANGED <<acceptor, client_socket, booting, service, greeting, held>>
    BY <1>2 DEF PeerConnects, Goto, process, resources
  <2>2. held[c] = {} /\ greeting[c] = NoCall
    BY <1>1, <2>1, OverNeedsNothing DEF Kept
  <2>3. Sets(c, "queued", {}, NoCall)
    BY <1>1, <2>1, <2>2, Left DEF Sets
  <2>4. NeededBy(c)' = {}
    <3>1. handler'[c] = "queued"
      BY <1>1, <2>3, SetsPointwise
    <3> QED
      BY <3>1 DEF NeededBy, Open, Serving
  <2>5. NoCall \in GreetingPc /\ {} \in SUBSET Things
    BY DEF GreetingPc
  <2> QED
    BY <2>1, <2>3, <2>4, <2>5, OneConnectionKept
<1>3. CASE PeerSends(c) \/ PeerHangsUp(c)
  <2>1. UNCHANGED <<handler, acceptor, client_socket, resources>>
    BY <1>3 DEF PeerSends, PeerHangsUp, process
  <2> QED
    BY <2>1, StillStep
<1> QED
  BY <1>2, <1>3 DEF Peer

LEMMA ResourceStep ==
  ASSUME IInv, ResourceInv, [ResourceNext]_resourceVars
  PROVE  ResourceInv'
<1>1. CASE UNCHANGED resourceVars
  <2>1. UNCHANGED <<handler, acceptor, client_socket, resources>>
    BY <1>1 DEF resourceVars, vars, process
  <2> QED
    BY <2>1, StillStep
<1>2. CASE StartProcess \/ SetupCallReturns \/ SetupEnds \/ SetupFails
  BY <1>2, SetupStep
<1>3. CASE ProcessGone
  BY <1>3, GoneStep
<1>4. CASE TurnAwayCloses \/ AllocateArgs \/ HandOver \/ NoThread
  BY <1>4, TurnAwayStep, AllocateStep, HandOverStep
<1>5. ASSUME NEW c \in Conns,
             \/ AcceptHolds(c) \/ TakeArgs(c) \/ SslNew(c) \/ SslAcceptFails(c)
             \/ SslAccept(c) \/ CleanupReleases(c)
      PROVE  ResourceInv'
  BY <1>5, AcceptStep, GreetingStep, HandshakeStep, CleanupStep
<1>6. CASE OtherStep
  BY <1>6, CountStep, HandlerStep, PeersStep DEF OtherStep
<1> QED
  BY <1>1, <1>2, <1>3, <1>4, <1>5, <1>6 DEF ResourceNext

LEMMA ResourceStart ==
  ResourceInit => ResourceInv
<1> SUFFICES ASSUME ResourceInit PROVE ResourceInv
  OBVIOUS
<1>1. /\ acceptor = "down" /\ booting = NoCall /\ service = {}
      /\ held = [c \in Conns |-> {}] /\ greeting = [c \in Conns |-> NoCall]
      /\ handler = [c \in Conns |-> "idle"]
  BY DEF ResourceInit, Init
<1>2. \A c \in Conns : NeededBy(c) = {}
  BY <1>1 DEF NeededBy, Open, Serving
<1>3. NeededToSetUp(NoCall) = {} /\ "down" \notin Listening
  BY DEF NeededToSetUp, NoCall, Listening
<1> QED
  BY <1>1, <1>2, <1>3, SetupNames
  DEF ResourceInv, ResourceTypeOK, ConnectionHolds, ServiceHolds, OneInHand

-----------------------------------------------------------------------------
(* Theorems. *)

(* The set-up and the handshake taken call by call, with what each call    *)
(* acquires and releases, is the server that takes them as one step each:  *)
(* each step is a step of ServerSocket or changes nothing of it, so what   *)
(* is proved of the server holds of this one.                              *)
THEOREM ResourceImplements == ResourceSpec => Spec
<1>1. ResourceInit => Init
  BY DEF ResourceInit
<1>2. [ResourceNext]_resourceVars => [Next]_vars
  BY ServerStepOf
<1> QED
  BY <1>1, <1>2, PTL DEF ResourceSpec, Spec

(* The inductive invariant of what is held, on that of the server.         *)
THEOREM ResourceInvariance == ResourceSpec => []ResourceInv
<1>1. ResourceSpec => []IInv
  BY ResourceImplements, Invariance, PTL
<1>2. IInv /\ ResourceInv /\ [ResourceNext]_resourceVars => ResourceInv'
  BY ResourceStep
<1> QED
  BY <1>1, <1>2, ResourceStart, PTL DEF ResourceSpec

(* At every step each connection holds its socket, its arguments and its   *)
(* session exactly as long as the next calls on it need them, and nothing  *)
(* once it is over: each error branch of start_server, ssl_accept and      *)
(* handle_client releases what was acquired, once.                         *)
THEOREM NothingLeaked == ResourceSpec => []ConnectionHolds
<1>1. ResourceInv => ConnectionHolds
  BY DEF ResourceInv
<1> QED
  BY <1>1, ResourceInvariance, PTL

(* The TLS context and the listening socket are there as long as the       *)
(* accept loop and its threads are, and a set-up that fails at any of its  *)
(* calls leaves neither.                                                   *)
THEOREM ServiceOutlives == ResourceSpec => []ServiceHolds
<1>1. ResourceInv => ServiceHolds
  BY DEF ResourceInv
<1> QED
  BY <1>1, ResourceInvariance, PTL


-----------------------------------------------------------------------------
(* What it writes: the theorems about AuditTrail. *)

(* A step with the log is a step of the server and its resources, or       *)
(* changes nothing of them.                                                *)
LEMMA AuditStepOf ==
  ASSUME [AuditNext]_auditVars
  PROVE  [ResourceNext]_resourceVars
<1>1. CASE UNCHANGED auditVars
  BY <1>1 DEF auditVars
<1>2. CASE StartLogs \/ EndLosesLines \/ SetupLogs \/ AcceptFails
  BY <1>2 DEF StartLogs, EndLosesLines, SetupLogs, AcceptFails, ResourceNext
<1>3. CASE AcceptLoopLogs
  BY <1>3 DEF AcceptLoopLogs, ResourceNext, OtherStep
<1>4. ASSUME NEW c \in Conns, HandleClientLogs(c) PROVE ResourceNext
  <2>1. CASE GreetLogs(c) \/ CleanupReleases(c)
    BY <2>1 DEF GreetLogs, ResourceNext
  <2>2. CASE SessionLogs(c)
    <3>1. HandleClient(c) /\ UNCHANGED resources
      BY <2>2 DEF SessionLogs, RecvLogs, SaveLogs, AckLogs, HandleClient
    <3>2. handler[c] # "ssl_cleanup"
      BY <2>2 DEF SessionLogs, RecvLogs, SaveLogs, AckLogs, Enter, Recv, RecvEnds,
                  VoterExists, HasVoted, GenerateReceipt, SaveVote, CountVote, Ack,
                  Leave
    <3> QED
      BY <3>1, <3>2 DEF ResourceNext, OtherStep
  <2> QED
    BY <1>4, <2>1, <2>2 DEF HandleClientLogs
<1>5. ASSUME NEW t \in Writer, AddLog(t) PROVE UNCHANGED resourceVars
  BY <1>5 DEF AddLog
<1>6. CASE PeerStep
  BY <1>6 DEF PeerStep, ResourceNext, OtherStep
<1> QED
  BY <1>1, <1>2, <1>3, <1>4, <1>5, <1>6 DEF AuditNext

(* add_log and security_log_event between the steps of the threads change  *)
(* nothing: the server that logs is the server of ServerResources, and of  *)
(* ServerSocket.                                                           *)
THEOREM AuditImplements == AuditSpec => ResourceSpec
<1>1. AuditInit => ResourceInit
  BY DEF AuditInit
<1> QED
  BY <1>1, AuditStepOf, PTL DEF AuditSpec, ResourceSpec

-----------------------------------------------------------------------------
(* FlattenSeq, which is defined by recursion over the sequence. Its        *)
(* function exists for every length: a least length without one has a      *)
(* predecessor with one, which can be extended.                            *)

IsFlatten(f, s, n) ==
  f = [i \in 1..n |-> IF i = 1 THEN s[i] ELSE f[i - 1] \o s[i]]

LEMMA LeastOf ==
  ASSUME NEW S \in SUBSET Nat, S # {}
  PROVE  \E n \in S : \A m \in S : n <= m
<1>1. PICK n \in S : \A m \in S : <<m, n>> \notin OpToRel(<, Nat)
  BY NatLessThanWellFounded, WFMin, Zenon
<1>2. \A m \in S : ~ (m < n)
  BY <1>1, Zenon DEF OpToRel
<1>3. \A m \in S : n <= m
  BY <1>2
<1> QED
  BY <1>3

LEMMA FlattenExists ==
  ASSUME NEW s, NEW n \in Nat
  PROVE  \E f : IsFlatten(f, s, n)
<1> DEFINE S == {m \in Nat : ~ \E f : IsFlatten(f, s, m)}
<1> SUFFICES ASSUME S # {} PROVE FALSE
  OBVIOUS
<1>1. PICK m \in S : \A k \in S : m <= k
  BY LeastOf
<1>2. IsFlatten([i \in 1..0 |-> s[i]], s, 0)
  BY DEF IsFlatten
<1>3. m # 0
  BY <1>2
<1>4. m - 1 \in Nat /\ m - 1 \notin S
  BY <1>1, <1>3
<1>5. PICK g : IsFlatten(g, s, m - 1)
  BY <1>4
<1> DEFINE f == [i \in 1..m |-> IF i < m THEN g[i]
                              ELSE IF m = 1 THEN s[m] ELSE g[m - 1] \o s[m]]
<1>6. \A i \in 1..(m - 1) : g[i] = IF i = 1 THEN s[i] ELSE g[i - 1] \o s[i]
  <2>1. g = [i \in 1..(m - 1) |-> IF i = 1 THEN s[i] ELSE g[i - 1] \o s[i]]
    BY <1>5 DEF IsFlatten
  <2> QED
    BY <2>1, Zenon
<1>7. ASSUME NEW i \in 1..m
      PROVE  f[i] = IF i = 1 THEN s[i] ELSE f[i - 1] \o s[i]
  <2>1. m \in Nat \ {0} /\ i \in Nat \ {0} /\ i <= m
    BY <1>3
  <2>2. CASE i < m
    <3>1. f[i] = g[i] /\ i \in 1..(m - 1)
      BY <2>1, <2>2
    <3>2. i # 1 => i - 1 \in 1..m /\ i - 1 < m /\ f[i - 1] = g[i - 1]
      BY <2>1, <2>2
    <3> QED
      BY <1>6, <3>1, <3>2
  <2>3. CASE i = m /\ m # 1
    <3>1. m - 1 \in 1..m /\ m - 1 < m
      BY <2>1, <2>3
    <3>2. f[m - 1] = g[m - 1]
      BY <3>1
    <3>3. f[m] = IF m < m THEN g[m]
                 ELSE IF m = 1 THEN s[m] ELSE g[m - 1] \o s[m]
      <4>1. m \in 1..m
        BY <2>1
      <4> QED
        BY <4>1, Zenon
    <3>4. ~ (m < m)
      BY <2>1
    <3> HIDE DEF f
    <3> QED
      BY <2>3, <3>2, <3>3, <3>4
  <2>4. CASE i = m /\ m = 1
    BY <2>4
  <2> QED
    BY <2>1, <2>2, <2>3, <2>4
<1>8. IsFlatten(f, s, m)
  <2>1. f = [i \in 1..m |-> f[i]]
    OBVIOUS
  <2> HIDE DEF f
  <2> QED
    BY <1>7, <2>1, Zenon DEF IsFlatten
<1> QED
  BY <1>8

(* The function, with what it returns.                                     *)
Flat(s) == CHOOSE f : IsFlatten(f, s, Len(s))

LEMMA FlatIs ==
  ASSUME NEW s, Len(s) \in Nat
  PROVE  /\ Flat(s) = [i \in 1..Len(s) |-> Flat(s)[i]]
         /\ \A i \in 1..Len(s) :
              Flat(s)[i] = IF i = 1 THEN s[i] ELSE Flat(s)[i - 1] \o s[i]
<1>1. IsFlatten(Flat(s), s, Len(s))
  BY FlattenExists DEF Flat
<1>2. Flat(s) = [i \in 1..Len(s) |->
                   IF i = 1 THEN s[i] ELSE Flat(s)[i - 1] \o s[i]]
  BY <1>1 DEF IsFlatten
<1> QED
  BY <1>2, Zenon

LEMMA FlattenIs ==
  ASSUME NEW s, Len(s) \in Nat \ {0}
  PROVE  Seqs!FlattenSeq(s) = Flat(s)[Len(s)]
BY DEF Seqs!FlattenSeq, Flat, IsFlatten

(* Its value up to m depends on the first m elements.                      *)
LEMMA FlatSame ==
  ASSUME NEW s, NEW t, Len(s) \in Nat, Len(t) \in Nat,
         NEW m \in Nat, m <= Len(s), m <= Len(t),
         \A i \in 1..m : s[i] = t[i]
  PROVE  \A i \in 1..m : Flat(s)[i] = Flat(t)[i]
<1> DEFINE S == {i \in 1..m : Flat(s)[i] # Flat(t)[i]}
<1> SUFFICES ASSUME S # {} PROVE FALSE
  OBVIOUS
<1>1. PICK i \in S : \A j \in S : i <= j
  <2>1. S \subseteq 1..m /\ 1..m \subseteq Nat
    OBVIOUS
  <2> HIDE DEF S
  <2> QED
    BY <2>1, LeastOf
<1>2. i \in 1..m /\ Flat(s)[i] # Flat(t)[i]
  OBVIOUS
<1>3. i # 1 => i - 1 \in 1..m /\ i - 1 \notin S
  BY <1>1, <1>2
<1>4. i # 1 => Flat(s)[i - 1] = Flat(t)[i - 1]
  BY <1>3
<1>5. i \in 1..Len(s) /\ i \in 1..Len(t) /\ s[i] = t[i]
  BY <1>2
<1> HIDE DEF S
<1> QED
  BY <1>2, <1>4, <1>5, FlatIs

LEMMA FlatTyped ==
  ASSUME NEW X, NEW s \in Seq(Seq(X))
  PROVE  \A i \in 1..Len(s) : Flat(s)[i] \in Seq(X)
<1> DEFINE S == {i \in 1..Len(s) : Flat(s)[i] \notin Seq(X)}
<1> SUFFICES ASSUME S # {} PROVE FALSE
  OBVIOUS
<1>0. Len(s) \in Nat /\ \A i \in 1..Len(s) : s[i] \in Seq(X)
  OBVIOUS
<1>1. PICK i \in S : \A j \in S : i <= j
  <2>1. S \subseteq 1..Len(s) /\ 1..Len(s) \subseteq Nat
    BY <1>0
  <2> HIDE DEF S
  <2> QED
    BY <2>1, LeastOf
<1>2. i \in 1..Len(s) /\ Flat(s)[i] \notin Seq(X) /\ s[i] \in Seq(X)
  BY <1>0
<1>3. i # 1 => i - 1 \in 1..Len(s) /\ i - 1 \notin S
  BY <1>0, <1>1, <1>2
<1>4. i # 1 => Flat(s)[i - 1] \in Seq(X)
  BY <1>3
<1>5. Flat(s)[i] = IF i = 1 THEN s[i] ELSE Flat(s)[i - 1] \o s[i]
  BY <1>0, <1>2, FlatIs
<1>6. i # 1 => Flat(s)[i - 1] \o s[i] \in Seq(X)
  BY <1>2, <1>4, ConcatProperties
<1> QED
  BY <1>2, <1>5, <1>6

(* Flattening, one sequence at a time.                                     *)
LEMMA FlattenEmpty ==
  Seqs!FlattenSeq(<<>>) = <<>>
BY DEF Seqs!FlattenSeq

LEMMA FlattenType ==
  ASSUME NEW X, NEW s \in Seq(Seq(X))
  PROVE  Seqs!FlattenSeq(s) \in Seq(X)
<1>1. CASE s = <<>>
  <2>1. <<>> \in Seq(X)
    OBVIOUS
  <2> QED
    BY <1>1, <2>1, FlattenEmpty, Zenon
<1>2. CASE s # <<>>
  <2>1. Len(s) \in Nat \ {0}
    BY <1>2, EmptySeq, LenProperties, Zenon
  <2>2. Len(s) \in 1..Len(s)
    BY <2>1
  <2> QED
    BY <2>1, <2>2, FlattenIs, FlatTyped
<1> QED
  BY <1>1, <1>2

LEMMA FlattenAppend ==
  ASSUME NEW X, NEW s \in Seq(Seq(X)), NEW x \in Seq(X)
  PROVE  Seqs!FlattenSeq(Append(s, x)) = Seqs!FlattenSeq(s) \o x
<1> DEFINE t == Append(s, x)
           n == Len(s)
<1>1. /\ Len(s) \in Nat /\ Len(t) = Len(s) + 1 /\ t[Len(s) + 1] = x
      /\ \A i \in 1..Len(s) : t[i] = s[i]
  BY AppendProperties, LenProperties
<1> HIDE DEF t
<1>2. Seqs!FlattenSeq(t) = Flat(t)[n + 1]
  BY <1>1, FlattenIs
<1>3. Flat(t)[n + 1] = IF n = 0 THEN x ELSE Flat(t)[n] \o x
  <2>1. n + 1 \in 1..Len(t) /\ Len(t) \in Nat /\ (n + 1) - 1 = n
    BY <1>1
  <2>2. Flat(t)[n + 1] = IF n + 1 = 1 THEN t[n + 1] ELSE Flat(t)[(n + 1) - 1] \o t[n + 1]
    BY <2>1, FlatIs, Zenon
  <2>3. n + 1 = 1 <=> n = 0
    BY <1>1
  <2> QED
    BY <1>1, <2>1, <2>2, <2>3
<1>4. CASE n = 0
  <2>1. s = <<>>
    BY <1>4, EmptySeq
  <2>2. <<>> \o x = x
    BY ConcatEmptySeq
  <2> QED
    BY <1>2, <1>3, <1>4, <2>1, <2>2, FlattenEmpty DEF t
<1>5. CASE n # 0
  <2>1. n \in 1..n /\ n \in Nat \ {0}
    BY <1>1, <1>5
  <2>2. Flat(t)[n] = Flat(s)[n]
    <3>1. n <= Len(s) /\ n <= Len(t) /\ Len(t) \in Nat /\ n \in Nat
      BY <1>1
    <3>2. \A i \in 1..n : t[i] = s[i]
      BY <1>1
    <3> HIDE DEF n
    <3>3. \A i \in 1..n : Flat(t)[i] = Flat(s)[i]
      BY <1>1, <3>1, <3>2, FlatSame
    <3> QED
      BY <2>1, <3>3
  <2> QED
    BY <1>2, <1>3, <1>5, <2>1, <2>2, FlattenIs DEF t
<1> QED
  BY <1>4, <1>5

(* The same for the first n values of a function.                          *)
LEMMA FlattenUpTo ==
  ASSUME NEW X, NEW n \in Nat, NEW f,
         \A i \in 1..(n + 1) : f[i] \in Seq(X)
  PROVE  /\ Seqs!FlattenSeq([i \in 1..n |-> f[i]]) \in Seq(X)
         /\ Seqs!FlattenSeq([i \in 1..(n + 1) |-> f[i]])
              = Seqs!FlattenSeq([i \in 1..n |-> f[i]]) \o f[n + 1]
<1> DEFINE s == [i \in 1..n |-> f[i]]
           t == [i \in 1..(n + 1) |-> f[i]]
           u == Append(s, f[n + 1])
<1>1. s \in Seq(Seq(X)) /\ Len(s) = n /\ t \in Seq(Seq(X)) /\ Len(t) = n + 1
  OBVIOUS
<1>2. f[n + 1] \in Seq(X)
  OBVIOUS
<1>3. /\ u \in Seq(Seq(X)) /\ Len(u) = n + 1 /\ u[n + 1] = f[n + 1]
      /\ \A i \in 1..n : u[i] = s[i]
  <2> HIDE DEF s
  <2> QED
    BY <1>1, <1>2, AppendProperties
<1>4. \A i \in 1..(n + 1) : u[i] = t[i]
  <2>1. \A i \in 1..n : s[i] = f[i]
    OBVIOUS
  <2>2. \A i \in 1..(n + 1) : t[i] = f[i]
    OBVIOUS
  <2>3. \A i \in 1..(n + 1) : i \in 1..n \/ i = n + 1
    OBVIOUS
  <2> HIDE DEF s, t, u
  <2> QED
    BY <1>3, <2>1, <2>2, <2>3
<1> HIDE DEF s, t, u
<1>5. u = t
  BY <1>1, <1>3, <1>4, SeqEqual
<1>6. Seqs!FlattenSeq(u) = Seqs!FlattenSeq(s) \o f[n + 1]
  BY <1>1, <1>2, FlattenAppend DEF u
<1>7. Seqs!FlattenSeq(s) \in Seq(X)
  BY <1>1, FlattenType
<1> QED
  BY <1>5, <1>6, <1>7 DEF s, t

-----------------------------------------------------------------------------
(* The story of a connection, step by step.                                *)

LEMMA LineTypes ==
  /\ \A kind \in LineKind : Line(kind) \in LogLine
  /\ \A v \in Message : VotoLine(v) \in LogLine
  /\ \A kind \in NackKind \cup {"ACK"} : ReplyLine(kind) \in LogLine
<1>1. \A kind \in LineKind : Line(kind) \in LogLine
  BY DEF Line, LogLine, Message
<1>2. \A v \in Message : VotoLine(v) \in LogLine
  BY DEF VotoLine, LogLine, LineKind
<1>3. \A kind \in NackKind \cup {"ACK"} : ReplyLine(kind) \in LogLine
  BY <1>1 DEF NackKind, ReplyLine, LineKind
<1> QED
  BY <1>1, <1>2, <1>3

LEMMA AboutType ==
  ASSUME TypeOK, NEW c \in Conns, NEW i \in 1..Len(sent[c])
  PROVE  About(c, i) \in Seq(LogLine)
<1>1. sent[c] \in Seq(Message) /\ replies[c] \in Seq(Reply)
  BY DEF TypeOK
<1>2. sent[c][i] \in Message
  BY <1>1
<1>3. i \in Nat \ {0} /\ Len(replies[c]) \in Nat
  BY <1>1
<1>4. ASSUME ~ (i > Len(replies[c])) PROVE ReplyLine(replies[c][i].kind) \in LogLine
  <2>1. replies[c][i] \in Reply
    BY <1>1, <1>3, <1>4
  <2> QED
    BY <2>1, LineTypes DEF Reply
<1> DEFINE a == IF sent[c][i] = Malformed THEN <<>> ELSE <<VotoLine(sent[c][i])>>
           b == IF i > Len(replies[c]) THEN <<>> ELSE <<ReplyLine(replies[c][i].kind)>>
<1>5. a \in Seq(LogLine)
  BY <1>2, LineTypes
<1>6. b \in Seq(LogLine)
  BY <1>4
<1> HIDE DEF a, b
<1>7. a \o b \in Seq(LogLine)
  BY <1>5, <1>6, ConcatProperties
<1> QED
  BY <1>7 DEF About, a, b

LEMMA MessagesType ==
  ASSUME IInv, NEW c \in Conns
  PROVE  Messages(c) \in Seq(LogLine) /\ Session(c) \in Seq(LogLine)
<1>1. /\ got[c] \in Nat /\ got[c] <= Len(sent[c]) /\ sent[c] \in Seq(Message)
      /\ TypeOK
  BY DEF IInv, TypeOK, Paired
<1>2. \A i \in 1..got[c] : i \in 1..Len(sent[c])
  BY <1>1
<1>3. [i \in 1..got[c] |-> About(c, i)] \in Seq(Seq(LogLine))
  <2>1. \A i \in 1..got[c] : About(c, i) \in Seq(LogLine)
    BY <1>1, <1>2, AboutType
  <2> QED
    BY <1>1, <2>1
<1>4. Messages(c) \in Seq(LogLine)
  BY <1>3, FlattenType DEF Messages
<1>5. <<Line("Novo_cliente")>> \in Seq(LogLine)
  BY LineTypes DEF LineKind
<1>6. <<Line("Novo_cliente")>> \o Messages(c) \in Seq(LogLine)
  BY <1>4, <1>5, ConcatProperties, Zenon
<1> QED
  BY <1>4, <1>6 DEF Session

(* What is about the messages stays when what they are about stays.        *)
LEMMA MessagesSame ==
  ASSUME NEW c \in Conns, got'[c] = got[c],
         \A i \in 1..got[c] : About(c, i)' = About(c, i)
  PROVE  Messages(c)' = Messages(c)
<1>1. [i \in 1..got[c] |-> About(c, i)]' = [i \in 1..got[c] |-> About(c, i)]
  <2>1. [i \in 1..got[c] |-> About(c, i)]' = [i \in 1..got'[c] |-> About(c, i)']
    OBVIOUS
  <2> QED
    BY <2>1, Zenon
<1> QED
  BY <1>1 DEF Messages

(* It holds in the next state as well.                                     *)
AboutTyped ==
  TypeOK => \A c \in Conns : \A i \in 1..Len(sent[c]) : About(c, i) \in Seq(LogLine)

LEMMA AboutTypes == AboutTyped
  BY AboutType DEF AboutTyped

LEMMA AboutTypesNext == AboutTyped'
  BY AboutTypes, PTL

(* A message is read.                                                      *)
LEMMA MessagesRead ==
  ASSUME IInv, TypeOK', NEW c \in Conns, got'[c] = got[c] + 1,
         got'[c] <= Len(sent'[c]),
         \A i \in 1..got[c] : About(c, i)' = About(c, i)
  PROVE  Messages(c)' = Messages(c) \o About(c, got[c])'
<1> DEFINE n == got[c]
           f == [i \in 1..(n + 1) |-> About(c, i)']
<1>1. n \in Nat /\ got'[c] = n + 1 /\ sent'[c] \in Seq(Message)
  BY DEF IInv, TypeOK
<1>2. \A i \in 1..(n + 1) : About(c, i)' \in Seq(LogLine)
  <2>1. \A i \in 1..Len(sent'[c]) : About(c, i)' \in Seq(LogLine)
    BY AboutTypesNext DEF AboutTyped
  <2>2. \A i \in 1..(n + 1) : i \in 1..Len(sent'[c])
    BY <1>1
  <2> QED
    BY <2>1, <2>2
<1>3. \A i \in 1..(n + 1) : f[i] \in Seq(LogLine)
  BY <1>2
<1>4. Messages(c)' = Seqs!FlattenSeq([i \in 1..(n + 1) |-> f[i]])
  <2>1. Messages(c)' = Seqs!FlattenSeq([i \in 1..got'[c] |-> About(c, i)'])
    BY DEF Messages
  <2>2. [i \in 1..got'[c] |-> About(c, i)'] = [i \in 1..(n + 1) |-> f[i]]
    BY <1>1, Zenon
  <2> QED
    BY <2>1, <2>2, Zenon
<1>5. Messages(c) = Seqs!FlattenSeq([i \in 1..n |-> f[i]])
  <2>1. [i \in 1..n |-> About(c, i)] = [i \in 1..n |-> f[i]]
    <3>1. \A i \in 1..n : i \in 1..(n + 1)
      BY <1>1
    <3>2. \A i \in 1..n : f[i] = About(c, i)
      BY <3>1
    <3> HIDE DEF f
    <3> QED
      BY <3>2, Zenon
  <2> QED
    BY <2>1, Zenon DEF Messages
<1>6. f[n + 1] = About(c, got[c])'
  <2>1. n + 1 \in 1..(n + 1) /\ n + 1 = got'[c]
    BY <1>1
  <2> QED
    BY <2>1, Zenon
<1>7. n \in Nat
  BY <1>1
<1> HIDE DEF f, n
<1>8. Seqs!FlattenSeq([i \in 1..(n + 1) |-> f[i]])
        = Seqs!FlattenSeq([i \in 1..n |-> f[i]]) \o f[n + 1]
  BY ONLY <1>3, <1>7, FlattenUpTo
<1> QED
  BY <1>4, <1>5, <1>6, <1>8, Zenon DEF n

(* The message that is served is answered.                                 *)
LEMMA MessagesAnswered ==
  ASSUME IInv, NEW c \in Conns, NEW x \in LogLine,
         got[c] # 0, got'[c] = got[c],
         \A i \in 1..(got[c] - 1) : About(c, i)' = About(c, i),
         About(c, got[c])' = About(c, got[c]) \o <<x>>
  PROVE  Messages(c)' = Messages(c) \o <<x>>
<1> DEFINE n == got[c] - 1
           f == [i \in 1..(n + 1) |-> About(c, i)]
           g == [i \in 1..(n + 1) |-> About(c, i)']
           before == Seqs!FlattenSeq([i \in 1..n |-> f[i]])
<1>1. /\ n \in Nat /\ got[c] = n + 1 /\ sent[c] \in Seq(Message)
      /\ n + 1 <= Len(sent[c]) /\ TypeOK
  <2>1. got[c] \in Nat /\ got[c] <= Len(sent[c]) /\ sent[c] \in Seq(Message) /\ TypeOK
    BY DEF IInv, TypeOK, Paired
  <2> QED
    BY <2>1
<1>2. \A i \in 1..(n + 1) : f[i] \in Seq(LogLine)
  <2>1. \A i \in 1..(n + 1) : i \in 1..Len(sent[c])
    BY <1>1
  <2> QED
    BY <1>1, <2>1, AboutType
<1>3. <<x>> \in Seq(LogLine)
  OBVIOUS
<1>4. f[n + 1] = About(c, n + 1) /\ g[n + 1] = f[n + 1] \o <<x>>
  <2>1. n + 1 \in 1..(n + 1) /\ n + 1 = got[c]
    BY <1>1
  <2> QED
    BY <2>1, Zenon
<1>5. \A i \in 1..n : g[i] = f[i]
  <2>1. \A i \in 1..n : i \in 1..(n + 1)
    BY <1>1
  <2> QED
    BY <2>1, Zenon
<1>6. Messages(c) = Seqs!FlattenSeq([i \in 1..(n + 1) |-> f[i]])
  BY <1>1, Zenon DEF Messages
<1>7. Messages(c)' = Seqs!FlattenSeq([i \in 1..(n + 1) |-> g[i]])
  <2>1. Messages(c)' = Seqs!FlattenSeq([i \in 1..got'[c] |-> About(c, i)'])
    BY DEF Messages
  <2> QED
    BY <1>1, <2>1, Zenon
<1>8. [i \in 1..n |-> g[i]] = [i \in 1..n |-> f[i]]
  <2> HIDE DEF f, g
  <2> QED
    BY <1>5, Zenon
<1>13. n \in Nat
  BY <1>1
<1> HIDE DEF n, f, g
<1>9. before \in Seq(LogLine) /\ Messages(c) = before \o f[n + 1]
  <2>1. /\ before \in Seq(LogLine)
        /\ Seqs!FlattenSeq([i \in 1..(n + 1) |-> f[i]]) = before \o f[n + 1]
    BY ONLY <1>2, <1>13, FlattenUpTo
  <2> QED
    BY <1>6, <2>1, Zenon
<1>10. \A i \in 1..(n + 1) : g[i] \in Seq(LogLine)
  <2>1. \A i \in 1..(n + 1) : i \in 1..n \/ i = n + 1
    BY <1>1
  <2>2. n + 1 \in 1..(n + 1)
    BY <1>1
  <2>3. f[n + 1] \o <<x>> \in Seq(LogLine)
    BY <1>2, <1>3, <2>2, ConcatProperties
  <2>4. \A i \in 1..n : i \in 1..(n + 1)
    BY <1>1
  <2> QED
    BY <1>2, <1>4, <1>5, <2>1, <2>3, <2>4
<1>11. Messages(c)' = before \o (f[n + 1] \o <<x>>)
  <2>1. Seqs!FlattenSeq([i \in 1..(n + 1) |-> g[i]])
          = Seqs!FlattenSeq([i \in 1..n |-> g[i]]) \o g[n + 1]
    BY ONLY <1>10, <1>13, FlattenUpTo
  <2> QED
    BY <1>4, <1>7, <1>8, <2>1, Zenon
<1>12. (before \o f[n + 1]) \o <<x>> = before \o (f[n + 1] \o <<x>>)
  <2>1. f[n + 1] \in Seq(LogLine)
    <3>1. n + 1 \in 1..(n + 1)
      BY <1>13
    <3> QED
      BY <1>2, <3>1
  <2>2. \A p, q, r \in Seq(LogLine) : (p \o q) \o r = p \o (q \o r)
    BY ConcatAssociative
  <2> QED
    BY <1>3, <1>9, <2>1, <2>2, Zenon
<1> QED
  BY <1>9, <1>11, <1>12

-----------------------------------------------------------------------------
(* What a step leaves of the logs.                                         *)

LogsTyped ==
  owed \in [Writer -> Seq(LogLine)] /\ lines \in [Writer -> Seq(LogLine)]

LEMMA AppendHead ==
  ASSUME NEW X, NEW l \in Seq(X), NEW o \in Seq(X), o # <<>>
  PROVE  Append(l, Head(o)) \o Tail(o) = l \o o
<1>1. Head(o) \in X /\ Tail(o) \in Seq(X) /\ o = <<Head(o)>> \o Tail(o)
  BY HeadTailProperties, ConcatProperties
<1>2. Append(l, Head(o)) = l \o <<Head(o)>>
  BY <1>1, AppendIsConcat
<1>3. <<Head(o)>> \in Seq(X)
  BY <1>1
<1>4. (l \o <<Head(o)>>) \o Tail(o) = l \o (<<Head(o)>> \o Tail(o))
  BY <1>1, <1>3, ConcatAssociative
<1> QED
  BY <1>1, <1>2, <1>4, Zenon

LEMMA OweAppends ==
  ASSUME LogsTyped, NEW t \in Writer, NEW x \in LogLine, owed[t] = <<>>, Owe(t, <<x>>)
  PROVE  /\ LogsTyped' /\ old' = old
         /\ Trail(t)' = Trail(t) \o <<x>>
         /\ \A u \in Writer \ {t} : Trail(u)' = Trail(u)
<1>1. /\ owed' = [owed EXCEPT ![t] = <<x>>] /\ lines' = lines /\ old' = old
      /\ lines[t] \in Seq(LogLine) /\ <<x>> \in Seq(LogLine)
  BY DEF LogsTyped, Owe
<1>2. LogsTyped'
  BY <1>1 DEF LogsTyped
<1>3. Trail(t)' = lines[t] \o <<x>>
  BY <1>1 DEF LogsTyped, Trail
<1>4. Trail(t) = lines[t]
  BY <1>1, ConcatEmptySeq DEF Trail
<1>5. \A u \in Writer \ {t} : Trail(u)' = Trail(u)
  BY <1>1 DEF LogsTyped, Trail
<1> QED
  BY <1>1, <1>2, <1>3, <1>4, <1>5

LEMMA SilentKeeps ==
  ASSUME LogsTyped, Silent
  PROVE  LogsTyped' /\ old' = old /\ \A u \in Writer : Trail(u)' = Trail(u)
BY DEF LogsTyped, Silent, log, Trail

LEMMA AddLogKeeps ==
  ASSUME LogsTyped, NEW t \in Writer, AddLog(t)
  PROVE  LogsTyped' /\ old' = old /\ \A u \in Writer : Trail(u)' = Trail(u)
<1>1. /\ owed' = [owed EXCEPT ![t] = Tail(owed[t])]
      /\ lines' = [lines EXCEPT ![t] = Append(lines[t], Head(owed[t]))]
      /\ old' = old /\ owed[t] # <<>>
      /\ lines[t] \in Seq(LogLine) /\ owed[t] \in Seq(LogLine)
  BY DEF LogsTyped, AddLog
<1>2. /\ Tail(owed[t]) \in Seq(LogLine) /\ Head(owed[t]) \in LogLine
      /\ Append(lines[t], Head(owed[t])) \in Seq(LogLine)
  BY <1>1, HeadTailProperties, AppendProperties
<1>3. LogsTyped'
  BY <1>1, <1>2 DEF LogsTyped
<1>4. Trail(t)' = Trail(t)
  <2>1. Trail(t)' = Append(lines[t], Head(owed[t])) \o Tail(owed[t])
    BY <1>1 DEF LogsTyped, Trail
  <2> QED
    BY <1>1, <2>1, AppendHead DEF Trail
<1>5. \A u \in Writer \ {t} : Trail(u)' = Trail(u)
  BY <1>1 DEF LogsTyped, Trail
<1> QED
  BY <1>1, <1>3, <1>4, <1>5

LEMMA TrailTyped ==
  ASSUME LogsTyped, NEW t \in Writer
  PROVE  Trail(t) \in Seq(LogLine)
BY ConcatProperties DEF LogsTyped, Trail

LEMMA MarksIn ==
  ASSUME NEW S, NEW kind, NEW z
  PROVE  z \in Marks(S, kind) <=>
           \E d \in Conns : \E i \in DOMAIN S[d] : z = <<d, i>> /\ S[d][i].kind = kind
<1>1. z \in Marks(S, kind) <=>
        \E d \in Conns : z \in {d} \X {i \in DOMAIN S[d] : S[d][i].kind = kind}
  BY DEF Marks
<1>2. ASSUME NEW d \in Conns
      PROVE  z \in {d} \X {i \in DOMAIN S[d] : S[d][i].kind = kind} <=>
               \E i \in DOMAIN S[d] : z = <<d, i>> /\ S[d][i].kind = kind
  OBVIOUS
<1> QED
  BY <1>1, <1>2, Zenon

(* The marks after a line is written on c are those before and, if it is   *)
(* of that kind, the new line.                                             *)
LEMMA CountAppend ==
  ASSUME LogsTyped, NEW c \in Conns, NEW x \in LogLine, NEW kind,
         Trail(c)' = Trail(c) \o <<x>>,
         \A d \in Conns \ {c} : Trail(d)' = Trail(d),
         IsFiniteSet(Marks(Trails, kind))
  PROVE  /\ IsFiniteSet(Marks(Trails, kind)')
         /\ Count(Trails, kind) \in Nat
         /\ Count(Trails, kind)' = Count(Trails, kind) + IF x.kind = kind THEN 1 ELSE 0
<1> DEFINE S == Trails
           T == Trails'
           n == Len(S[c])
           last == <<c, n + 1>>
<1>1. \A d \in Conns : S[d] \in Seq(LogLine)
  BY TrailTyped DEF Trails, Writer
<1>2. T[c] = S[c] \o <<x>> /\ \A d \in Conns \ {c} : T[d] = S[d]
  BY DEF Trails
<1>3. /\ IsFiniteSet(Marks(S, kind))
      /\ Marks(Trails, kind)' = Marks(T, kind) /\ Count(Trails, kind)' = Count(T, kind)
  BY DEF Marks, Count
<1> HIDE DEF S, T
<1>4. /\ n \in Nat /\ DOMAIN S[c] = 1..n /\ DOMAIN T[c] = 1..(n + 1)
      /\ T[c][n + 1] = x /\ \A i \in 1..n : T[c][i] = S[c][i]
  BY <1>1, <1>2
<1>5. ASSUME NEW z
      PROVE  z \in Marks(T, kind) <=>
               z \in Marks(S, kind) \/ (x.kind = kind /\ z = last)
  <2>1. \A i : i \in DOMAIN T[c] <=> i \in DOMAIN S[c] \/ i = n + 1
    BY <1>4
  <2>2. \A i \in DOMAIN S[c] : T[c][i] = S[c][i]
    BY <1>4
  <2> HIDE DEF n
  <2>3. (\E i \in DOMAIN T[c] : z = <<c, i>> /\ T[c][i].kind = kind)
          <=> \/ \E i \in DOMAIN S[c] : z = <<c, i>> /\ S[c][i].kind = kind
              \/ x.kind = kind /\ z = last
    <3>1. ASSUME NEW i \in DOMAIN T[c], z = <<c, i>>, T[c][i].kind = kind
          PROVE  \/ \E j \in DOMAIN S[c] : z = <<c, j>> /\ S[c][j].kind = kind
                 \/ x.kind = kind /\ z = last
      BY <1>4, <2>1, <2>2, <3>1
    <3>2. ASSUME NEW i \in DOMAIN S[c], z = <<c, i>>, S[c][i].kind = kind
          PROVE  \E j \in DOMAIN T[c] : z = <<c, j>> /\ T[c][j].kind = kind
      BY <2>1, <2>2, <3>2
    <3>3. ASSUME x.kind = kind, z = last
          PROVE  \E j \in DOMAIN T[c] : z = <<c, j>> /\ T[c][j].kind = kind
      BY <1>4, <2>1, <3>3
    <3> QED
      BY <3>1, <3>2, <3>3
  <2>4. \A R, d : d \in Conns =>
          (z \in Marks(R, kind) <=>
             \/ \E i \in DOMAIN R[d] : z = <<d, i>> /\ R[d][i].kind = kind
             \/ \E e \in Conns \ {d} : \E i \in DOMAIN R[e] :
                  z = <<e, i>> /\ R[e][i].kind = kind)
    BY MarksIn
  <2>5. (\E e \in Conns \ {c} : \E i \in DOMAIN T[e] :
                  z = <<e, i>> /\ T[e][i].kind = kind) <=>
        (\E e \in Conns \ {c} : \E i \in DOMAIN S[e] :
                  z = <<e, i>> /\ S[e][i].kind = kind)
    BY <1>2
  <2> QED
    BY <2>3, <2>4, <2>5
<1>6. last \notin Marks(S, kind)
  <2> SUFFICES ASSUME NEW d \in Conns, NEW i \in DOMAIN S[d], last = <<d, i>>
               PROVE  FALSE
    BY MarksIn
  <2>1. d = c /\ i = n + 1
    OBVIOUS
  <2> QED
    BY <1>4, <2>1
<1>7. Count(S, kind) \in Nat
  BY <1>3, FS_CardinalityType DEF Count
<1> HIDE DEF last
<1>8. CASE x.kind = kind
  <2>1. Marks(T, kind) = Marks(S, kind) \cup {last}
    BY <1>5, <1>8
  <2>2. IsFiniteSet(Marks(T, kind)) /\ Count(T, kind) = Count(S, kind) + 1
    BY <1>3, <1>6, <2>1, FS_AddElement DEF Count
  <2> QED
    BY <1>3, <1>7, <1>8, <2>2 DEF S
<1>9. CASE x.kind # kind
  <2>1. Marks(T, kind) = Marks(S, kind)
    BY <1>5, <1>9
  <2>2. IsFiniteSet(Marks(T, kind)) /\ Count(T, kind) = Count(S, kind)
    BY <1>3, <2>1 DEF Count
  <2> QED
    BY <1>3, <1>7, <1>9, <2>2 DEF S
<1> QED
  BY <1>3, <1>7, <1>8, <1>9 DEF S

LEMMA CountStays ==
  ASSUME \A d \in Conns : Trail(d)' = Trail(d), NEW kind
  PROVE  /\ Marks(Trails, kind)' = Marks(Trails, kind)
         /\ Count(Trails, kind)' = Count(Trails, kind)
<1>1. Trails' = Trails
  BY DEF Trails
<1> QED
  BY <1>1 DEF Marks, Count

-----------------------------------------------------------------------------
(* The story of a connection after each step of its thread.                *)

LEMMA SessionSame ==
  ASSUME NEW c \in Conns, got'[c] = got[c], replies'[c] = replies[c],
         \A i \in 1..got[c] : sent'[c][i] = sent[c][i]
  PROVE  Messages(c)' = Messages(c) /\ Session(c)' = Session(c)
<1>1. \A i \in 1..got[c] : About(c, i)' = About(c, i)
  BY DEF About
<1>2. Messages(c)' = Messages(c)
  BY <1>1, MessagesSame
<1> QED
  BY <1>2 DEF Session, Line

LEMMA StorySame ==
  ASSUME NEW c \in Conns, got'[c] = got[c], replies'[c] = replies[c],
         \A i \in 1..got[c] : sent'[c][i] = sent[c][i],
         \/ handler'[c] = handler[c]
         \/ handler[c] \in Connected /\ handler'[c] \in Connected
  PROVE  Story(c)' = Story(c)
<1>1. Session(c)' = Session(c)
  BY SessionSame
<1>2. "failed" \notin Connected /\ "done" \notin Connected
  BY DEF Connected, Serving
<1> QED
  BY <1>1, <1>2 DEF Story, Line

LEMMA SessionAppend ==
  ASSUME IInv, NEW c \in Conns, NEW x \in LogLine, Messages(c)' = Messages(c) \o <<x>>
  PROVE  Session(c)' = Session(c) \o <<x>>
<1>1. /\ Messages(c) \in Seq(LogLine) /\ <<x>> \in Seq(LogLine)
      /\ <<Line("Novo_cliente")>> \in Seq(LogLine)
  BY MessagesType, LineTypes DEF LineKind
<1>2. \A p, q, r \in Seq(LogLine) : (p \o q) \o r = p \o (q \o r)
  BY ConcatAssociative
<1>3. Session(c)' = <<Line("Novo_cliente")>> \o (Messages(c) \o <<x>>)
  BY DEF Session, Line
<1> QED
  BY <1>1, <1>2, <1>3, Zenon DEF Session

(* The message in service is answered. *)
LEMMA AnswerTold ==
  ASSUME IInv, NEW c \in Conns, handler[c] \in Serving,
         NEW kind \in NackKind \cup {"ACK"}, NEW r \in Receipts \cup {NoReceipt},
         Send(c, kind, r), UNCHANGED <<sent, got>>
  PROVE  ReplyLine(kind) \in LogLine /\ Session(c)' = Session(c) \o <<ReplyLine(kind)>>
<1>1. /\ TypeOK /\ got[c] = Len(replies[c]) + 1 /\ Len(replies[c]) \in Nat
      /\ got[c] <= Len(sent[c]) /\ Current(c) # Malformed
  BY DEF IInv, TypeOK, Paired
<1>2. /\ Len(replies'[c]) = Len(replies[c]) + 1
      /\ replies'[c][Len(replies[c]) + 1].kind = kind
      /\ \A i \in 1..Len(replies[c]) : replies'[c][i] = replies[c][i]
  <2>1. /\ Len(replies'[c]) = Len(replies[c]) + 1
        /\ replies'[c][Len(replies[c]) + 1] = [kind |-> kind, receipt |-> r]
        /\ \A i \in 1..Len(replies[c]) : replies'[c][i] = replies[c][i]
    BY <1>1, SendAppends DEF TypeOK
  <2>2. replies'[c][Len(replies[c]) + 1].kind = kind
    BY <2>1
  <2> QED
    BY <2>1, <2>2
<1>3. ReplyLine(kind) \in LogLine
  BY LineTypes
<1>4. \A i \in 1..(got[c] - 1) : About(c, i)' = About(c, i)
  <2> SUFFICES ASSUME NEW i \in 1..(got[c] - 1) PROVE About(c, i)' = About(c, i)
    OBVIOUS
  <2>1. ~ (i > Len(replies[c])) /\ ~ (i > Len(replies'[c])) /\ replies'[c][i] = replies[c][i]
    BY <1>1, <1>2
  <2>2. sent' = sent
    OBVIOUS
  <2>3. About(c, i)' =
          (IF sent'[c][i] = Malformed THEN <<>> ELSE <<VotoLine(sent'[c][i])>>)
            \o (IF i > Len(replies'[c]) THEN <<>>
                ELSE <<ReplyLine(replies'[c][i].kind)>>)
    BY DEF About, ReplyLine, Line, VotoLine
  <2> QED
    BY <2>1, <2>2, <2>3, Zenon DEF About
<1>5. About(c, got[c])' = About(c, got[c]) \o <<ReplyLine(kind)>>
  <2>1. got[c] > Len(replies[c]) /\ ~ (got[c] > Len(replies'[c])) /\ got' = got /\ sent' = sent
    BY <1>1, <1>2
  <2>2. replies'[c][got[c]].kind = kind
    BY <1>1, <1>2
  <2>3. sent[c][got[c]] # Malformed
    BY <1>1 DEF Current
  <2>4. About(c, got[c]) = <<VotoLine(sent[c][got[c]])>> \o <<>>
    BY <2>1, <2>3 DEF About
  <2>5. About(c, got[c])' = <<VotoLine(sent[c][got[c]])>> \o <<ReplyLine(kind)>>
    BY <2>1, <2>2, <2>3 DEF About, VotoLine, ReplyLine, Line
  <2>6. <<VotoLine(sent[c][got[c]])>> \o <<>> = <<VotoLine(sent[c][got[c]])>>
    OBVIOUS
  <2> QED
    BY <2>4, <2>5, <2>6, Zenon
<1>6. Messages(c)' = Messages(c) \o <<ReplyLine(kind)>>
  <2>1. got[c] # 0 /\ got'[c] = got[c]
    BY <1>1
  <2> QED
    BY <1>3, <1>4, <1>5, <2>1, MessagesAnswered
<1> QED
  BY <1>3, <1>6, SessionAppend

(* A message is read. *)
LEMMA ReadTold ==
  ASSUME IInv, IInv', NEW c \in Conns, Recv(c)
  PROVE  LET x == IF sent[c][got'[c]] = Malformed
                  THEN Line("SEC_VALIDACAO")
                  ELSE VotoLine(sent[c][got'[c]])
         IN  x \in LogLine /\ Session(c)' = Session(c) \o <<x>>
<1> DEFINE v == sent[c][got'[c]]
           x == IF v = Malformed THEN Line("SEC_VALIDACAO") ELSE VotoLine(v)
<1>1. /\ TypeOK /\ TypeOK' /\ handler[c] = "recv" /\ got'[c] = got[c] + 1
      /\ got[c] \in Nat /\ got[c] < Len(sent[c]) /\ Len(sent[c]) \in Nat
      /\ sent' = sent /\ sent[c] \in Seq(Message)
  <2>1. /\ TypeOK /\ TypeOK' /\ handler[c] = "recv" /\ got[c] < Len(sent[c])
        /\ got' = [got EXCEPT ![c] = @ + 1] /\ sent' = sent
    BY DEF IInv, Recv
  <2>2. got \in [Conns -> Nat] /\ sent[c] \in Seq(Message)
    BY <2>1 DEF TypeOK
  <2> QED
    BY <2>1, <2>2
<1>2. Len(replies[c]) = got[c] /\ Len(replies'[c]) \in Nat
  <2>1. /\ Len(replies[c]) \in Nat /\ Len(replies[c]) <= got[c]
        /\ got[c] <= Len(replies[c]) + 1
        /\ got[c] = Len(replies[c]) + 1 => handler[c] \in Serving \cup {"gone"}
    <3>1. replies[c] \in Seq(Reply) /\ Paired
      BY <1>1 DEF IInv, TypeOK
    <3> QED
      BY <3>1 DEF Paired
  <2>2. handler[c] \notin Serving \cup {"gone"}
    BY <1>1 DEF Serving
  <2>3. replies'[c] \in Seq(Reply)
    BY <1>1 DEF TypeOK
  <2> QED
    BY <1>1, <2>1, <2>2, <2>3
<1>3. v \in Message /\ x \in LogLine
  <2>1. v \in Message
    BY <1>1
  <2> QED
    BY <2>1, LineTypes DEF LineKind
<1>4. /\ v = Malformed =>
           /\ Len(replies'[c]) = got[c] + 1
           /\ replies'[c][got[c] + 1].kind = "FORMATO_INVALIDO"
      /\ v # Malformed => replies' = replies
      /\ \A i \in 1..got[c] : replies'[c][i] = replies[c][i]
  <2>1. IF v = Malformed THEN Nack(c, "FORMATO_INVALIDO") ELSE replies' = replies
    BY <1>1 DEF Recv
  <2>2. CASE v = Malformed
    BY <1>1, <1>2, <2>1, <2>2, NackAnswers DEF NackKind
  <2>3. CASE v # Malformed
    BY <2>1, <2>3
  <2> QED
    BY <2>2, <2>3
<1> HIDE DEF v
<1>5. \A i \in 1..got[c] : About(c, i)' = About(c, i)
  <2> SUFFICES ASSUME NEW i \in 1..got[c] PROVE About(c, i)' = About(c, i)
    OBVIOUS
  <2>1. ~ (i > Len(replies[c])) /\ ~ (i > Len(replies'[c])) /\ replies'[c][i] = replies[c][i]
    BY <1>1, <1>2, <1>4
  <2>2. sent' = sent
    BY <1>1
  <2>3. About(c, i)' =
          (IF sent'[c][i] = Malformed THEN <<>> ELSE <<VotoLine(sent'[c][i])>>)
            \o (IF i > Len(replies'[c]) THEN <<>>
                ELSE <<ReplyLine(replies'[c][i].kind)>>)
    BY DEF About, ReplyLine, Line, VotoLine
  <2> QED
    BY <2>1, <2>2, <2>3, Zenon DEF About
<1>6. About(c, got[c])' = <<x>>
  <2>1. About(c, got[c])' =
          (IF v = Malformed THEN <<>> ELSE <<VotoLine(v)>>)
            \o (IF got'[c] > Len(replies'[c]) THEN <<>>
                ELSE <<ReplyLine(replies'[c][got'[c]].kind)>>)
    BY <1>1 DEF About, v, VotoLine, ReplyLine, Line
  <2>2. CASE v = Malformed
    <3>1. ~ (got'[c] > Len(replies'[c])) /\ replies'[c][got'[c]].kind = "FORMATO_INVALIDO"
      BY <1>1, <1>4, <2>2
    <3>2. ReplyLine("FORMATO_INVALIDO") = x
      BY <2>2 DEF ReplyLine
    <3>3. <<>> \o <<x>> = <<x>>
      OBVIOUS
    <3> QED
      BY <2>1, <2>2, <3>1, <3>2, <3>3, Zenon
  <2>3. CASE v # Malformed
    <3>1. got'[c] > Len(replies'[c])
      BY <1>1, <1>2, <1>4, <2>3
    <3>2. <<VotoLine(v)>> \o <<>> = <<VotoLine(v)>>
      OBVIOUS
    <3> QED
      BY <2>1, <2>3, <3>1, <3>2, Zenon
  <2> QED
    BY <2>2, <2>3
<1>7. Messages(c)' = Messages(c) \o <<x>>
  <2>1. got'[c] <= Len(sent'[c])
    BY <1>1
  <2> QED
    BY <1>1, <1>5, <1>6, <2>1, MessagesRead, Zenon
<1>8. Session(c)' = Session(c) \o <<x>>
  BY <1>3, <1>7, SessionAppend
<1> QED
  BY <1>3, <1>8 DEF v

-----------------------------------------------------------------------------
(* A step of the thread of c writes nothing and its story stays, or writes *)
(* one line and its story goes on with that line; and the numbers change   *)
(* as the line says.                                                       *)

Registering == {"count_vote", "ack"}

Balance(c, pc, kind) ==
  /\ Goto(c, pc)
  /\ connected_clients' =
       connected_clients + CASE kind = "Novo_cliente"         -> 1
                             [] kind = "Cliente_desconectado" -> -1
                             [] OTHER                         -> 0
  /\ Len(votos') - base' =
       (Len(votos) - base) + Change(c, pc, Registering)
         + IF kind = "Voto_registrado" THEN 1 ELSE 0

Mutes(c, pc) == Silent /\ Story(c)' = Story(c) /\ Balance(c, pc, "none")

Tells(c, pc, x) ==
  Owe(c, <<x>>) /\ Story(c)' = Story(c) \o <<x>> /\ Balance(c, pc, x.kind)

Heard(c) ==
  \E pc \in HandlerPc : Mutes(c, pc) \/ \E x \in LogLine : Tells(c, pc, x)

LEMMA StoryConnected ==
  ASSUME NEW c \in Conns
  PROVE  /\ handler[c] \in Connected => Story(c) = Session(c)
         /\ handler'[c] \in Connected => Story(c)' = Session(c)'
         /\ handler[c] \in Unheard => Story(c) = <<>>
         /\ handler'[c] \in Unheard => Story(c)' = <<>>
BY DEF Story, Connected, Serving, Unheard

LEMMA NumbersTyped ==
  ASSUME IInv
  PROVE  /\ handler \in [Conns -> HandlerPc] /\ connected_clients \in Int
         /\ votos \in Seq(Row) /\ Len(votos) \in Int /\ base \in Int
         /\ TypeOK
BY DEF IInv, TypeOK

(* What a move adds to the handlers that have a row and no line. *)
LEMMA Moved ==
  ASSUME IInv, NEW c \in Conns, NEW pc, Goto(c, pc)
  PROVE  /\ handler'[c] = pc
         /\ (handler[c] \notin Registering /\ pc \notin Registering)
              => Change(c, pc, Registering) = 0
         /\ (handler[c] \in Registering /\ pc \in Registering)
              => Change(c, pc, Registering) = 0
         /\ (handler[c] \notin Registering /\ pc \in Registering)
              => Change(c, pc, Registering) = 1
         /\ (handler[c] \in Registering /\ pc \notin Registering)
              => Change(c, pc, Registering) = -1
BY NumbersTyped DEF Goto, Change

LEMMA GreetTells ==
  ASSUME IInv, NEW c \in Conns,
         \/ SslAccept(c) /\ Silent
         \/ SslAcceptFails(c) /\ Owe(c, <<Line("SEC_SSL")>>)
  PROVE  Heard(c)
<1>1. /\ handler[c] = "ssl_accept" /\ UNCHANGED <<votos, base, connected_clients>>
      /\ Story(c) = <<>>
  BY StoryConnected DEF SslAccept, SslAcceptFails, Handshake, tables, counters, process, Unheard
<1>2. CASE SslAccept(c) /\ Silent
  <2>1. Goto(c, "enter")
    BY <1>1, <1>2, NumbersTyped DEF SslAccept, Handshake, Goto
  <2>2. handler'[c] = "enter" /\ Change(c, "enter", Registering) = 0
    BY <1>1, <2>1, Moved DEF Registering
  <2>3. Balance(c, "enter", "none")
    BY <1>1, <2>1, <2>2, NumbersTyped DEF Balance
  <2>4. Story(c)' = Story(c)
    BY <1>1, <2>2, StoryConnected DEF Unheard
  <2> QED
    BY <1>2, <2>3, <2>4 DEF Heard, Mutes, HandlerPc, Running
<1>3. CASE SslAcceptFails(c) /\ Owe(c, <<Line("SEC_SSL")>>)
  <2> DEFINE x == Line("SEC_SSL")
  <2>1. Goto(c, "failed")
    BY <1>1, <1>3, NumbersTyped DEF SslAcceptFails, Handshake, Goto
  <2>2. handler'[c] = "failed" /\ Change(c, "failed", Registering) = 0
    BY <1>1, <2>1, Moved DEF Registering
  <2>3. x.kind = "SEC_SSL" /\ x \in LogLine
    BY LineTypes DEF Line, LineKind
  <2>4. Balance(c, "failed", x.kind)
    BY <1>1, <2>1, <2>2, <2>3, NumbersTyped DEF Balance
  <2>5. Story(c)' = Story(c) \o <<x>>
    <3>1. Story(c)' = <<x>>
      BY <2>2 DEF Story, Line, Connected, Serving
    <3>2. <<>> \o <<x>> = <<x>>
      BY <2>3
    <3> HIDE DEF x
    <3> QED
      BY <1>1, <3>1, <3>2, Zenon
  <2> QED
    BY <1>3, <2>3, <2>4, <2>5 DEF Heard, Tells, HandlerPc, Over
<1> QED
  BY <1>2, <1>3

LEMMA EnterTells ==
  ASSUME IInv, UnheardIsNew, NEW c \in Conns, Enter(c), Owe(c, <<Line("Novo_cliente")>>)
  PROVE  Heard(c)
<1> DEFINE x == Line("Novo_cliente")
<1>1. /\ handler[c] = "enter" /\ Goto(c, "recv") /\ UNCHANGED <<votos, base>>
      /\ connected_clients' = connected_clients + 1
      /\ got'[c] = 0
  BY DEF Enter, tables, process, wire, UnheardIsNew, Unheard
<1>2. handler'[c] = "recv" /\ Change(c, "recv", Registering) = 0
  BY <1>1, Moved DEF Registering
<1>3. x.kind = "Novo_cliente" /\ x \in LogLine
  BY LineTypes DEF Line, LineKind
<1>4. Balance(c, "recv", x.kind)
  BY <1>1, <1>2, <1>3, NumbersTyped DEF Balance
<1>5. Story(c)' = Story(c) \o <<x>>
  <2>1. Messages(c)' = <<>>
    <3>1. Messages(c)' = Seqs!FlattenSeq([i \in 1..got'[c] |-> About(c, i)'])
      BY DEF Messages
    <3>2. [i \in 1..0 |-> About(c, i)'] = <<>>
      OBVIOUS
    <3> QED
      BY <1>1, <3>1, <3>2, FlattenEmpty
  <2>2. Story(c) = <<>> /\ Story(c)' = Session(c)'
    BY <1>1, <1>2, StoryConnected DEF Unheard, Connected
  <2>3. Session(c)' = <<x>> \o <<>>
    BY <2>1 DEF Session, Line
  <2>4. <<x>> \o <<>> = <<>> \o <<x>>
    BY <1>3
  <2> QED
    BY <2>2, <2>3, <2>4, Zenon
<1> QED
  BY <1>3, <1>4, <1>5 DEF Heard, Tells, HandlerPc, Running, Connected

LEMMA RecvTells ==
  ASSUME IInv, IInv', NEW c \in Conns, RecvLogs(c)
  PROVE  Heard(c)
<1> DEFINE x == IF sent[c][got'[c]] = Malformed
                THEN Line("SEC_VALIDACAO")
                ELSE VotoLine(sent[c][got'[c]])
           pc == IF sent[c][got[c] + 1] = Malformed THEN "recv" ELSE "voter_exists"
<1>1. /\ handler[c] = "recv" /\ Goto(c, pc) /\ UNCHANGED <<votos, base, connected_clients>>
      /\ Recv(c) /\ Owe(c, <<x>>)
  BY DEF RecvLogs, Recv, Nack, tables, counters, process
<1>2. x \in LogLine /\ Session(c)' = Session(c) \o <<x>>
  BY <1>1, ReadTold
<1>3. x.kind \in {"SEC_VALIDACAO", "VOTO"}
  BY DEF Line, VotoLine
<1>4. pc \in Connected \ Registering /\ handler[c] \in Connected \ Registering
  BY <1>1 DEF Connected, Serving, Registering
<1> HIDE DEF x, pc
<1>5. handler'[c] = pc /\ Change(c, pc, Registering) = 0
  BY <1>1, <1>4, Moved
<1>6. Balance(c, pc, x.kind)
  BY <1>1, <1>3, <1>5, NumbersTyped DEF Balance
<1>7. Story(c)' = Story(c) \o <<x>>
  BY <1>2, <1>4, <1>5, StoryConnected
<1> QED
  BY <1>1, <1>2, <1>4, <1>6, <1>7 DEF Heard, Tells, HandlerPc, Running

(* A branch that refuses the message: its line is that of the answer.      *)
LEMMA RefusalTells ==
  ASSUME IInv, NEW c \in Conns, NEW kind \in NackKind, Nack(c, kind),
         handler[c] \in Serving \ Registering,
         UNCHANGED <<sent, got, votos, base, connected_clients>>,
         Owe(c, <<ReplyLine(kind)>>)
  PROVE  Heard(c)
<1> DEFINE x == ReplyLine(kind)
<1>1. x \in LogLine /\ Session(c)' = Session(c) \o <<x>>
  BY AnswerTold DEF Nack
<1>2. x.kind \in {"SEC_VALIDACAO", "SEC_REGRA", "SEC_DB"}
  BY DEF ReplyLine, NackKind, Line
<1>3. Goto(c, "recv")
  BY DEF Nack
<1>4. handler'[c] = "recv" /\ Change(c, "recv", Registering) = 0
  BY <1>3, Moved DEF Registering
<1> HIDE DEF x
<1>5. Balance(c, "recv", x.kind)
  BY <1>2, <1>3, <1>4, NumbersTyped DEF Balance
<1>6. Story(c)' = Story(c) \o <<x>>
  BY <1>1, <1>4, StoryConnected DEF Connected
<1> QED
  BY <1>1, <1>5, <1>6 DEF Heard, Tells, HandlerPc, Running, Connected, x

LEMMA AckTells ==
  ASSUME IInv, NEW c \in Conns, AckLogs(c)
  PROVE  Heard(c)
<1> DEFINE x == Line("Voto_registrado")
<1>1. /\ handler[c] = "ack" /\ Goto(c, "recv") /\ Send(c, "ACK", receipt[c])
      /\ UNCHANGED <<sent, got, votos, base, connected_clients>>
      /\ Owe(c, <<x>>)
  BY DEF AckLogs, Ack, tables, counters, process
<1>2. x \in LogLine /\ Session(c)' = Session(c) \o <<x>>
  <2>1. ReplyLine("ACK") = x
    BY DEF ReplyLine
  <2>2. receipt[c] \in Receipts \cup {NoReceipt}
    BY NumbersTyped DEF TypeOK
  <2> QED
    BY <1>1, <2>1, <2>2, AnswerTold DEF Serving
<1>3. x.kind = "Voto_registrado"
  BY DEF Line
<1>4. handler'[c] = "recv" /\ Change(c, "recv", Registering) = -1
  BY <1>1, Moved DEF Registering
<1> HIDE DEF x
<1>5. Balance(c, "recv", x.kind)
  BY <1>1, <1>3, <1>4, NumbersTyped DEF Balance
<1>6. Story(c)' = Story(c) \o <<x>>
  BY <1>1, <1>2, <1>4, StoryConnected DEF Connected, Serving
<1> QED
  BY <1>1, <1>2, <1>5, <1>6 DEF Heard, Tells, HandlerPc, Running, Connected

LEMMA LeaveTells ==
  ASSUME IInv, NEW c \in Conns, Leave(c), Owe(c, <<Line("Cliente_desconectado")>>)
  PROVE  Heard(c)
<1> DEFINE x == Line("Cliente_desconectado")
<1>1. /\ handler[c] = "leave" /\ Goto(c, "done") /\ UNCHANGED <<sent, got, replies, votos, base>>
      /\ connected_clients' = connected_clients - 1
  BY DEF Leave, tables, process, wire
<1>2. handler'[c] = "done" /\ Change(c, "done", Registering) = 0
  BY <1>1, Moved DEF Registering
<1>3. x.kind = "Cliente_desconectado" /\ x \in LogLine
  BY LineTypes DEF Line, LineKind
<1>4. Story(c)' = Story(c) \o <<x>>
  <2>1. Session(c)' = Session(c)
    BY <1>1, SessionSame
  <2>2. Story(c)' = Session(c)' \o <<x>>
    BY <1>2 DEF Story, Connected, Serving, Line
  <2> QED
    BY <1>1, <2>1, <2>2, StoryConnected, Zenon DEF Connected
<1>5. Balance(c, "done", x.kind)
  BY <1>1, <1>2, <1>3, NumbersTyped DEF Balance
<1> QED
  BY <1>3, <1>4, <1>5 DEF Heard, Tells, HandlerPc, Over

(* The steps within a session that write nothing. *)
LEMMA QuietMutes ==
  ASSUME IInv, NEW c \in Conns, Silent, NEW pc \in Connected, Goto(c, pc),
         handler[c] \in Connected,
         UNCHANGED <<sent, got, replies, base, connected_clients>>,
         Len(votos') = Len(votos) + Change(c, pc, Registering)
  PROVE  Heard(c)
<1>1. handler'[c] = pc /\ Change(c, pc, Registering) \in Int
  BY Moved DEF Change
<1>2. Story(c)' = Story(c)
  BY <1>1, StorySame
<1>3. Balance(c, pc, "none")
  BY <1>1, NumbersTyped DEF Balance
<1> QED
  BY <1>2, <1>3 DEF Heard, Mutes, HandlerPc, Running

(* A SELECT that lets the vote go on writes nothing, one that does not is  *)
(* a refusal.                                                              *)
LEMMA CheckTells ==
  ASSUME IInv, NEW c \in Conns,
         NEW pc \in {"has_voted", "generate_receipt"}, NEW kind \in NackKind,
         handler[c] \in {"voter_exists", "has_voted"},
         UNCHANGED <<sent, got, votos, base, connected_clients>>,
         \/ Nack(c, kind)
         \/ Goto(c, pc) /\ UNCHANGED replies,
         NEW lk, ReplyLine(kind) = Line(lk), LogsIfRefused(c, lk)
  PROVE  Heard(c)
<1>1. CASE Nack(c, kind)
  <2>1. handler'[c] = "recv"
    BY <1>1, Moved DEF Nack
  <2> QED
    BY <1>1, <2>1, RefusalTells DEF LogsIfRefused, Serving, Registering
<1>2. CASE Goto(c, pc) /\ UNCHANGED replies
  <2>1. handler'[c] = pc /\ Change(c, pc, Registering) = 0
    BY <1>2, Moved DEF Registering
  <2>2. Silent
    BY <2>1 DEF LogsIfRefused
  <2>3. Len(votos') = Len(votos) + Change(c, pc, Registering)
    BY <2>1, NumbersTyped
  <2> QED
    BY <1>2, <2>2, <2>3, QuietMutes DEF Connected, Serving
<1> QED
  BY <1>1, <1>2

LEMMA SaveTells ==
  ASSUME IInv, NEW c \in Conns, SaveLogs(c)
  PROVE  Heard(c)
<1>1. /\ handler[c] = "save_vote" /\ UNCHANGED <<sent, got, base, connected_clients>>
      /\ VoteSaved(c) \/ VoteNotSaved(c)
      /\ LogsIfRefused(c, "SEC_DB")
  BY DEF SaveLogs, SaveVote, counters, process
<1>2. CASE VoteSaved(c)
  <2>1. Goto(c, "count_vote") /\ replies' = replies /\ Len(votos') = Len(votos) + 1
    BY <1>2, NumbersTyped DEF VoteSaved
  <2>2. handler'[c] = "count_vote" /\ Change(c, "count_vote", Registering) = 1
    BY <1>1, <2>1, Moved DEF Registering
  <2>3. Silent
    BY <1>1, <2>2 DEF LogsIfRefused
  <2> QED
    BY <1>1, <2>1, <2>2, <2>3, QuietMutes DEF Connected, Serving
<1>3. CASE VoteNotSaved(c)
  <2>1. Nack(c, "ERRO_DB") /\ votos' = votos
    BY <1>3 DEF VoteNotSaved, tables
  <2>2. handler'[c] = "recv"
    BY <2>1, Moved DEF Nack
  <2>3. Owe(c, <<ReplyLine("ERRO_DB")>>)
    BY <1>1, <2>2 DEF LogsIfRefused, ReplyLine
  <2> QED
    BY <1>1, <2>1, <2>3, RefusalTells DEF Serving, Registering, NackKind
<1> QED
  BY <1>1, <1>2, <1>3

LEMMA HandlerHeard ==
  ASSUME IInv, IInv', UnheardIsNew, NEW c \in Conns, HandleClientLogs(c)
  PROVE  Heard(c) \/ (Silent /\ UNCHANGED vars)
<1>1. CASE GreetLogs(c)
  BY <1>1, GreetTells DEF GreetLogs, TakeArgs, SslNew
<1>2. ASSUME CleanupReleases(c) /\ Silent
      PROVE  Heard(c)
  <2>1. /\ handler[c] = "ssl_cleanup" /\ Goto(c, "leave")
        /\ UNCHANGED <<sent, got, replies, base, connected_clients, votos>>
    BY <1>2 DEF CleanupReleases, Cleanup, tables, counters, process, wire
  <2>2. Change(c, "leave", Registering) = 0
    BY <2>1, Moved DEF Registering
  <2>3. Len(votos') = Len(votos) + Change(c, "leave", Registering)
    BY <2>1, <2>2, NumbersTyped
  <2> QED
    BY <1>2, <2>1, <2>3, QuietMutes DEF Connected
<1>3. ASSUME Enter(c) /\ Owe(c, <<Line("Novo_cliente")>>)
      PROVE  Heard(c)
  BY <1>3, EnterTells
<1>4. ASSUME RecvLogs(c)
      PROVE  Heard(c)
  BY <1>4, RecvTells
<1>5. ASSUME VoterExists(c) /\ LogsIfRefused(c, "SEC_VALIDACAO")
      PROVE  Heard(c)
  <2>1. /\ handler[c] = "voter_exists"
        /\ UNCHANGED <<sent, got, votos, base, connected_clients>>
        /\ \/ Nack(c, "ELEITOR_INVALIDO")
           \/ Goto(c, "has_voted") /\ UNCHANGED replies
    BY <1>5 DEF VoterExists, tables, counters, process
  <2>2. ReplyLine("ELEITOR_INVALIDO") = Line("SEC_VALIDACAO")
    BY DEF ReplyLine
  <2> QED
    BY <1>5, <2>1, <2>2, CheckTells DEF NackKind
<1>6. ASSUME HasVoted(c) /\ LogsIfRefused(c, "SEC_REGRA")
      PROVE  Heard(c)
  <2>1. /\ handler[c] = "has_voted"
        /\ UNCHANGED <<sent, got, votos, base, connected_clients>>
        /\ \/ Nack(c, "JA_VOTOU")
           \/ Goto(c, "generate_receipt") /\ UNCHANGED replies
    BY <1>6 DEF HasVoted, tables, counters, process
  <2>2. ReplyLine("JA_VOTOU") = Line("SEC_REGRA")
    BY DEF ReplyLine
  <2> QED
    BY <1>6, <2>1, <2>2, CheckTells DEF NackKind
<1>7. ASSUME SaveLogs(c)
      PROVE  Heard(c)
  BY <1>7, SaveTells
<1>8. ASSUME AckLogs(c)
      PROVE  Heard(c)
  BY <1>8, AckTells
<1>9. ASSUME Leave(c) /\ Owe(c, <<Line("Cliente_desconectado")>>)
      PROVE  Heard(c)
  BY <1>9, LeaveTells
<1>10. ASSUME (RecvEnds(c) \/ GenerateReceipt(c) \/ CountVote(c)) /\ Silent
       PROVE  Heard(c)
  <2>1. PICK pc \in {"ssl_cleanup", "save_vote", "ack"} :
          /\ Goto(c, pc) /\ (pc = "ack" <=> handler[c] = "count_vote")
          /\ handler[c] \in {"recv", "generate_receipt", "count_vote"}
          /\ UNCHANGED <<sent, got, replies, base, connected_clients, votos>>
    BY <1>10 DEF RecvEnds, GenerateReceipt, CountVote, tables, counters, process, wire
  <2>2. Change(c, pc, Registering) = 0
    BY <2>1, Moved DEF Registering
  <2>3. Len(votos') = Len(votos) + Change(c, pc, Registering)
    BY <2>1, <2>2, NumbersTyped
  <2> QED
    BY <1>10, <2>1, <2>3, QuietMutes DEF Connected, Serving
<1> QED
  BY <1>1, <1>2, <1>3, <1>4, <1>5, <1>6, <1>7, <1>8, <1>9, <1>10
  DEF HandleClientLogs, SessionLogs

(* A handler's step is about its own connection.                           *)
LEMMA OthersKept ==
  ASSUME IInv, NEW c \in Conns, HandleClient(c) \/ Handshake(c), NEW d \in Conns \ {c}
  PROVE  /\ handler'[d] = handler[d] /\ got'[d] = got[d]
         /\ replies'[d] = replies[d] /\ sent' = sent
<1> DEFINE P == /\ handler'[d] = handler[d] /\ got'[d] = got[d]
                /\ replies'[d] = replies[d] /\ sent' = sent
<1> USE DEF wire, Goto, Nack, Send
<1>0. /\ handler \in [Conns -> HandlerPc] /\ got \in [Conns -> Nat]
      /\ replies \in [Conns -> Seq(Reply)]
  BY NumbersTyped DEF TypeOK
<1> USE <1>0
<1>1. Handshake(c) => P          BY DEF Handshake
<1>2. Enter(c) => P              BY DEF Enter
<1>3. Recv(c) => P               BY DEF Recv
<1>4. RecvEnds(c) => P           BY DEF RecvEnds
<1>5. VoterExists(c) => P        BY DEF VoterExists
<1>6. HasVoted(c) => P           BY DEF HasVoted
<1>7. GenerateReceipt(c) => P    BY DEF GenerateReceipt
<1>8. SaveVote(c) => P           BY DEF SaveVote, VoteSaved, VoteNotSaved
<1>9. CountVote(c) => P          BY DEF CountVote
<1>10. Ack(c) => P               BY DEF Ack
<1>11. Cleanup(c) => P           BY DEF Cleanup
<1>12. Leave(c) => P             BY DEF Leave
<1> QED
  BY Zenon, <1>1, <1>2, <1>3, <1>4, <1>5, <1>6, <1>7, <1>8, <1>9, <1>10, <1>11,
     <1>12 DEF HandleClient

(* The thread exists only while the process does. *)
LEMMA HandlerUp ==
  ASSUME IInv, NEW c \in Conns, HandleClient(c) \/ Handshake(c)
  PROVE  acceptor # "down" /\ acceptor' = acceptor
<1>1. handler[c] \in {"ssl_accept", "enter", "recv", "voter_exists", "has_voted",
                      "generate_receipt", "save_vote", "count_vote", "ack",
                      "ssl_cleanup", "leave"}
  BY DEF HandleClient, Handshake, Enter, Recv, RecvEnds, VoterExists, HasVoted,
         GenerateReceipt, SaveVote, CountVote, Ack, Cleanup, Leave
<1>2. acceptor \in Listening
  BY <1>1 DEF IInv, Quiet
<1>3. acceptor' = acceptor
  BY DEF HandleClient, Handshake, Enter, Recv, RecvEnds, VoterExists, HasVoted,
         GenerateReceipt, SaveVote, CountVote, Ack, Cleanup, Leave, process
<1> QED
  BY <1>2, <1>3 DEF Listening

(* Of a connection without a session nothing is read and nothing answered. *)
LEMMA UnheardStep ==
  ASSUME IInv, UnheardIsNew, [Next]_vars
  PROVE  UnheardIsNew'
<1> DEFINE P == \A d \in Conns :
             handler'[d] \in Unheard =>
               handler[d] \in Unheard /\ got'[d] = got[d] /\ replies'[d] = replies[d]
<1> SUFFICES P
  BY DEF UnheardIsNew
<1>a. /\ handler \in [Conns -> HandlerPc] /\ got \in [Conns -> Nat]
      /\ replies \in [Conns -> Seq(Reply)]
  BY NumbersTyped DEF TypeOK
<1>b. ASSUME UNCHANGED <<handler, got, replies>> PROVE P
  BY <1>b
<1>c. ASSUME UNCHANGED <<got, replies>>, NEW c \in Conns, NEW pc, Goto(c, pc),
             pc \in Unheard => handler[c] \in Unheard
      PROVE  P
  BY <1>a, <1>c DEF Goto
<1>d. ASSUME NEW c \in Conns, HandleClient(c), handler[c] \notin Unheard,
             handler'[c] \notin Unheard
      PROVE  P
  <2> SUFFICES ASSUME NEW d \in Conns, handler'[d] \in Unheard
               PROVE  handler[d] \in Unheard /\ got'[d] = got[d] /\ replies'[d] = replies[d]
    OBVIOUS
  <2>1. d \in Conns \ {c}
    BY <1>d
  <2> QED
    BY <1>d, <2>1, OthersKept
<1> USE DEF wire, vars, tables, process
<1>1. UNCHANGED vars => P        BY <1>b
<1>2. Start => P                 BY <1>b DEF Start
<1>3. Listen => P                BY <1>b DEF Listen
<1>4. ProcessEnds => P           BY <1>a DEF ProcessEnds, Unheard
<1>5. TurnAway \/ UncountThread => P
  <2> SUFFICES ASSUME TurnAway \/ UncountThread PROVE P
    OBVIOUS
  <2>1. client_socket \in Conns /\ Goto(client_socket, "refused")
    BY DEF TurnAway, UncountThread, Refuse, IInv, InHand, Listening, AcceptorPc
  <2> QED
    BY <1>c, <2>1 DEF TurnAway, UncountThread, Unheard
<1>6. RateLimitAllows \/ CountThread => P   BY <1>b DEF RateLimitAllows, CountThread
<1>7. CreateThread => P
  <2> SUFFICES ASSUME CreateThread PROVE P
    OBVIOUS
  <2>1. CASE handler' = handler
    BY <1>b, <2>1 DEF CreateThread
  <2>2. CASE Goto(client_socket, "ssl_accept")
    <3>1. client_socket \in Conns /\ handler[client_socket] = "accepted"
      BY DEF CreateThread, IInv, InHand, Listening, AcceptorPc
    <3> QED
      BY <1>c, <2>2, <3>1 DEF CreateThread, Unheard
  <2> QED
    BY <2>1, <2>2 DEF CreateThread
<1>8. \A c \in Conns : Accept(c) => P        BY <1>c DEF Accept, Unheard
<1>9. \A c \in Conns : Handshake(c) => P     BY <1>c DEF Handshake, Unheard
<1>10. \A c \in Conns : Enter(c) => P        BY <1>c DEF Enter, Unheard
<1>11. \A c \in Conns : PeerConnects(c) => P BY <1>c DEF PeerConnects, Unheard
<1>12. \A c \in Conns : PeerSends(c) \/ PeerHangsUp(c) => P
  BY <1>b DEF PeerSends, PeerHangsUp
<1>13. ASSUME NEW c \in Conns, HandleClient(c) PROVE P
  <2>1. CASE Enter(c)
    BY <1>10, <2>1
  <2>2. CASE ~ Enter(c)
    <3>1. handler[c] \notin Unheard /\ handler'[c] \notin Unheard
      BY <1>13, <1>a, <2>2 DEF HandleClient, Recv, RecvEnds, VoterExists, HasVoted,
         GenerateReceipt, SaveVote, VoteSaved, VoteNotSaved, CountVote, Ack, Cleanup,
         Leave, Goto, Nack, Unheard
    <3> QED
      BY <1>13, <1>d, <3>1
  <2> QED
    BY <2>1, <2>2
<1> QED
  BY Zenon, <1>1, <1>2, <1>3, <1>4, <1>5, <1>6, <1>7, <1>8, <1>9, <1>11, <1>12,
     <1>13 DEF Next, AcceptLoop, Peer

-----------------------------------------------------------------------------
(* The invariant of the logs.                                              *)

(* A step that is no part of any connection's story. *)
Still ==
  /\ \A c \in Conns : Story(c)' = Story(c)
  /\ In(Registering)' = In(Registering)
  /\ UNCHANGED <<votos, base, connected_clients>>
  /\ acceptor' # "down" => acceptor # "down"

(* Where a connection is before its session. *)
Untold == Unheard \cup {"refused"}

LEMMA StillMove ==
  ASSUME IInv, NEW c \in Conns, NEW pc \in Untold, Goto(c, pc), handler[c] \in Untold,
         UNCHANGED wire, UNCHANGED <<votos, base, connected_clients>>,
         acceptor # "down"
  PROVE  Still
<1>1. handler'[c] = pc /\ \A d \in Conns \ {c} : handler'[d] = handler[d]
  BY NumbersTyped DEF Goto
<1>2. Story(c)' = Story(c)
  <2>1. Untold \cap Connected = {} /\ "failed" \notin Untold /\ "done" \notin Untold
    BY DEF Untold, Unheard, Connected, Serving
  <2>2. Story(c) = <<>>
    BY <2>1 DEF Story
  <2>3. Story(c)' = <<>>
    BY <1>1, <2>1 DEF Story
  <2> QED
    BY <2>2, <2>3
<1>3. \A d \in Conns \ {c} : Story(d)' = Story(d)
  BY <1>1, StorySame DEF wire
<1>4. In(Registering)' = In(Registering)
  BY <1>1 DEF In, Registering, Untold, Unheard
<1> QED
  BY <1>2, <1>3, <1>4 DEF Still

LEMMA StillStay ==
  ASSUME IInv, handler' = handler, got' = got, replies' = replies,
         \A c \in Conns : \A i \in 1..got[c] : sent'[c][i] = sent[c][i],
         UNCHANGED <<votos, base, connected_clients>>,
         acceptor' # "down" => acceptor # "down"
  PROVE  Still
<1>1. \A c \in Conns : Story(c)' = Story(c)
  BY StorySame
<1> QED
  BY <1>1 DEF Still, In

LEMMA StillSteps ==
  ASSUME IInv, IInv', Listen \/ AcceptLoop \/ (\E c \in Conns : Peer(c)) \/ UNCHANGED vars
  PROVE  Still
<1> USE DEF tables, counters, process, wire, vars
<1>1. ASSUME Listen \/ RateLimitAllows \/ CountThread \/ UNCHANGED vars PROVE Still
  BY <1>1, StillStay DEF Listen, RateLimitAllows, CountThread
<1>2. ASSUME TurnAway \/ UncountThread PROVE Still
  <2>1. /\ client_socket \in Conns /\ Goto(client_socket, "refused")
        /\ handler[client_socket] = "accepted" /\ acceptor # "down"
    BY <1>2 DEF TurnAway, UncountThread, Refuse, IInv, InHand, Listening, AcceptorPc
  <2> QED
    BY <1>2, <2>1, StillMove DEF TurnAway, UncountThread, Untold, Unheard
<1>3. ASSUME CreateThread PROVE Still
  <2>1. /\ client_socket \in Conns
        /\ handler[client_socket] = "accepted" /\ acceptor # "down"
    BY <1>3 DEF CreateThread, IInv, InHand, Listening, AcceptorPc
  <2>2. CASE handler' = handler
    BY <1>3, <2>1, <2>2, StillStay DEF CreateThread
  <2>3. CASE Goto(client_socket, "ssl_accept")
    BY <1>3, <2>1, <2>3, StillMove DEF CreateThread, Untold, Unheard
  <2> QED
    BY <1>3, <2>2, <2>3 DEF CreateThread
<1>4. ASSUME NEW c \in Conns, Accept(c) PROVE Still
  BY <1>4, StillMove DEF Accept, Untold, Unheard
<1>5. ASSUME NEW c \in Conns, PeerConnects(c) PROVE Still
  BY <1>5, StillMove DEF PeerConnects, Untold, Unheard, Listening
<1>6. ASSUME NEW c \in Conns, PeerSends(c) PROVE Still
  <2>1. \A d \in Conns : \A i \in 1..got[d] : sent'[d][i] = sent[d][i]
    <3>1. Next
      BY <1>6 DEF Next, Peer
    <3> QED
      BY <3>1, HistoryGrows
  <2> QED
    BY <1>6, <2>1, StillStay DEF PeerSends
<1>7. ASSUME NEW c \in Conns, PeerHangsUp(c) PROVE Still
  BY <1>7, StillStay DEF PeerHangsUp
<1> QED
  BY <1>1, <1>2, <1>3, <1>4, <1>5, <1>6, <1>7 DEF AcceptLoop, Peer

(* Then what the logs tell stays true. *)
LEMMA StillKeeps ==
  ASSUME AuditInv, Still, LogsTyped', UnheardIsNew', old' = old,
         \A c \in Conns : Trail(c)' = Trail(c)
  PROVE  AuditInv'
<1>1. acceptor' # "down" => acceptor # "down"
  BY DEF Still
<1>2. \A kind : /\ Marks(Trails, kind)' = Marks(Trails, kind)
                /\ Count(Trails, kind)' = Count(Trails, kind)
  BY CountStays
<1>3. FiniteLog'
  BY <1>1, <1>2 DEF AuditInv, FiniteLog
<1>4. LogIsStory'
  BY <1>1 DEF AuditInv, LogIsStory, Still
<1>5. Size(Registering)' = Size(Registering)
  BY DEF Still, Size
<1>6. RegisteredInTable'
  BY <1>1, <1>2, <1>5 DEF AuditInv, RegisteredInTable, Still, Registering
<1>7. ClientsInLog'
  BY <1>1, <1>2 DEF AuditInv, ClientsInLog, Still
<1> QED
  BY <1>3, <1>4, <1>6, <1>7 DEF AuditInv, LogsTyped

LEMMA WriterThreads ==
  Conns \subseteq Writer /\ Network \in Writer /\ Network \notin Conns
BY NetworkAssumption DEF Writer

(* Few handlers have a row and no line. *)
LEMMA RegisteringFinite ==
  ASSUME IInv
  PROVE  IsFiniteSet(In(Registering))
<1>1. IsFiniteSet(In(Connected))
  BY DEF IInv, Finite, Regions
<1>2. In(Registering) \subseteq In(Connected)
  BY DEF In, Registering, Connected, Serving
<1> QED
  BY <1>1, <1>2, FS_Subset

(* The step of a handler: what it writes is what its story adds, and the   *)
(* numbers go with it.                                                     *)
LEMMA HeardKeeps ==
  ASSUME IInv, AuditInv, UnheardIsNew', NEW c \in Conns, Heard(c), owed[c] = <<>>,
         \A d \in Conns \ {c} : Story(d)' = Story(d),
         acceptor # "down", acceptor' = acceptor
  PROVE  AuditInv'
<1>1. /\ LogsTyped /\ LogIsStory /\ RegisteredInTable /\ ClientsInLog /\ FiniteLog
      /\ c \in Writer /\ Conns \subseteq Writer
  BY WriterThreads DEF AuditInv, LogsTyped
<1>2. \A kind \in CountedKind :
        /\ IsFiniteSet(Marks(Trails, kind))
        /\ Count(Trails, kind) \in Nat
  BY <1>1, FS_CardinalityType DEF FiniteLog, Count
<1>3. PICK pc \in HandlerPc : Mutes(c, pc) \/ \E x \in LogLine : Tells(c, pc, x)
  BY DEF Heard
<1>4. Goto(c, pc)
  BY <1>3 DEF Mutes, Tells, Balance
<1>5. /\ Size(Registering) \in Nat /\ Size(Registering)' \in Nat
      /\ Change(c, pc, Registering) \in Int
      /\ Size(Registering)' = Size(Registering) + Change(c, pc, Registering)
  BY <1>4, RegisteringFinite, NumbersTyped, MoveCount
<1>6. CASE Mutes(c, pc)
  <2>1. LogsTyped' /\ old' = old /\ \A u \in Writer : Trail(u)' = Trail(u)
    BY <1>1, <1>6, SilentKeeps DEF Mutes
  <2>2. \A kind : /\ Marks(Trails, kind)' = Marks(Trails, kind)
                  /\ Count(Trails, kind)' = Count(Trails, kind)
    BY <1>1, <2>1, CountStays
  <2>3. FiniteLog'
    BY <1>1, <2>2 DEF FiniteLog
  <2>4. LogIsStory'
    BY <1>1, <1>6, <2>1 DEF LogIsStory, Mutes
  <2>5. /\ connected_clients' = connected_clients
        /\ Len(votos') - base' = (Len(votos) - base) + Change(c, pc, Registering)
    BY <1>5, <1>6, NumbersTyped DEF Mutes, Balance
  <2>6. RegisteredInTable'
    <3>1. Count(Trails, "Voto_registrado") + Size(Registering) = Len(votos) - base
      BY <1>1 DEF RegisteredInTable, Registering
    <3>2. Count(Trails, "Voto_registrado")' + Size(Registering)' = Len(votos') - base'
      BY <1>2, <1>5, <2>2, <2>5, <3>1, NumbersTyped DEF CountedKind
    <3> QED
      BY <3>2 DEF RegisteredInTable, Registering
  <2>7. ClientsInLog'
    BY <1>1, <2>2, <2>5 DEF ClientsInLog
  <2> QED
    BY <2>1, <2>3, <2>4, <2>6, <2>7 DEF AuditInv, LogsTyped
<1>7. ASSUME NEW x \in LogLine, Tells(c, pc, x)
      PROVE  AuditInv'
  <2>1. /\ LogsTyped' /\ old' = old
        /\ Trail(c)' = Trail(c) \o <<x>>
        /\ \A u \in Writer \ {c} : Trail(u)' = Trail(u)
    BY <1>1, <1>7, OweAppends DEF Tells
  <2>2. \A kind \in CountedKind :
          /\ IsFiniteSet(Marks(Trails, kind)')
          /\ Count(Trails, kind)' = Count(Trails, kind) + IF x.kind = kind THEN 1 ELSE 0
    BY <1>1, <1>2, <2>1, CountAppend
  <2>3. FiniteLog'
    BY <2>2 DEF FiniteLog
  <2>4. LogIsStory'
    BY <1>1, <1>7, <2>1 DEF LogIsStory, Tells
  <2>5. RegisteredInTable'
    <3>1. Count(Trails, "Voto_registrado") + Size(Registering) = Len(votos) - base
      BY <1>1 DEF RegisteredInTable, Registering
    <3>2. Count(Trails, "Voto_registrado")' =
            Count(Trails, "Voto_registrado") + IF x.kind = "Voto_registrado" THEN 1 ELSE 0
      BY <2>2 DEF CountedKind
    <3>3. Len(votos') - base' =
            (Len(votos) - base) + Change(c, pc, Registering)
              + IF x.kind = "Voto_registrado" THEN 1 ELSE 0
      BY <1>7 DEF Tells, Balance
    <3>4. Count(Trails, "Voto_registrado") \in Nat
      BY <1>2 DEF CountedKind
    <3>5. Count(Trails, "Voto_registrado")' + Size(Registering)' = Len(votos') - base'
      BY <1>5, <3>1, <3>2, <3>3, <3>4, NumbersTyped
    <3> QED
      BY <3>5 DEF RegisteredInTable, Registering
  <2>6. ClientsInLog'
    <3>1. /\ Count(Trails, "Novo_cliente") \in Nat
          /\ Count(Trails, "Cliente_desconectado") \in Nat
          /\ Count(Trails, "Novo_cliente")
               = connected_clients + Count(Trails, "Cliente_desconectado")
      BY <1>1, <1>2 DEF CountedKind, ClientsInLog
    <3>2. /\ Count(Trails, "Novo_cliente")' =
               Count(Trails, "Novo_cliente") + IF x.kind = "Novo_cliente" THEN 1 ELSE 0
          /\ Count(Trails, "Cliente_desconectado")' =
               Count(Trails, "Cliente_desconectado")
                 + IF x.kind = "Cliente_desconectado" THEN 1 ELSE 0
      BY <2>2 DEF CountedKind
    <3>3. connected_clients' = connected_clients
                                + CASE x.kind = "Novo_cliente"         -> 1
                                    [] x.kind = "Cliente_desconectado" -> -1
                                    [] OTHER                           -> 0
      BY <1>7 DEF Tells, Balance
    <3>4. Count(Trails, "Novo_cliente")'
            = connected_clients' + Count(Trails, "Cliente_desconectado")'
      BY <3>1, <3>2, <3>3, NumbersTyped
    <3> QED
      BY <3>4 DEF ClientsInLog
  <2> QED
    BY <2>1, <2>3, <2>4, <2>5, <2>6 DEF AuditInv, LogsTyped
<1> QED
  BY <1>3, <1>6, <1>7

(* A process starts with an empty log, and the connections it will serve   *)
(* are all to come.                                                        *)
LEMMA EmptyLogs ==
  ASSUME \A c \in Conns : Trail(c) = <<>>, In(Registering) = {},
         connected_clients = 0, votos \in Seq(Row), base = Len(votos)
  PROVE  FiniteLog /\ RegisteredInTable /\ ClientsInLog
<1>1. \A kind : Marks(Trails, kind) = {}
  BY DEF Marks, Trails
<1>2. IsFiniteSet({}) /\ Cardinality({}) = 0
  BY FS_EmptySet
<1>3. Size({"count_vote", "ack"}) = 0
  BY <1>2 DEF Size, Registering
<1>4. Len(votos) \in Nat
  OBVIOUS
<1>5. \A kind : Count(Trails, kind) = 0
  BY <1>1, <1>2 DEF Count
<1>6. FiniteLog
  BY <1>1, <1>2 DEF FiniteLog
<1>7. RegisteredInTable
  BY <1>3, <1>4, <1>5 DEF RegisteredInTable
<1>8. ClientsInLog
  BY <1>5 DEF ClientsInLog
<1> QED
  BY <1>6, <1>7, <1>8

EmptyLogsAre ==
  (\A c \in Conns : Trail(c) = <<>>) /\ In(Registering) = {}
    /\ connected_clients = 0 /\ votos \in Seq(Row) /\ base = Len(votos)
  => FiniteLog /\ RegisteredInTable /\ ClientsInLog

LEMMA EmptyLogsNow == EmptyLogsAre
  BY EmptyLogs DEF EmptyLogsAre

LEMMA EmptyLogsNext == EmptyLogsAre'
  BY EmptyLogsNow, PTL

LEMMA EmptyTrail ==
  <<>> \o <<>> = <<>> /\ <<>> \in Seq(LogLine)
OBVIOUS

LEMMA StartKeeps ==
  ASSUME IInv, IInv', UnheardIsNew', StartLogs
  PROVE  AuditInv'
<1>1. /\ acceptor = "down" /\ handler' = handler /\ votos' = votos
      /\ connected_clients' = 0 /\ base' = Len(votos)
      /\ owed' = [t \in Writer |-> <<>>]
      /\ old' = {c \in Conns : handler[c] # "idle"}
  BY DEF StartLogs, StartProcess, Start
<1>2. \A c \in Conns : handler[c] \in {"idle", "refused", "done", "gone"}
  BY <1>1 DEF IInv, Quiet, Listening
<1>3. \A c \in Conns : lines'[c] = <<>> /\ owed'[c] = <<>>
  BY <1>1, WriterThreads DEF StartLogs
<1>4. LogsTyped'
  <2> DEFINE first == <<Line("Servidor_iniciado"), Line("Interface_carregada"),
                        Line("Sistema_pronto")>>
  <2>1. first \in Seq(LogLine)
    BY LineTypes DEF LineKind
  <2>2. lines' = [t \in Writer |-> IF t = Network THEN first ELSE <<>>]
    BY DEF StartLogs
  <2> HIDE DEF first
  <2> QED
    BY <1>1, <2>1, <2>2, EmptyTrail DEF LogsTyped
<1>5. \A c \in Conns : Trail(c)' = <<>>
  BY <1>3, EmptyTrail DEF Trail
<1>6. In(Registering)' = {}
  BY <1>1, <1>2 DEF In, Registering
<1>7. FiniteLog' /\ RegisteredInTable' /\ ClientsInLog'
  BY <1>1, <1>5, <1>6, NumbersTyped, EmptyLogsNext DEF EmptyLogsAre
<1>8. LogIsStory'
  <2>1. ASSUME NEW c \in Conns, c \notin old' PROVE Story(c)' = <<>>
    <3>1. handler'[c] = "idle"
      BY <1>1, <2>1
    <3> QED
      BY <3>1 DEF Story, Connected, Serving
  <2> QED
    BY <1>5, <2>1 DEF LogIsStory
<1> QED
  BY <1>4, <1>7, <1>8 DEF AuditInv, LogsTyped

LEMMA EndKeeps ==
  ASSUME AuditInv, UnheardIsNew', EndLosesLines
  PROVE  AuditInv'
<1>1. acceptor' = "down" /\ owed' = [t \in Writer |-> <<>>] /\ lines' = lines
  BY DEF EndLosesLines, ProcessGone, ProcessEnds
<1>2. LogsTyped'
  BY <1>1, EmptyTrail DEF AuditInv, LogsTyped
<1> QED
  BY <1>1, <1>2 DEF AuditInv, LogsTyped, FiniteLog, LogIsStory, RegisteredInTable,
                    ClientsInLog

(* What start_server writes is in its own log. *)
StartServerLogs ==
  \E kind \in LineKind : Owe(Network, <<Line(kind)>>) \/ Write(Line(kind))

LEMMA NetworkWrites ==
  ASSUME LogsTyped, owed[Network] = <<>>,
         Silent \/ StartServerLogs
  PROVE  LogsTyped' /\ old' = old /\ \A c \in Conns : Trail(c)' = Trail(c)
<1>1. CASE Silent
  BY <1>1, SilentKeeps, WriterThreads
<1>2. ASSUME NEW kind \in LineKind, Owe(Network, <<Line(kind)>>)
      PROVE  LogsTyped' /\ old' = old /\ \A c \in Conns : Trail(c)' = Trail(c)
  <2>1. Line(kind) \in LogLine
    BY LineTypes
  <2>2. /\ LogsTyped' /\ old' = old
        /\ \A u \in Writer \ {Network} : Trail(u)' = Trail(u)
    BY <1>2, <2>1, WriterThreads, OweAppends
  <2>3. Conns \subseteq Writer \ {Network}
    BY WriterThreads
  <2> QED
    BY <2>2, <2>3
<1>3. ASSUME NEW kind \in LineKind, Write(Line(kind))
      PROVE  LogsTyped' /\ old' = old /\ \A c \in Conns : Trail(c)' = Trail(c)
  <2>1. Line(kind) \in LogLine /\ lines[Network] \in Seq(LogLine)
    BY LineTypes, WriterThreads DEF LogsTyped
  <2>2. Append(lines[Network], Line(kind)) \in Seq(LogLine)
    BY <2>1, AppendProperties
  <2>3. /\ lines' = [lines EXCEPT ![Network] = Append(lines[Network], Line(kind))]
        /\ owed' = owed /\ old' = old
    BY <1>3 DEF Write
  <2>4. LogsTyped'
    BY <2>2, <2>3 DEF LogsTyped
  <2>5. \A c \in Conns : Trail(c)' = Trail(c)
    BY <2>3, WriterThreads DEF LogsTyped, Trail
  <2> QED
    BY <2>3, <2>4, <2>5
<1> QED
  BY <1>1, <1>2, <1>3 DEF StartServerLogs

LEMMA AuditStep ==
  ASSUME IInv, IInv', AuditInv, [AuditNext]_auditVars
  PROVE  AuditInv'
<1>1. UnheardIsNew'
  <2>1. [Next]_vars
    BY AuditStepOf, ServerStepOf
  <2> QED
    BY <2>1, UnheardStep DEF AuditInv
<1>2. LogsTyped /\ UnheardIsNew
  BY DEF AuditInv, LogsTyped
<1>3. CASE StartLogs
  BY <1>1, <1>3, StartKeeps
<1>4. CASE EndLosesLines
  BY <1>1, <1>4, EndKeeps
<1>5. CASE UNCHANGED auditVars
  <2>1. Silent /\ UNCHANGED vars
    BY <1>5 DEF auditVars, resourceVars, Silent
  <2> QED
    BY <1>1, <1>2, <2>1, SilentKeeps, WriterThreads, StillSteps, StillKeeps
<1>6. CASE SetupLogs
  <2>1. owed[Network] = <<>> /\ (UNCHANGED vars \/ Listen)
    BY <1>6 DEF SetupLogs, SetupCallReturns, SetupEnds, SetupFails
  <2>2. Silent \/ StartServerLogs
    <3>1. ASSUME SetupFailureLogs PROVE StartServerLogs
      BY <3>1 DEF SetupFailureLogs, SetupError, StartServerLogs, LineKind
    <3> QED
      BY <1>6, <3>1 DEF SetupLogs, StartServerLogs, LineKind
  <2> QED
    BY <1>1, <1>2, <2>1, <2>2, NetworkWrites, StillSteps, StillKeeps
<1>7. CASE AcceptFails
  <2>1. /\ owed[Network] = <<>> /\ UNCHANGED vars
        /\ Owe(Network, <<Line("Accept_falhou")>>)
    BY <1>7 DEF AcceptFails, resourceVars
  <2> QED
    BY <1>1, <1>2, <2>1, NetworkWrites, StillSteps, StillKeeps
       DEF StartServerLogs, LineKind
<1>8. CASE AcceptLoopLogs
  <2>1. owed[Network] = <<>> /\ AcceptLoop
    BY <1>8 DEF AcceptLoopLogs, AcceptHolds, AllocateArgs, HandOver, TurnAwayCloses,
                NoThread, AcceptLoop
  <2>2. Silent \/ StartServerLogs
    BY <1>8 DEF AcceptLoopLogs, StartServerLogs, LineKind
  <2> QED
    BY <1>1, <1>2, <2>1, <2>2, NetworkWrites, StillSteps, StillKeeps
<1>9. ASSUME NEW c \in Conns, HandleClientLogs(c) PROVE AuditInv'
  <2>1. owed[c] = <<>>
    BY <1>9 DEF HandleClientLogs
  <2>2. CASE Silent /\ UNCHANGED vars
    BY <1>1, <1>2, <2>2, SilentKeeps, WriterThreads, StillSteps, StillKeeps
  <2>3. CASE ~ (Silent /\ UNCHANGED vars)
    <3>1. HandleClient(c) \/ Handshake(c)
      BY <1>9, <2>3 DEF HandleClientLogs, GreetLogs, SessionLogs, RecvLogs, SaveLogs,
           AckLogs, TakeArgs, SslNew, SslAccept, SslAcceptFails, CleanupReleases,
           HandleClient
    <3>2. Heard(c)
      BY <1>2, <1>9, <2>3, HandlerHeard
    <3>3. \A d \in Conns \ {c} : Story(d)' = Story(d)
      BY <3>1, OthersKept, StorySame
    <3>4. acceptor # "down" /\ acceptor' = acceptor
      BY <3>1, HandlerUp
    <3> QED
      BY <1>1, <2>1, <3>2, <3>3, <3>4, HeardKeeps
  <2> QED
    BY <2>2, <2>3
<1>10. ASSUME NEW t \in Writer, AddLog(t) PROVE AuditInv'
  <2>1. UNCHANGED vars
    BY <1>10 DEF AddLog, resourceVars
  <2> QED
    BY <1>1, <1>2, <1>10, <2>1, AddLogKeeps, WriterThreads, StillSteps, StillKeeps
<1>11. CASE PeerStep
  <2>1. (\E c \in Conns : Peer(c)) /\ Silent
    BY <1>11 DEF PeerStep
  <2> QED
    BY <1>1, <1>2, <2>1, SilentKeeps, WriterThreads, StillSteps, StillKeeps
<1> QED
  BY <1>3, <1>4, <1>5, <1>6, <1>7, <1>8, <1>9, <1>10, <1>11 DEF AuditNext

LEMMA AuditStart ==
  AuditInit => AuditInv
<1> SUFFICES ASSUME AuditInit PROVE AuditInv
  OBVIOUS
<1>1. /\ acceptor = "down" /\ got = [c \in Conns |-> 0]
      /\ replies = [c \in Conns |-> <<>>]
      /\ owed = [t \in Writer |-> <<>>] /\ lines = [t \in Writer |-> <<>>]
  BY DEF AuditInit, ResourceInit, Init
<1>2. LogsTyped
  BY <1>1, EmptyTrail DEF LogsTyped
<1> QED
  BY <1>1, <1>2 DEF AuditInv, LogsTyped, UnheardIsNew, FiniteLog, LogIsStory,
                    RegisteredInTable, ClientsInLog

-----------------------------------------------------------------------------
(* Theorems. *)

(* The inductive invariant of the logs, on that of the server: a line of   *)
(* handle_client is written after the step it is about, while others go on.*)
THEOREM AuditInvariance == AuditSpec => []AuditInv
<1>1. AuditSpec => []IInv
  BY AuditImplements, ResourceImplements, Invariance, PTL
<1>2. IInv /\ IInv' /\ AuditInv /\ [AuditNext]_auditVars => AuditInv'
  BY AuditStep
<1> QED
  BY <1>1, <1>2, AuditStart, PTL DEF AuditSpec

(* However the threads interleave, the log tells of each session what the  *)
(* peer was told, every message with its vote and its outcome in order,    *)
(* with nothing left out, doubled or about another message.                *)
THEOREM LogTrue == AuditSpec => []LogIsStory
<1>1. AuditInv => LogIsStory
  BY DEF AuditInv
<1> QED
  BY <1>1, AuditInvariance, PTL

(* No vote is logged as registered that is not in votos, and none in votos *)
(* is left out of the log but those whose handler has not written yet.     *)
THEOREM RegisteredTrue == AuditSpec => []RegisteredInTable
<1>1. AuditInv => RegisteredInTable
  BY DEF AuditInv
<1> QED
  BY <1>1, AuditInvariance, PTL

(* Who came less who left, by the log, is "Clientes conectados".           *)
THEOREM ClientsTrue == AuditSpec => []ClientsInLog
<1>1. AuditInv => ClientsInLog
  BY DEF AuditInv
<1> QED
  BY <1>1, AuditInvariance, PTL

=============================================================================
