----------------------------- MODULE AuditTrail -----------------------------
(***************************************************************************)
(* What the server's threads write into the log: add_log with [INFO],      *)
(* [VOTO] and [ERRO] lines, and security_log_event with [SEC] lines. A     *)
(* thread writes its line after the step it is about, and by then other    *)
(* threads have gone on and the process may have ended. Some branches of   *)
(* start_server write theirs before they close or free: that line is       *)
(* written in their step. This is ServerResources with the lines each      *)
(* thread still has to write and those it has written: the server with all *)
(* that its threads do. How the ring keeps the lines of all threads is     *)
(* LogRing.                                                                *)
(***************************************************************************)
EXTENDS ServerResources

Seqs == INSTANCE SequencesExt

CONSTANTS
  Network,    \* the thread of start_server
  MaxLines    \* bound: lines of that thread when accept fails

ASSUME NetworkAssumption == Network \notin Conns /\ MaxLines \in Nat

VARIABLES
  owed,    \* per thread: the lines it writes before its next step
  lines,   \* per thread: the lines it has written into the log
  old      \* history: connections opened before this process started

log == <<owed, lines, old>>

auditVars == <<resourceVars, log>>

Writer == Conns \cup {Network}

Line(kind) == [kind |-> kind, vote |-> Malformed]

VotoLine(v) == [kind |-> "VOTO", vote |-> v]

Owe(t, s) ==
  /\ owed' = [owed EXCEPT ![t] = s]
  /\ UNCHANGED <<lines, old>>

(* start_server writes in the middle of a branch.                          *)
Write(line) ==
  /\ lines' = [lines EXCEPT ![Network] = Append(@, line)]
  /\ UNCHANGED <<owed, old>>

Silent == UNCHANGED log

-----------------------------------------------------------------------------
AuditInit ==
  /\ ResourceInit
  /\ owed = [t \in Writer |-> <<>>]
  /\ lines = [t \in Writer |-> <<>>]
  /\ old = {}

(* start_dashboard writes three lines and then creates the thread of       *)
(* start_server. The log of an earlier process is gone with it.            *)
StartLogs ==
  /\ StartProcess
  /\ owed' = [t \in Writer |-> <<>>]
  /\ lines' = [t \in Writer |->
       IF t = Network
       THEN <<Line("Servidor_iniciado"), Line("Interface_carregada"),
              Line("Sistema_pronto")>>
       ELSE <<>>]
  /\ old' = {c \in Conns : handler[c] # "idle"}

EndLosesLines ==
  /\ ProcessGone
  /\ owed' = [t \in Writer |-> <<>>]
  /\ UNCHANGED <<lines, old>>

(* The error branches of start_server by the call that fails: they write   *)
(* their line and then close and clean up.                                 *)
SetupError ==
  [socket |-> "Falha_ao_criar_socket", bind |-> "Bind_falhou",
   listen |-> "Listen_falhou"]

(* init_server_ssl has cleaned up when start_server writes its line.       *)
SetupFailureLogs ==
  IF booting \in DOMAIN SetupError
  THEN Write(Line(SetupError[booting]))
  ELSE Owe(Network, <<Line("SEC_SSL")>>)

SetupLogs ==
  /\ owed[Network] = <<>>
  /\ \/ /\ SetupCallReturns
        /\ IF booting = "check_private_key"
           THEN Owe(Network, <<Line("SSL_inicializado")>>)
           ELSE Silent
     \/ SetupEnds /\ Owe(Network, <<Line("TCP_iniciado")>>)
     \/ SetupFails /\ SetupFailureLogs

(* accept() < 0. *)
AcceptFails ==
  /\ acceptor = "accept" /\ owed[Network] = <<>>
  /\ Len(lines[Network]) < MaxLines
  /\ Owe(Network, <<Line("Accept_falhou")>>)
  /\ UNCHANGED resourceVars

AcceptLoopLogs ==
  /\ owed[Network] = <<>>
  /\ \/ /\ \/ \E c \in Conns : AcceptHolds(c)
           \/ AllocateArgs
           \/ CountThread /\ UNCHANGED resources
           \/ HandOver
        /\ Silent
     \/ /\ TurnAwayCloses
        /\ \/ Write(Line("SEC_RATE_LIMIT"))
           \/ Owe(Network, <<Line("SEC_MEMORIA")>>)
     \/ NoThread /\ Write(Line("SEC_THREAD"))

-----------------------------------------------------------------------------
(* handle_client. *)

(* Mutant: a failed handshake is logged as the end of a session. *)
GreetLogsEnd(c) ==
  \/ (TakeArgs(c) \/ SslNew(c) \/ SslAccept(c)) /\ Silent
  \/ SslAcceptFails(c) /\ Owe(c, <<Line("Cliente_desconectado")>>)

GreetLogs(c) ==
  \/ (TakeArgs(c) \/ SslNew(c) \/ SslAccept(c)) /\ Silent
  \/ SslAcceptFails(c) /\ Owe(c, <<Line("SEC_SSL")>>)

(* The line of a branch that refuses the message and continues. *)
LogsIfRefused(c, kind) ==
  IF handler'[c] = "recv" THEN Owe(c, <<Line(kind)>>) ELSE Silent

(* Mutant: "Voto_registrado" is written after the if and else. *)
SaveLogsAnyway(c) ==
  /\ SaveVote(c)
  /\ LogsIfRefused(c, "Voto_registrado")

SaveLogs(c) ==
  /\ SaveVote(c)
  /\ LogsIfRefused(c, "SEC_DB")

(* Mutant: a message that does not parse gets its NACK and no line. *)
RecvLogsNot(c) ==
  /\ Recv(c)
  /\ IF sent[c][got'[c]] = Malformed
     THEN Silent
     ELSE Owe(c, <<VotoLine(sent[c][got'[c]])>>)

RecvLogs(c) ==
  /\ Recv(c)
  /\ Owe(c, <<IF sent[c][got'[c]] = Malformed
              THEN Line("SEC_VALIDACAO")
              ELSE VotoLine(sent[c][got'[c]])>>)

(* Mutant: only the database keeps the vote. *)
AckLogsNot(c) == Ack(c) /\ Silent

AckLogs(c) == Ack(c) /\ Owe(c, <<Line("Voto_registrado")>>)

(* The steps of a session, which acquire and release nothing. *)
SessionLogs(c) ==
  /\ UNCHANGED resources
  /\ \/ Enter(c) /\ Owe(c, <<Line("Novo_cliente")>>)
     \/ RecvLogs(c)
     \/ VoterExists(c) /\ LogsIfRefused(c, "SEC_VALIDACAO")
     \/ HasVoted(c) /\ LogsIfRefused(c, "SEC_REGRA")
     \/ SaveLogs(c)
     \/ AckLogs(c)
     \/ Leave(c) /\ Owe(c, <<Line("Cliente_desconectado")>>)
     \/ (RecvEnds(c) \/ GenerateReceipt(c) \/ CountVote(c)) /\ Silent

HandleClientLogs(c) ==
  /\ owed[c] = <<>>
  /\ \/ GreetLogs(c)
     \/ SessionLogs(c)
     \/ CleanupReleases(c) /\ Silent

(* add_log, or security_log_event, in the thread t. *)
AddLog(t) ==
  /\ owed[t] # <<>>
  /\ lines' = [lines EXCEPT ![t] = Append(@, Head(owed[t]))]
  /\ owed' = [owed EXCEPT ![t] = Tail(@)]
  /\ UNCHANGED <<resourceVars, old>>

PeerStep == (\E c \in Conns : Peer(c)) /\ UNCHANGED resources /\ Silent

AuditNext ==
  \/ StartLogs
  \/ EndLosesLines
  \/ SetupLogs
  \/ AcceptFails
  \/ AcceptLoopLogs
  \/ \E c \in Conns : HandleClientLogs(c)
  \/ \E t \in Writer : AddLog(t)
  \/ PeerStep

AuditSpec == AuditInit /\ [][AuditNext]_auditVars

(* The scheduler runs every thread that can run, and SSL_accept returns    *)
(* when its peer is gone: Fairness of the server.                          *)
AuditFairness ==
  /\ WF_auditVars(AcceptLoopLogs \/ AddLog(Network))
  /\ \A c \in Conns :
       /\ WF_auditVars(\/ AddLog(c)
                       \/ greeting[c] # "SSL_accept" /\ HandleClientLogs(c))
       /\ WF_auditVars(hungup[c] /\ HandleClientLogs(c))

FairAuditSpec == AuditSpec /\ AuditFairness

-----------------------------------------------------------------------------
(* Properties. *)

(* What is or will be in the log of thread t. *)
Trail(t) == lines[t] \o owed[t]

ReplyLine(kind) ==
  CASE kind \in {"FORMATO_INVALIDO", "ELEITOR_INVALIDO"} ->
         Line("SEC_VALIDACAO")
    [] kind = "JA_VOTOU" -> Line("SEC_REGRA")
    [] kind = "ERRO_DB"  -> Line("SEC_DB")
    [] kind = "ACK"      -> Line("Voto_registrado")

(* The lines about message i of c: the vote, and the answer if there is    *)
(* one already.                                                            *)
About(c, i) ==
  (IF sent[c][i] = Malformed THEN <<>> ELSE <<VotoLine(sent[c][i])>>)
    \o (IF i > Len(replies[c]) THEN <<>> ELSE <<ReplyLine(replies[c][i].kind)>>)

Messages(c) == Seqs!FlattenSeq([i \in 1..got[c] |-> About(c, i)])

Session(c) == <<Line("Novo_cliente")>> \o Messages(c)

(* What the log should tell of connection c. *)
Story(c) ==
  CASE handler[c] = "failed"    -> <<Line("SEC_SSL")>>
    [] handler[c] \in Connected -> Session(c)
    [] handler[c] = "done" ->
         Session(c) \o <<Line("Cliente_desconectado")>>
    [] OTHER                    -> <<>>

(* The log tells of each session what the peer was told, every message     *)
(* with its vote and its outcome in the order they came, with nothing left *)
(* out, doubled or about another message, up to the lines a thread is      *)
(* about to write.                                                         *)
LogIsStory ==
  acceptor # "down" => \A c \in Conns \ old : Trail(c) = Story(c)

(* The lines of one kind in the logs S of the connections.                 *)
Marks(S, kind) ==
  UNION {{c} \X {i \in DOMAIN S[c] : S[c][i].kind = kind} : c \in Conns}

Count(S, kind) == Cardinality(Marks(S, kind))

Trails == [c \in Conns |-> Trail(c)]

(* The votes in the log, those the dashboard counts and the rows of votos  *)
(* are the same number, up to the handlers that have inserted a row and    *)
(* not written their line: no vote is logged as registered that is not     *)
(* in the table.                                                           *)
RegisteredInTable ==
  acceptor # "down" =>
    Count(Trails, "Voto_registrado") + Size({"count_vote", "ack"})
      = Len(votos) - base

(* Who came less who left, by the log, is "Clientes conectados", up to the *)
(* lines not written yet.                                                  *)
ClientsInLog ==
  acceptor # "down" =>
    Count(Trails, "Novo_cliente")
      = connected_clients + Count(Trails, "Cliente_desconectado")

(* A vote that is counted gets its line in the log, unless the process     *)
(* ends first.                                                             *)
CountedIsLogged ==
  \A n \in 1..Cardinality(Roll) :
    acceptor # "down" /\ total_votes >= n ~>
      acceptor = "down" \/ Count(lines, "Voto_registrado") >= n

-----------------------------------------------------------------------------
(* The inductive invariant, with IInv and ResourceInv of the server.       *)
(* AuditTrailProofs proves it.                                             *)

LineKind ==
  {"Servidor_iniciado", "Interface_carregada", "Sistema_pronto",
   "SSL_inicializado", "TCP_iniciado", "Falha_ao_criar_socket", "Bind_falhou",
   "Listen_falhou", "Accept_falhou", "Novo_cliente", "VOTO",
   "Voto_registrado", "Cliente_desconectado", "SEC_SSL", "SEC_RATE_LIMIT",
   "SEC_MEMORIA", "SEC_THREAD", "SEC_VALIDACAO", "SEC_REGRA", "SEC_DB"}

LogLine == [kind : LineKind, vote : Message]

(* Where the log has nothing to tell of a connection: it has no session    *)
(* yet, or never gets one, or is of an earlier process.                    *)
Unheard == {"idle", "queued", "accepted", "ssl_accept", "enter"}

(* Nothing has been read from such a connection, and nothing written.      *)
UnheardIsNew ==
  \A c \in Conns :
    handler[c] \in Unheard => got[c] = 0 /\ replies[c] = <<>>

(* The threads have written only so many lines. *)
CountedKind == {"Voto_registrado", "Novo_cliente", "Cliente_desconectado"}

FiniteLog ==
  acceptor # "down" =>
    \A kind \in CountedKind : IsFiniteSet(Marks(Trails, kind))

AuditInv ==
  /\ owed \in [Writer -> Seq(LogLine)] /\ lines \in [Writer -> Seq(LogLine)]
  /\ UnheardIsNew /\ FiniteLog
  /\ LogIsStory /\ RegisteredInTable /\ ClientsInLog

=============================================================================
