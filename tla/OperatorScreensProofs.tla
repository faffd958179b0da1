------------------------ MODULE OperatorScreensProofs ------------------------
(* The theorems about the terminal: what the operator reads in several     *)
(* steps, while any number of handlers go on, is true of one moment.       *)
EXTENDS OperatorScreens, ServerSocketProofs

-----------------------------------------------------------------------------
(* A step with the terminal is a step of the server, or changes nothing of *)
(* it.                                                                     *)
LEMMA ScreenServerStep ==
  ASSUME [ScreenNext]_screenVars
  PROVE  [Next]_vars
<1>1. CASE UNCHANGED screenVars
  BY <1>1 DEF screenVars
<1>2. CASE StartTerminal \/ ProcessDies \/ ExitChosen
  BY <1>2 DEF StartTerminal, ProcessDies, ExitChosen, Next
<1>3. CASE ServerStep
  BY <1>3 DEF ServerStep, Next
<1>4. CASE Dashboard
  BY <1>4 DEF Dashboard, Refresh, RefreshVotes, RefreshState, TimerExpires,
              ChooseWindow, EnterPassword, ReadRows, ReadCounters, ReadTotal,
              CloseWindow
<1> QED
  BY <1>1, <1>2, <1>3, <1>4 DEF ScreenNext

(* A thread that is counted among the clients is counted among the threads, *)
(* and the network thread is only counted there.                            *)
LEMMA MoreThreads ==
  ASSUME IInv, acceptor # "down"
  PROVE  active_threads > connected_clients
<1>1. CounterAccounting /\ Finite /\ handler \in [Conns -> HandlerPc]
  BY DEF IInv, TypeOK
<1>2. /\ connected_clients = Size(Connected)
      /\ active_threads = 1 + Pending + Size(Running) + Size({"failed"})
  BY <1>1 DEF CounterAccounting
<1>3. IsFiniteSet(In(Running)) /\ IsFiniteSet(In({"failed"}))
  BY <1>1 DEF Finite, Regions
<1>4. In(Connected) \subseteq In(Running)
  BY DEF In, Running
<1>5. Size(Connected) \in Nat /\ Size(Running) \in Nat /\ Size(Connected) <= Size(Running)
  BY <1>3, <1>4, FS_Subset, FS_CardinalityType DEF Size
<1>6. Size({"failed"}) \in Nat /\ Pending \in Nat
  BY <1>3, FS_CardinalityType DEF Size, Pending
<1> QED
  BY <1>2, <1>5, <1>6

(* The count of the first rows does not change when more are saved. *)
LEMMA TallyKept ==
  ASSUME NEW n \in Nat, \A i \in 1..n : votos'[i] = votos[i]
  PROVE  Tally(n)' = Tally(n)
<1>1. {votos'[i].candidate : i \in 1..n} = {votos[i].candidate : i \in 1..n}
  OBVIOUS
<1>2. \A k : {i \in 1..n : votos'[i].candidate = k} = {i \in 1..n : votos[i].candidate = k}
  OBVIOUS
<1> QED
  BY <1>1, <1>2 DEF Tally

-----------------------------------------------------------------------------
(* The parts of the invariant. *)

Places ==
  /\ screen = "off" <=> acceptor = "down"
  /\ screen = "lock" => opening # "Resultados"

Reads ==
  /\ counted <= Len(votos) /\ dashboard.votes <= Len(votos)
  /\ screen = "refresh_lock" => dashboard.votes <= counted
  /\ screen = "count_votes" /\ opening = "Resultados" =>
       \E n \in opened..Len(votos) : rows = Tally(n)
  /\ screen = "window" /\ opening = "Resultados" =>
       \E n \in opened..counted : rows = Tally(n)

LEMMA ScreenParts ==
  ScreenInv <=> /\ ScreenTypeOK /\ Places /\ CountersAgree /\ opened <= Len(votos)
                /\ ~ DbMayFail => Reads
BY DEF ScreenInv, Places, Reads, ResultsAreTally

LEMMA ScreenFromParts ==
  (/\ ScreenTypeOK /\ Places /\ CountersAgree /\ opened <= Len(votos)
   /\ ~ DbMayFail => Reads
   => ScreenInv)'
BY ScreenParts, PTL

LEMMA RowsTyped ==
  ASSUME IInv
  PROVE  Len(votos) \in Nat /\ connected_clients \in Nat /\ active_threads \in Nat
BY DEF IInv, TypeOK

-----------------------------------------------------------------------------
(* The steps of the other threads. *)

(* What the terminal has read stays true while rows are added. *)
LEMMA MoreRows ==
  ASSUME ScreenInv, Len(votos) \in Nat, Len(votos') \in Nat, Len(votos) <= Len(votos'),
         \A k \in 1..Len(votos) : votos'[k] = votos[k],
         UNCHANGED <<opening, counted, threads, rows, dashboard, opened>>,
         screen' = screen \/ screen' = "off"
  PROVE  opened' <= Len(votos') /\ (~ DbMayFail => Reads') /\ CountersAgree'
<1>1. ScreenTypeOK /\ CountersAgree /\ opened <= Len(votos) /\ (~ DbMayFail => Reads)
  BY ScreenParts
<1>2. counted \in Nat /\ opened \in Nat /\ dashboard.votes \in Nat
  BY <1>1 DEF ScreenTypeOK
<1>3. opened' <= Len(votos') /\ CountersAgree'
  BY <1>1, <1>2 DEF CountersAgree
<1>4. ASSUME ~ DbMayFail PROVE Reads'
  <2>1. Reads
    BY <1>1, <1>4
  <2>2. /\ counted' <= Len(votos') /\ dashboard'.votes <= Len(votos')
        /\ screen' = "refresh_lock" => dashboard'.votes <= counted'
    BY <1>2, <2>1 DEF Reads
  <2>3. ASSUME NEW n \in Nat, n <= Len(votos), rows = Tally(n)
        PROVE  rows' = Tally(n)'
    <3>1. \A i \in 1..n : votos'[i] = votos[i]
      BY <2>3
    <3> QED
      BY <2>3, <3>1, TallyKept
  <2>4. ASSUME screen' = "count_votes" /\ opening' = "Resultados"
        PROVE  \E n \in opened'..Len(votos') : rows' = Tally(n)'
    <3>1. PICK n \in opened..Len(votos) : rows = Tally(n)
      BY <2>1, <2>4 DEF Reads
    <3>2. n \in Nat /\ n <= Len(votos) /\ n \in opened'..Len(votos')
      BY <1>2
    <3> QED
      BY <2>3, <3>1, <3>2
  <2>5. ASSUME screen' = "window" /\ opening' = "Resultados"
        PROVE  \E n \in opened'..counted' : rows' = Tally(n)'
    <3>1. PICK n \in opened..counted : rows = Tally(n)
      BY <2>1, <2>5 DEF Reads
    <3>2. n \in Nat /\ n <= Len(votos) /\ n \in opened'..counted'
      BY <1>2, <2>1 DEF Reads
    <3> QED
      BY <2>3, <3>1, <3>2
  <2> QED
    BY <2>2, <2>4, <2>5 DEF Reads
<1> QED
  BY <1>3, <1>4

LEMMA ServerThreadsStep ==
  ASSUME IInv, ScreenInv, ServerStep \/ ProcessDies \/ ExitChosen
  PROVE  ScreenInv'
<1>1. ScreenTypeOK /\ Places
  BY ScreenParts
<1>2. Next
  BY DEF ServerStep, ProcessDies, ExitChosen, Next
<1>3. UNCHANGED <<admin_password, opening, counted, threads, rows, dashboard, opened>>
  BY DEF ServerStep, ProcessDies, ExitChosen, terminal
<1>4. Places' /\ (screen' = screen \/ screen' = "off")
  <2>1. CASE ServerStep
    <3>1. screen' = screen /\ opening' = opening
      BY <2>1 DEF ServerStep, terminal
    <3>2. acceptor # "down" <=> acceptor' # "down"
      <4>1. CASE Listen \/ AcceptLoop
        BY <4>1 DEF Listen, AcceptLoop, Accept, TurnAway, RateLimitAllows, CountThread,
                    CreateThread, UncountThread, Refuse
      <4>2. CASE \E c \in Conns : Handshake(c) \/ HandleClient(c) \/ Peer(c)
        <5>1. acceptor' = acceptor
          BY <4>2 DEF Handshake, HandleClient, Enter, Recv, RecvEnds, VoterExists,
                      HasVoted, GenerateReceipt, SaveVote, CountVote, Ack, Cleanup,
                      Leave, Peer, PeerConnects, PeerSends, PeerHangsUp, process
        <5> QED
          BY <5>1
      <4> QED
        BY <2>1, <4>1, <4>2 DEF ServerStep
    <3> QED
      BY <1>1, <3>1, <3>2 DEF Places
  <2>2. CASE ProcessDies \/ ExitChosen
    BY <2>2 DEF ProcessDies, ExitChosen, Show, ProcessEnds, Places
  <2> QED
    BY <2>1, <2>2
<1>5. ScreenTypeOK'
  <2>1. screen' \in Screens
    BY <1>1, <1>4 DEF ScreenTypeOK, Screens
  <2> QED
    BY <1>1, <1>3, <2>1 DEF ScreenTypeOK
<1>6. opened' <= Len(votos') /\ (~ DbMayFail => Reads') /\ CountersAgree'
  BY <1>2, <1>3, <1>4, TablesGrow, MoreRows
<1> QED
  BY <1>4, <1>5, <1>6, ScreenFromParts

-----------------------------------------------------------------------------
(* The steps of the terminal's own thread. *)

LEMMA StartStep ==
  ASSUME IInv, ScreenInv, StartTerminal
  PROVE  ScreenInv'
<1>1. ScreenTypeOK /\ CountersAgree /\ (~ DbMayFail => Reads)
  BY ScreenParts
<1>2. /\ acceptor' = "boot" /\ votos' = votos /\ admin_password' \in AdminPasswords
      /\ screen' = "refresh_votes" /\ counted' = 0 /\ threads' = NoThreads
      /\ opened' = 0 /\ opening' = opening /\ dashboard' = dashboard
  BY DEF StartTerminal, Start, Show
<1>3. ScreenTypeOK'
  BY <1>1, <1>2 DEF ScreenTypeOK, Screens, NoThreads, Threads
<1>4. Places' /\ CountersAgree' /\ opened' <= Len(votos')
  BY <1>1, <1>2, RowsTyped DEF Places, CountersAgree, NoThreads
<1>5. ASSUME ~ DbMayFail PROVE Reads'
  BY <1>1, <1>2, <1>5, RowsTyped DEF Reads
<1> QED
  BY <1>3, <1>4, <1>5, ScreenFromParts

(* What the queries return, when none fails. *)
LEMMA QueryAnswers ==
  ASSUME IInv
  PROVE  /\ CountVotes \subseteq Nat
         /\ ~ DbMayFail => CountVotes = {Len(votos)} /\ GetVoteResults = {Tally(Len(votos))}
<1>1. CountVotes \subseteq Nat
  BY RowsTyped DEF CountVotes
<1>2. ~ DbMayFail => CountVotes = {Len(votos)}
  BY DEF CountVotes
<1>3. ~ DbMayFail => GetVoteResults = {Tally(Len(votos))}
  BY DEF GetVoteResults
<1> QED
  BY <1>1, <1>2, <1>3

(* The operator is let in. *)
LEMMA LetInStep ==
  ASSUME IInv, ScreenInv, acceptor # "down", UNCHANGED vars,
         opening' \in Windows, LetIn(opening'),
         UNCHANGED <<admin_password, counted, threads, dashboard>>
  PROVE  ScreenInv'
<1>1. ScreenTypeOK /\ CountersAgree /\ (~ DbMayFail => Reads)
  BY ScreenParts
<1>2. /\ acceptor' = acceptor /\ votos' = votos /\ opened' = Len(votos)
      /\ screen' = IF opening' = "Resultados" THEN "get_vote_results" ELSE "lock"
  BY DEF LetIn, Show, First, vars, tables, process
<1>3. ScreenTypeOK'
  BY <1>1, <1>2, RowsTyped DEF ScreenTypeOK, Screens, Reading
<1>4. Places' /\ CountersAgree' /\ opened' <= Len(votos')
  BY <1>1, <1>2, RowsTyped DEF Places, CountersAgree
<1>5. ASSUME ~ DbMayFail PROVE Reads'
  BY <1>1, <1>2, <1>5 DEF Reads
<1> QED
  BY <1>3, <1>4, <1>5, ScreenFromParts

(* A step that goes to a place where nothing has been read. *)
LEMMA QuietStep ==
  ASSUME IInv, ScreenInv, acceptor # "down", UNCHANGED vars,
         screen' \in {"refresh_votes", "password", "denied", "form"},
         opening' \in Windows,
         counted' = counted \/ counted' = 0,
         threads' = threads \/ threads' = NoThreads,
         opened' = opened \/ opened' = 0,
         UNCHANGED <<admin_password, dashboard>>
  PROVE  ScreenInv'
<1>1. ScreenTypeOK /\ CountersAgree /\ opened <= Len(votos) /\ (~ DbMayFail => Reads)
  BY ScreenParts
<1>2. acceptor' = acceptor /\ votos' = votos
  BY DEF vars, tables, process
<1>3. ScreenTypeOK'
  BY <1>1 DEF ScreenTypeOK, Screens, NoThreads, Threads
<1>4. Places' /\ CountersAgree' /\ opened' <= Len(votos')
  BY <1>1, <1>2, RowsTyped DEF Places, CountersAgree, NoThreads
<1>5. ASSUME ~ DbMayFail PROVE Reads'
  BY <1>1, <1>2, <1>5, RowsTyped DEF Reads
<1> QED
  BY <1>3, <1>4, <1>5, ScreenFromParts

(* The dashboard is redrawn. *)
LEMMA RefreshStep ==
  ASSUME IInv, ScreenInv, RefreshVotes \/ RefreshState
  PROVE  ScreenInv'
<1>1. /\ ScreenTypeOK /\ Places /\ CountersAgree /\ opened <= Len(votos)
      /\ ~ DbMayFail => Reads
  BY ScreenParts
<1>2. /\ acceptor' = acceptor /\ votos' = votos
      /\ UNCHANGED <<admin_password, opening, threads, opened>>
  BY DEF RefreshVotes, RefreshState, vars, tables, process
<1>3. acceptor # "down"
  BY <1>1 DEF RefreshVotes, RefreshState, Places
<1>4. Places' /\ opened' <= Len(votos')
  BY <1>1, <1>2, <1>3 DEF RefreshVotes, RefreshState, Show, Places
<1>5. CASE RefreshVotes
  <2>1. /\ screen' = "refresh_lock" /\ counted' \in CountVotes /\ dashboard' = dashboard
    BY <1>5 DEF RefreshVotes, Show
  <2>2. ScreenTypeOK' /\ CountersAgree'
    BY <1>1, <1>2, <2>1, QueryAnswers DEF ScreenTypeOK, Screens, CountersAgree
  <2>3. ASSUME ~ DbMayFail PROVE Reads'
    <3>1. counted' = Len(votos)
      BY <2>1, <2>3, QueryAnswers
    <3> QED
      BY <1>1, <1>2, <2>1, <2>3, <3>1, RowsTyped DEF Reads
  <2> QED
    BY <1>4, <2>2, <2>3, ScreenFromParts
<1>6. CASE RefreshState
  <2>1. /\ screen = "refresh_lock" /\ screen' = "form" /\ counted' = counted
        /\ dashboard' = [votes |-> counted, threads |->
                          [clients |-> connected_clients, active |-> active_threads]]
    BY <1>6 DEF RefreshState, Show
  <2>2. ScreenTypeOK'
    BY <1>1, <1>2, <2>1, RowsTyped DEF ScreenTypeOK, Screens, Threads
  <2>3. CountersAgree'
    BY <1>1, <1>2, <1>3, <2>1, MoreThreads DEF CountersAgree
  <2>4. ASSUME ~ DbMayFail PROVE Reads'
    BY <1>1, <1>2, <2>1, <2>4 DEF Reads
  <2> QED
    BY <1>4, <2>2, <2>3, <2>4, ScreenFromParts
<1> QED
  BY <1>5, <1>6

(* A window is read. *)
LEMMA ReadStep ==
  ASSUME IInv, ScreenInv, ReadRows \/ ReadCounters \/ ReadTotal
  PROVE  ScreenInv'
<1>1. /\ ScreenTypeOK /\ Places /\ CountersAgree /\ opened <= Len(votos)
      /\ ~ DbMayFail => Reads
  BY ScreenParts
<1>2. /\ acceptor' = acceptor /\ votos' = votos
      /\ UNCHANGED <<admin_password, opening, dashboard, opened>>
  BY DEF ReadRows, ReadCounters, ReadTotal, vars, tables, process
<1>3. acceptor # "down"
  BY <1>1 DEF ReadRows, ReadCounters, ReadTotal, Places
<1>4. Places' /\ opened' <= Len(votos')
  BY <1>1, <1>2, <1>3 DEF ReadRows, ReadCounters, ReadTotal, Show, Places
<1>5. CASE ReadRows
  <2>1. screen' = "count_votes" /\ rows' \in GetVoteResults /\ UNCHANGED <<counted, threads>>
    BY <1>5 DEF ReadRows, Show
  <2>2. ScreenTypeOK' /\ CountersAgree'
    BY <1>1, <1>2, <2>1 DEF ScreenTypeOK, Screens, Reading, CountersAgree
  <2>3. ASSUME ~ DbMayFail PROVE Reads'
    <3>1. rows' = Tally(Len(votos)) /\ Tally(Len(votos))' = Tally(Len(votos))
      BY <1>2, <2>1, <2>3, QueryAnswers DEF Tally
    <3>2. Len(votos) \in opened'..Len(votos')
      BY <1>1, <1>2, RowsTyped DEF ScreenTypeOK
    <3>3. \E n \in opened'..Len(votos') : rows' = Tally(n)'
      BY <1>2, <3>1, <3>2
    <3> QED
      BY <1>1, <1>2, <2>1, <2>3, <3>3 DEF Reads
  <2> QED
    BY <1>4, <2>2, <2>3, ScreenFromParts
<1>6. CASE ReadCounters
  <2>1. /\ screen = "lock" /\ screen' = "count_votes" /\ UNCHANGED counted
        /\ threads' = [clients |-> connected_clients, active |-> active_threads]
    BY <1>6 DEF ReadCounters, Show
  <2>2. ScreenTypeOK'
    BY <1>1, <1>2, <2>1, RowsTyped DEF ScreenTypeOK, Screens, Reading, Threads
  <2>3. CountersAgree'
    BY <1>1, <1>2, <1>3, <2>1, MoreThreads DEF CountersAgree
  <2>4. ASSUME ~ DbMayFail PROVE Reads'
    <3>1. opening' # "Resultados"
      BY <1>1, <1>2, <2>1 DEF Places
    <3> QED
      BY <1>1, <1>2, <2>1, <2>4, <3>1 DEF Reads
  <2> QED
    BY <1>4, <2>2, <2>3, <2>4, ScreenFromParts
<1>7. CASE ReadTotal
  <2>1. /\ screen = "count_votes" /\ screen' = "window" /\ counted' \in CountVotes
        /\ UNCHANGED <<threads, rows>>
    BY <1>7 DEF ReadTotal, Show
  <2>2. ScreenTypeOK' /\ CountersAgree'
    BY <1>1, <1>2, <2>1, QueryAnswers DEF ScreenTypeOK, Screens, CountersAgree
  <2>3. ASSUME ~ DbMayFail PROVE Reads'
    <3>1. counted' = Len(votos) /\ Reads
      BY <1>1, <2>1, <2>3, QueryAnswers
    <3>2. ASSUME opening' = "Resultados"
          PROVE  \E n \in opened'..counted' : rows' = Tally(n)'
      <4>1. PICK n \in opened..Len(votos) : rows = Tally(n)
        BY <1>2, <2>1, <3>1, <3>2 DEF Reads
      <4>2. Tally(n)' = Tally(n)
        BY <1>2 DEF Tally
      <4> QED
        BY <1>2, <2>1, <3>1, <4>1, <4>2
    <3> QED
      BY <1>2, <2>1, <3>1, <3>2, RowsTyped DEF Reads
  <2> QED
    BY <1>4, <2>2, <2>3, ScreenFromParts
<1> QED
  BY <1>5, <1>6, <1>7

LEMMA DashboardStep ==
  ASSUME IInv, ScreenInv, Dashboard
  PROVE  ScreenInv'
<1>1. ScreenTypeOK /\ Places
  BY ScreenParts
<1>2. CASE RefreshVotes \/ RefreshState
  BY <1>2, RefreshStep
<1>3. CASE ReadRows \/ ReadCounters \/ ReadTotal
  BY <1>3, ReadStep
<1>4. CASE TimerExpires \/ CloseWindow
  <2>1. screen # "off" /\ acceptor # "down"
    BY <1>1, <1>4 DEF TimerExpires, CloseWindow, Places
  <2>2. /\ screen' = "refresh_votes" /\ opening' \in Windows /\ UNCHANGED vars
        /\ UNCHANGED <<admin_password, dashboard>>
        /\ counted' = counted \/ counted' = 0
        /\ threads' = threads \/ threads' = NoThreads
        /\ opened' = opened \/ opened' = 0
    BY <1>1, <1>4 DEF TimerExpires, CloseWindow, Show, ScreenTypeOK
  <2> QED
    BY <2>1, <2>2, QuietStep
<1>5. ASSUME NEW w \in Windows, ChooseWindow(w) PROVE ScreenInv'
  <2>1. acceptor # "down" /\ UNCHANGED vars /\ opening' = w
        /\ UNCHANGED <<admin_password, counted, threads, dashboard>>
    BY <1>1, <1>5 DEF ChooseWindow, Places
  <2>2. CASE LetIn(w)
    BY <2>1, <2>2, LetInStep
  <2>3. CASE screen' = "password" /\ opened' = opened
    BY <2>1, <2>3, QuietStep
  <2> QED
    BY <1>5, <2>2, <2>3 DEF ChooseWindow, Show
<1>6. ASSUME NEW p \in Passwords, EnterPassword(p) PROVE ScreenInv'
  <2>1. acceptor # "down" /\ UNCHANGED vars /\ opening' = opening /\ opening \in Windows
        /\ UNCHANGED <<admin_password, counted, threads, dashboard>>
    BY <1>1, <1>6 DEF EnterPassword, Places, ScreenTypeOK
  <2>2. CASE LetIn(opening)
    BY <2>1, <2>2, LetInStep
  <2>3. CASE screen' = "denied" /\ opened' = opened
    BY <2>1, <2>3, QuietStep
  <2> QED
    BY <1>6, <2>2, <2>3 DEF EnterPassword, Show
<1> QED
  BY <1>2, <1>3, <1>4, <1>5, <1>6 DEF Dashboard, Refresh

-----------------------------------------------------------------------------
LEMMA ScreenStart ==
  ScreenInit => ScreenInv
<1> SUFFICES ASSUME ScreenInit PROVE ScreenInv
  OBVIOUS
<1>1. ScreenTypeOK
  BY DEF ScreenInit, ScreenTypeOK, Screens, Windows, NoThreads, Threads
<1>2. Places /\ CountersAgree /\ opened <= Len(votos) /\ Reads
  BY DEF ScreenInit, Init, Places, CountersAgree, NoThreads, Reads
<1> QED
  BY <1>1, <1>2, ScreenParts

LEMMA ScreenStep ==
  ASSUME IInv, ScreenInv, [ScreenNext]_screenVars
  PROVE  ScreenInv'
<1>1. CASE UNCHANGED screenVars
  <2>1. /\ UNCHANGED <<votos, acceptor>>
        /\ UNCHANGED <<admin_password, screen, opening, counted, threads, rows,
                       dashboard, opened>>
    BY <1>1 DEF screenVars, vars, tables, process, terminal
  <2>2. ScreenTypeOK /\ Places /\ Len(votos) \in Nat
    BY ScreenParts, RowsTyped
  <2>3. ScreenTypeOK' /\ Places'
    BY <2>1, <2>2 DEF ScreenTypeOK, Places
  <2>4. opened' <= Len(votos') /\ (~ DbMayFail => Reads') /\ CountersAgree'
    BY <2>1, <2>2, MoreRows
  <2> QED
    BY <2>3, <2>4, ScreenFromParts
<1>2. CASE ScreenNext
  BY <1>2, StartStep, ServerThreadsStep, DashboardStep DEF ScreenNext
<1> QED
  BY <1>1, <1>2

-----------------------------------------------------------------------------
(* Theorems. *)

(* The server with its terminal is the server: what is proved of           *)
(* ServerSocket holds while the operator looks.                            *)
THEOREM ScreensImplement == ScreenSpec => Spec
<1>1. ScreenInit => Init
  BY DEF ScreenInit
<1>2. [ScreenNext]_screenVars => [Next]_vars
  BY ScreenServerStep
<1> QED
  BY <1>1, <1>2, PTL DEF ScreenSpec, Spec

(* The inductive invariant of what the terminal has read, on that of the   *)
(* server.                                                                 *)
THEOREM ScreensInvariance == ScreenSpec => []ScreenInv
<1>1. ScreenSpec => []IInv
  BY ScreensImplement, Invariance, PTL
<1>2. IInv /\ ScreenInv /\ [ScreenNext]_screenVars => ScreenInv'
  BY ScreenStep
<1> QED
  BY <1>1, <1>2, ScreenStart, PTL DEF ScreenSpec

(* "Threads" is larger than "Clientes" wherever both are shown, for any    *)
(* number of connections that come, fail and go.                           *)
THEOREM CountersSeen == ScreenSpec => []CountersAgree
<1>1. ScreenInv => CountersAgree
  BY DEF ScreenInv
<1> QED
  BY <1>1, ScreensInvariance, PTL

(* The lines of show_results are the count of the table at one moment      *)
(* after the operator was let in, and its total that of a later one.       *)
THEOREM ResultsTrue == ScreenSpec => []ResultsAreTally
<1>1. ScreenInv => ResultsAreTally
  BY DEF ScreenInv, ResultsAreTally
<1> QED
  BY <1>1, ScreensInvariance, PTL

(* Over windows, ends of the process and restarts, update_dashboard_text   *)
(* never shows fewer votes than it has shown, unless a query fails.        *)
THEOREM VotesOnlyRise == ScreenSpec => VotesNeverDrop
<1>1. ASSUME ScreenInv, [ScreenNext]_screenVars
      PROVE  [~ DbMayFail => dashboard'.votes >= dashboard.votes]_screenVars
  <2> SUFFICES ASSUME ~ DbMayFail, ScreenNext PROVE dashboard'.votes >= dashboard.votes
    BY <1>1
  <2>1. /\ dashboard.votes \in Nat /\ counted \in Nat
        /\ screen = "refresh_lock" => dashboard.votes <= counted
    BY <1>1 DEF ScreenInv, ScreenTypeOK
  <2>2. CASE RefreshState
    BY <2>1, <2>2 DEF RefreshState
  <2>3. CASE ~ RefreshState
    <3>1. dashboard' = dashboard
      BY <2>3 DEF ScreenNext, StartTerminal, ProcessDies, ExitChosen, ServerStep,
                  terminal, Dashboard, Refresh, RefreshVotes, TimerExpires,
                  ChooseWindow, EnterPassword, ReadRows, ReadCounters, ReadTotal,
                  CloseWindow
    <3> QED
      BY <2>1, <3>1
  <2> QED
    BY <2>2, <2>3
<1> QED
  BY <1>1, ScreensInvariance, PTL DEF ScreenSpec, VotesNeverDrop

=============================================================================
