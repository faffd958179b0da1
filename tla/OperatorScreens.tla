--------------------------- MODULE OperatorScreens --------------------------
(***************************************************************************)
(* The terminal of the server: start_dashboard, which redraws the counters *)
(* every second and opens the windows "Resultados", "Logs" and "Clientes"  *)
(* behind the administrator's password, while the threads of ServerSocket  *)
(* go on. What a screen shows is read in several steps: each query of the  *)
(* tables and each critical section is one action.                         *)
(*                                                                         *)
(* Lines of the log are LogRing's matter; here are the numbers.            *)
(***************************************************************************)
EXTENDS ServerSocket

CONSTANTS
  Passwords,       \* what may be typed, as entered_password keeps it
  AdminPasswords,  \* what VOTACAO_ADMIN_PASSWORD may be when main is started
  NoPassword       \* it is not set, or empty

ASSUME PasswordAssumption == NoPassword \notin Passwords

VARIABLES
  admin_password,  \* VOTACAO_ADMIN_PASSWORD of this process
  screen,       \* where start_dashboard is
  opening,      \* the window it is about to open, or shows
  counted,      \* total_votes, the local
  threads,      \* connected_clients and active_threads, the locals
  rows,         \* candidates and counts of show_results
  dashboard,    \* what is on the dashboard
  opened        \* history: rows in votos when the operator was let in

terminal == <<admin_password, screen, opening, counted, threads, rows,
              dashboard, opened>>

screenVars == <<vars, terminal>>

Windows == {"Resultados", "Logs", "Clientes"}

(* active_threads and connected_clients as one lock section reads them. *)
Threads == [clients : Nat, active : Nat]

NoThreads == [clients |-> 0, active |-> 1]

Reading == {"get_vote_results", "lock", "count_votes"}

Screens == {"off", "refresh_votes", "refresh_lock", "form", "password",
            "denied", "window"} \cup Reading

-----------------------------------------------------------------------------
(* The queries of database.c that the screens make. *)

(* count_votes; a query that fails counts 0. *)
CountVotes == {Len(votos)} \cup (IF DbMayFail THEN {0} ELSE {})

(* SELECT candidate, COUNT( * ) ... GROUP BY candidate, on the first n rows *)
(* of the table. A candidate without votes has no row in the answer.       *)
Tally(n) ==
  [k \in {votos[i].candidate : i \in 1..n} |->
     Cardinality({i \in 1..n : votos[i].candidate = k})]

(* The answer after sqlite3_step has failed early: the rows come with the  *)
(* largest count first.                                                    *)
CutShort(answer) ==
  {[k \in S |-> answer[k]] :
     S \in {T \in SUBSET DOMAIN answer :
              \A j \in T, k \in DOMAIN answer \ T : answer[j] >= answer[k]}}

GetVoteResults ==
  IF DbMayFail THEN CutShort(Tally(Len(votos))) ELSE {Tally(Len(votos))}

NoRows == <<>>

-----------------------------------------------------------------------------
ScreenInit ==
  /\ Init
  /\ admin_password = NoPassword
  /\ screen = "off" /\ opening = "Logs" /\ rows = NoRows
  /\ counted = 0 /\ threads = NoThreads /\ opened = 0
  /\ dashboard = [votes |-> 0, threads |-> NoThreads]

Show(s) == screen' = s

(* update_dashboard_text: the votes first, then the counters under the     *)
(* lock, then the box is written. *)
RefreshVotes ==
  /\ screen = "refresh_votes"
  /\ counted' \in CountVotes
  /\ Show("refresh_lock")
  /\ UNCHANGED <<vars, admin_password, opening, threads, rows, dashboard,
                 opened>>

(* Mutant: "Votos" from server_state, as the other two numbers. *)
RefreshFromState ==
  /\ screen = "refresh_lock"
  /\ dashboard' = [votes |-> total_votes,
                   threads |-> [clients |-> connected_clients,
                                active  |-> active_threads]]
  /\ Show("form")
  /\ UNCHANGED <<vars, admin_password, opening, counted, threads, rows,
                 opened>>

RefreshState ==
  /\ screen = "refresh_lock"
  /\ dashboard' = [votes |-> counted,
                   threads |-> [clients |-> connected_clients,
                                active  |-> active_threads]]
  /\ Show("form")
  /\ UNCHANGED <<vars, admin_password, opening, counted, threads, rows,
                 opened>>

(* Mutant: the timer only redraws what the lock protects. *)
TimerSkipsVotes ==
  /\ screen = "form"
  /\ Show("refresh_lock")
  /\ UNCHANGED <<vars, admin_password, opening, counted, threads, rows,
                 dashboard, opened>>

(* newtFormRun returns at its timer of one second. *)
TimerExpires ==
  /\ screen = "form"
  /\ Show("refresh_votes")
  /\ UNCHANGED <<vars, admin_password, opening, counted, threads, rows,
                 dashboard, opened>>

First(window) == IF window = "Resultados" THEN "get_vote_results" ELSE "lock"

(* admin_action_allowed has said yes. *)
LetIn(window) ==
  /\ Show(First(window))
  /\ opened' = Len(votos)

(* A function key or its button. *)
ChooseWindow(window) ==
  /\ screen = "form"
  /\ opening' = window
  /\ IF admin_password = NoPassword
     THEN LetIn(window)
     ELSE Show("password") /\ UNCHANGED opened
  /\ UNCHANGED <<vars, admin_password, counted, threads, rows, dashboard>>

EnterPassword(entered) ==
  /\ screen = "password"
  /\ IF entered = admin_password
     THEN LetIn(opening)
     ELSE Show("denied") /\ UNCHANGED opened
  /\ UNCHANGED <<vars, admin_password, opening, counted, threads, rows,
                 dashboard>>

(* Mutant: the total is counted first, as the header needs it first. *)
RowsAfterTotal ==
  /\ screen = "get_vote_results"
  /\ rows' \in GetVoteResults
  /\ counted' = opened
  /\ Show("window")
  /\ UNCHANGED <<vars, admin_password, opening, threads, dashboard, opened>>

(* show_results: the rows. *)
ReadRows ==
  /\ screen = "get_vote_results"
  /\ rows' \in GetVoteResults
  /\ Show("count_votes")
  /\ UNCHANGED <<vars, admin_password, opening, counted, threads, dashboard,
                 opened>>

(* Mutant: the two counters in a critical section each. *)
ReadCountersApart ==
  /\ screen = "lock"
  /\ \/ /\ threads' = [threads EXCEPT !.clients = connected_clients]
        /\ UNCHANGED screen
     \/ /\ threads' = [threads EXCEPT !.active = active_threads]
        /\ Show("count_votes")
  /\ UNCHANGED <<vars, admin_password, opening, counted, rows, dashboard,
                 opened>>

(* show_logs_popup and show_clients_popup: the counters. *)
ReadCounters ==
  /\ screen = "lock"
  /\ threads' = [clients |-> connected_clients, active |-> active_threads]
  /\ Show("count_votes")
  /\ UNCHANGED <<vars, admin_password, opening, counted, rows, dashboard,
                 opened>>

(* Each of the three counts the votes last, and opens its window. *)
ReadTotal ==
  /\ screen = "count_votes"
  /\ counted' \in CountVotes
  /\ Show("window")
  /\ UNCHANGED <<vars, admin_password, opening, threads, rows, dashboard,
                 opened>>

(* "Voltar", or the "OK" of "Acesso negado": the locals are gone. *)
CloseWindow ==
  /\ screen \in {"window", "denied"}
  /\ Show("refresh_votes")
  /\ counted' = 0 /\ threads' = NoThreads /\ rows' = NoRows /\ opened' = 0
  /\ UNCHANGED <<vars, admin_password, opening, dashboard>>

(* "Q Sair": running = 0, start_dashboard and then main return. *)
ExitChosen ==
  /\ screen = "form"
  /\ ProcessEnds
  /\ Show("off")
  /\ UNCHANGED <<admin_password, opening, counted, threads, rows, dashboard,
                 opened>>

-----------------------------------------------------------------------------
(* The process. main starts the terminal with the network thread; what it  *)
(* has on its screen outlives it.                                          *)
StartTerminal ==
  /\ Start
  /\ admin_password' \in AdminPasswords
  /\ Show("refresh_votes")
  /\ counted' = 0 /\ threads' = NoThreads /\ rows' = NoRows /\ opened' = 0
  /\ UNCHANGED <<opening, dashboard>>

ProcessDies ==
  /\ ProcessEnds
  /\ Show("off")
  /\ UNCHANGED <<admin_password, opening, counted, threads, rows, dashboard,
                 opened>>

(* The other threads, which do not touch the terminal. *)
ServerStep ==
  /\ \/ Listen
     \/ AcceptLoop
     \/ \E c \in Conns : Handshake(c) \/ HandleClient(c) \/ Peer(c)
  /\ UNCHANGED terminal

Refresh == RefreshVotes \/ RefreshState \/ TimerExpires

Dashboard ==
  \/ Refresh
  \/ \E w \in Windows : ChooseWindow(w)
  \/ \E p \in Passwords : EnterPassword(p)
  \/ ReadRows
  \/ ReadCounters
  \/ ReadTotal
  \/ CloseWindow

ScreenNext ==
  \/ StartTerminal
  \/ ProcessDies
  \/ ExitChosen
  \/ ServerStep
  \/ Dashboard

ScreenSpec == ScreenInit /\ [][ScreenNext]_screenVars

(* The threads run and the timer of the form goes off. Nobody has to close *)
(* a window, and an open one stops the dashboard.                          *)
ScreenFairness ==
  /\ WF_screenVars(Refresh \/ ReadRows \/ ReadCounters \/ ReadTotal)
  /\ \A c \in Conns : WF_screenVars(HandleClient(c) /\ UNCHANGED terminal)

FairScreenSpec == ScreenSpec /\ ScreenFairness

-----------------------------------------------------------------------------
(* Properties. *)

ScreenTypeOK ==
  /\ admin_password \in AdminPasswords \cup {NoPassword}
  /\ screen \in Screens /\ opening \in Windows
  /\ counted \in Nat /\ opened \in Nat
  /\ threads \in Threads
  /\ dashboard \in [votes : Nat, threads : Threads]

(* "Threads" counts the network thread and a thread for each of the        *)
(* "Clientes", so it is always the larger number, on the dashboard and in  *)
(* the windows, although both change in other threads while they are read. *)
CountersAgree ==
  /\ dashboard.threads.active > dashboard.threads.clients
  /\ threads.active > threads.clients

(* The window of results is made by two queries between which the handlers *)
(* go on saving votes: its lines are the count of the table at one moment  *)
(* after the operator was let in, and its total is that of a later moment. *)
ResultsAreTally ==
  screen = "window" /\ opening = "Resultados" /\ ~ DbMayFail =>
    \E n \in opened..counted : rows = Tally(n) /\ counted <= Len(votos)

(* The votes the operator sees on the dashboard never become fewer, not    *)
(* over windows, ends of the process and restarts either, unless a query   *)
(* fails.                                                                  *)
VotesNeverDrop ==
  [][~ DbMayFail => dashboard'.votes >= dashboard.votes]_screenVars

(* A vote that is saved reaches the dashboard, unless the operator leaves  *)
(* a window or a prompt open or the process ends.                          *)
VotesReachDashboard ==
  \A n \in 1..Cardinality(Roll) :
    Len(votos) >= n ~>
      \/ dashboard.votes >= n
      \/ screen \in {"off", "password", "denied", "window"}

-----------------------------------------------------------------------------
(* The inductive invariant, with IInv of the server. OperatorScreensProofs *)
(* proves it.                                                              *)

ScreenInv ==
  /\ ScreenTypeOK
  /\ screen = "off" <=> acceptor = "down"
  /\ screen = "lock" => opening # "Resultados"
  /\ CountersAgree
  /\ opened <= Len(votos)
  /\ ~ DbMayFail =>
       /\ counted <= Len(votos) /\ dashboard.votes <= Len(votos)
       /\ screen = "refresh_lock" => dashboard.votes <= counted
       /\ screen = "count_votes" /\ opening = "Resultados" =>
            \E n \in opened..Len(votos) : rows = Tally(n)
       /\ ResultsAreTally

=============================================================================
