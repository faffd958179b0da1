------------------------------ MODULE LogRing ------------------------------
(***************************************************************************)
(* The log of server_state: an array of MAX_LOGS lines that every thread   *)
(* of the server appends to with add_log, and that the terminal's thread   *)
(* copies, line by line, into the text of the dashboard's box or of the    *)
(* window "Logs". server_state_mutex is all that keeps them apart, so the  *)
(* steps inside its critical sections are steps of their own here.         *)
(*                                                                         *)
(* A line is a model value with a length. The array starts at 0.           *)
(***************************************************************************)
EXTENDS Integers, Sequences, FiniteSets

CONSTANTS
  Writers,      \* threads that call add_log
  Terminal,     \* the thread of start_dashboard
  NoThread,
  Lines,        \* what they log, as add_log stores it
  NoLine,       \* what the array holds where nothing has been stored
  Length,       \* Length[m]: the characters of line m
  MaxLogs,      \* MAX_LOGS
  TextSize,     \* the size of the text buffers, 8192
  HeaderLength, \* the counters above the lines in the window "Logs"
  MaxAdds       \* bound: calls of add_log

ASSUME ThreadAssumption == Terminal \notin Writers /\ NoThread \notin Writers
                           /\ NoThread # Terminal
ASSUME LineAssumption == NoLine \notin Lines /\ Length \in [Lines -> Nat]
ASSUME SizeAssumption == /\ MaxLogs \in Nat \ {0} /\ TextSize \in Nat \ {0}
                         /\ HeaderLength \in Nat /\ MaxAdds \in Nat

VARIABLES
  logs,         \* server_state.logs
  log_count,
  mutex,        \* who holds server_state_mutex
  pc,           \* where each thread is
  message,      \* the argument of add_log, per writer
  screen,       \* what the terminal collects the lines for
  used,         \* characters in its buffer
  text,         \* the lines that are whole in its buffer
  shown,        \* what the terminal has last put on the screen
  written,      \* history: every line, in the order they were stored
  taken         \* history: how many there were when the terminal got the mutex

ring     == <<logs, log_count>>
copying  == <<screen, used, text, taken>>
vars     == <<ring, mutex, pc, message, copying, shown, written>>

Slots == 0..(MaxLogs - 1)

Screen == {"dashboard", "window"}

Display == [screen : Screen, lines : Seq(Lines), taken : Nat]

WriterPc == {"idle", "lock", "shift", "store", "unlock"}

TerminalPc == {"idle", "lock", "copy", "unlock"}

Holding == {"shift", "store", "copy", "unlock"}

Goto(t, p) == pc' = [pc EXCEPT ![t] = p]

-----------------------------------------------------------------------------
Init ==
  /\ logs = [i \in Slots |-> NoLine] /\ log_count = 0
  /\ mutex = NoThread
  /\ pc = [t \in Writers \cup {Terminal} |-> "idle"]
  /\ message = [w \in Writers |-> NoLine]
  /\ screen = "dashboard" /\ used = 0 /\ text = <<>> /\ taken = 0
  /\ shown = [screen |-> "dashboard", lines |-> <<>>, taken |-> 0]
  /\ written = <<>>

(* server_state_lock. *)
Lock(t) ==
  /\ pc[t] = "lock" /\ mutex = NoThread
  /\ mutex' = t

(* server_state_unlock. *)
Unlock(t) ==
  /\ pc[t] = "unlock"
  /\ mutex' = NoThread
  /\ Goto(t, "idle")

-----------------------------------------------------------------------------
(* add_log, in the thread w. *)

(* The lines that wait in the threads, with those stored, are the calls.   *)
Calls ==
  Len(written)
    + Cardinality({w \in Writers : pc[w] \in {"lock", "shift", "store"}})

CallAddLog(w) ==
  /\ pc[w] = "idle" /\ Calls < MaxAdds
  /\ \E m \in Lines : message' = [message EXCEPT ![w] = m]
  /\ Goto(w, "lock")
  /\ UNCHANGED <<ring, mutex, copying, shown, written>>

LockRing(w) ==
  /\ Lock(w)
  /\ Goto(w, "shift")
  /\ UNCHANGED <<ring, message, copying, shown, written>>

(* Mutant: the loop stops one line early. *)
ShiftedShort ==
  [i \in Slots |-> IF i + 2 \in Slots THEN logs[i + 1] ELSE logs[i]]

(* The memmove of each line to the place before it. *)
Shifted == [i \in Slots |-> IF i + 1 \in Slots THEN logs[i + 1] ELSE logs[i]]

DropOldest(w) ==
  /\ pc[w] = "shift"
  /\ IF log_count >= MaxLogs
     THEN logs' = Shifted /\ log_count' = log_count - 1
     ELSE UNCHANGED ring
  /\ Goto(w, "store")
  /\ UNCHANGED <<mutex, message, copying, shown, written>>

StoreLine(w) ==
  /\ pc[w] = "store"
  /\ logs' = [logs EXCEPT ![log_count] = message[w]]
  /\ log_count' = log_count + 1
  /\ written' = Append(written, message[w])
  /\ Goto(w, "unlock")
  /\ UNCHANGED <<mutex, message, copying, shown>>

UnlockRing(w) ==
  /\ Unlock(w)
  /\ message' = [message EXCEPT ![w] = NoLine]
  /\ UNCHANGED <<ring, copying, shown, written>>

-----------------------------------------------------------------------------
(* update_dashboard_text and collect_logs_text, in the terminal's thread.  *)

(* The timer of the form, or the key of the window "Logs". *)
Collect ==
  /\ pc[Terminal] = "idle"
  /\ screen' \in Screen
  /\ Goto(Terminal, "lock")
  /\ UNCHANGED <<ring, mutex, message, used, text, taken, shown, written>>

(* Mutant: the lines are collected without the mutex. *)
LockToCopyNot ==
  /\ pc[Terminal] = "lock"
  /\ used' = 0 /\ text' = <<>> /\ taken' = Len(written)
  /\ Goto(Terminal, "copy")
  /\ UNCHANGED <<ring, mutex, message, screen, shown, written>>

LockToCopy ==
  /\ Lock(Terminal)
  /\ used' = 0 /\ text' = <<>> /\ taken' = Len(written)
  /\ Goto(Terminal, "copy")
  /\ UNCHANGED <<ring, message, screen, shown, written>>

(* Mutant: a loop that is left by a return keeps the mutex. *)
CopyLineReturns ==
  /\ pc[Terminal] = "copy" /\ Len(text) < log_count
  /\ LET line    == logs[Len(text)]
         length  == Length[line] + 1
     IN  IF length < TextSize - used
         THEN /\ text' = Append(text, line) /\ used' = used + length
              /\ UNCHANGED pc
         ELSE UNCHANGED <<text, used>> /\ Goto(Terminal, "idle")
  /\ UNCHANGED <<ring, mutex, message, screen, taken, shown, written>>

(* One turn of the loop: snprintf of the line and its end of line. When    *)
(* that does not fit the loop is left; only the end of line may be what is *)
(* missing. The beginning of a line that does not fit, which snprintf      *)
(* leaves in the buffer, is not in text: text has the whole lines.         *)
CopyLine ==
  /\ pc[Terminal] = "copy" /\ Len(text) < log_count
  /\ LET line   == logs[Len(text)]
         length == Length[line] + 1
         room   == TextSize - used
     IN  /\ text' = IF length <= room THEN Append(text, line) ELSE text
         /\ IF length < room
            THEN used' = used + length /\ UNCHANGED pc
            ELSE used' = TextSize - 1 /\ Goto(Terminal, "unlock")
  /\ UNCHANGED <<ring, mutex, message, screen, taken, shown, written>>

CopyEnds ==
  /\ pc[Terminal] = "copy" /\ Len(text) = log_count
  /\ Goto(Terminal, "unlock")
  /\ UNCHANGED <<ring, mutex, message, copying, shown, written>>

(* Bytes(s)[k]: the first k lines of s, each with its end of line. *)
Bytes(s) ==
  LET bytes[k \in 0..Len(s)] ==
        IF k = 0 THEN 0 ELSE bytes[k - 1] + Length[s[k]] + 1
  IN  bytes

(* The lines of s that a text buffer holds after a header. *)
Fitting(s, header) ==
  {k \in 0..Len(s) : k = 0 \/ header + Bytes(s)[k] <= TextSize}

(* The first of them, up to the first that does not fit. The snprintf of   *)
(* the window's text cuts a second time, after its header.                 *)
Visible(s, header) ==
  SubSeq(s, 1, CHOOSE k \in Fitting(s, header) :
                 \A j \in Fitting(s, header) : j <= k)

Header(scr) == IF scr = "window" THEN HeaderLength ELSE 0

(* server_state_unlock, then newtTextboxSetText. *)
ShowText ==
  /\ Unlock(Terminal)
  /\ shown' = [screen |-> screen, taken |-> taken,
               lines |-> IF screen = "window"
                         THEN Visible(text, HeaderLength) ELSE text]
  /\ UNCHANGED <<ring, message, copying, written>>

-----------------------------------------------------------------------------
AddLog(w) ==
  \/ CallAddLog(w)
  \/ LockRing(w)
  \/ DropOldest(w)
  \/ StoreLine(w)
  \/ UnlockRing(w)

CopyLogs == LockToCopy \/ CopyLine \/ CopyEnds \/ ShowText

Next == Collect \/ CopyLogs \/ \E w \in Writers : AddLog(w)

Spec == Init /\ [][Next]_vars

(* Threads run. Nothing orders the waiters of a mutex, so none is promised *)
(* to get it.                                                              *)
Fairness ==
  /\ WF_vars(CopyLogs)
  /\ \A w \in Writers : WF_vars(AddLog(w))

FairSpec == Spec /\ Fairness

-----------------------------------------------------------------------------
(* Properties. *)

TypeOK ==
  /\ logs \in [Slots -> Lines \cup {NoLine}]
  /\ log_count \in 0..MaxLogs
  /\ mutex \in Writers \cup {Terminal, NoThread}
  /\ pc \in [Writers \cup {Terminal} -> WriterPc \cup TerminalPc]
  /\ pc[Terminal] \in TerminalPc /\ \A w \in Writers : pc[w] \in WriterPc
  /\ message \in [Writers -> Lines \cup {NoLine}]
  /\ screen \in Screen /\ used \in Nat
  /\ text \in Seq(Lines) /\ taken \in Nat
  /\ shown \in Display
  /\ written \in Seq(Lines)

(* How many of the first n lines the ring keeps, and which. *)
Kept(n) == IF n < MaxLogs THEN n ELSE MaxLogs

LastLines(n) == SubSeq(written, n - Kept(n) + 1, n)

(* Whoever takes the mutex finds the last MAX_LOGS lines in the order they *)
(* were logged in, none lost, doubled, torn or out of order, although the  *)
(* ring is shifted and rewritten by many threads.                          *)
RingIsLog ==
  mutex = NoThread =>
    /\ log_count = Kept(Len(written))
    /\ \A i \in 0..(log_count - 1) :
         logs[i] = written[Len(written) - log_count + i + 1]

(* What the operator reads is the log of one moment: the lines kept at the *)
(* time the mutex was taken, the oldest first, and as many as the buffers  *)
(* hold.                                                                   *)
ShownIsLog ==
  shown.lines = Visible(LastLines(shown.taken), Header(shown.screen))

(* "Logs recentes": the lines shown go up to the one logged last.          *)
RecentShown ==
  shown.screen = "window" => Len(shown.lines) = Kept(shown.taken)

(* No way through add_log or the two copying loops keeps the mutex.        *)
MutexReleased == \A t \in Writers \cup {Terminal} : mutex = t ~> mutex # t

-----------------------------------------------------------------------------
(* The inductive invariants: IInv, and with it TextInv and ShownIsLog.     *)
(* LogRingProofs proves them.                                              *)

(* The mutex belongs to the thread inside the critical section. *)
Exclusive ==
  \A t \in Writers \cup {Terminal} : pc[t] \in Holding <=> mutex = t

(* What the ring holds, also while a writer has made room and not stored.  *)
Storing == \E w \in Writers : pc[w] = "store"

RingInv ==
  /\ \/ log_count = Kept(Len(written))
     \/ Storing /\ log_count = MaxLogs - 1 /\ Len(written) >= MaxLogs
  /\ Storing => log_count < MaxLogs
  /\ log_count <= Len(written)
  /\ \A i \in 0..(log_count - 1) :
       logs[i] = written[Len(written) - log_count + i + 1]

Waiting ==
  \A w \in Writers :
    pc[w] \in {"lock", "shift", "store"} => message[w] \in Lines

(* What has been copied is the ring's, as it still is. *)
CopyInv ==
  /\ taken <= Len(written) /\ shown.taken <= Len(written)
  /\ pc[Terminal] \in {"copy", "unlock"} =>
       /\ taken = Len(written) /\ Len(text) <= log_count
       /\ text = SubSeq(LastLines(taken), 1, Len(text))

IInv == TypeOK /\ Exclusive /\ RingInv /\ Waiting /\ CopyInv

(* What the loop has filled its buffer with: the lines so far, and at its  *)
(* end as many as fit.                                                     *)
TextInv ==
  /\ pc[Terminal] = "copy" =>
       used = Bytes(LastLines(taken))[Len(text)] /\ used < TextSize
  /\ pc[Terminal] = "unlock" => text = Visible(LastLines(taken), 0)

=============================================================================
