# Verification of the voting system

TLA+ models of the voting server and client in `src/`, model-checked with TLC,
with theorems proved by TLAPS. A reader needs the repository and this file.

## 1. The system

A terminal client sends `<voter> <candidate>` over TLS to a server, which
records at most one vote per voter in SQLite and answers `ACK <receipt>` or
`NACK <reason>`. The server's own terminal shows counters, log and results.

| Part | Source | State | Operations |
|---|---|---|---|
| accept loop | `server/src/network/server_socket.c` `start_server` | TLS context, listening socket, the connection in hand | set up, accept, rate limit, count the thread, create it |
| connection thread | same file, `handle_client` | socket, TLS session, message buffer, receipt | handshake, read, validate, look up, save, answer, leave |
| tables | `server/src/database/database.c` | `votos` (unique voter), `eleitores` | `init_database`, `voter_exists`, `has_voted`, `save_vote`, `count_votes`, `get_vote_results` |
| shared state | `server/src/models/server_state.c` | three counters, ring of 200 log lines | `add_log`, lock, unlock |
| receipts | `server/src/protocol/protocol.c` | random generator | `generate_receipt` |
| rate limiter | `server/src/security/rate_limit.c` | table of 32 addresses with 5 stamps each | `rate_limit_allow` |
| validation | `server/src/security/validation.c` | none | `parse_vote_message` |
| operator's screens | `server/src/ui/dashboard.c`, `results.c` | the form, the locals of a window | refresh, results, logs, clients, exit |
| password | `server/src/security/auth.c` | environment variable | `admin_action_allowed` |
| security log | `server/src/security/secure_log.c` | none | formats a `[SEC]` line and calls `add_log` |
| TLS, server side | `server/src/network/ssl_wrapper.c` | context | set-up, accept, send, receive, clean-up |
| client | `client/src/main.c`, `client/src/network/client_socket.c` | socket, context, session | connect with a 5 s limit, `send_vote`, close |
| TLS, client side | `client/src/network/ssl_wrapper.c` | context, embedded authority, session, error text | `init_client_ssl`, `ssl_connect` |
| client's screens | `client/src/ui/` | forms | login, choice of candidate, receipt |

How they meet: the accept loop and the handlers share the counters and the log
ring under `server_state_mutex` and the tables through one SQLite connection,
which the library serializes; no lock is held across calls. The terminal reads
both from its own thread. A handler and its client meet only on the TLS stream.
Exit of the terminal loop, a signal or SIGPIPE end the process under every
thread; the tables are all that survives.

What is hard here:

* two handlers between `has_voted` and `save_vote`; a failed query that reads as
  "no row"; the process ending between the INSERT and the ACK;
* counters changed on some exits and not on others, and log lines written after
  the step they are about, when other threads have gone on;
* screens that combine values read at different times: rows and their total are
  two queries, with votes saved in between;
* the ring being shifted while the terminal copies it through buffers that may
  be too small, and loops that leave early inside the critical section;
* peers that fall silent or leave; a vote whose answer is lost, and its retry;
* the limiter's table being full, and its clock being set back;
* nine calls of the server's set-up, ten of the client's and nine inside its TLS
  wrapper, each with a clean-up of its own; a block of arguments that changes its
  owner at `pthread_create`;
* widths in a `sscanf` format, and ids with blanks that shift the fields.

## 2. Modules

```
BallotBox      <-- ServerSocket (refines it) <-- ServerResources <-- AuditTrail
                        ^        ^
                        |        +-- OperatorScreens
VotingClient <---- VotingSystem (refines BallotBox)
     ^
     +-- TlsClient          LogRing   RateLimit   VoteMessage
```

* `BallotBox`: what the service promises. A voter of the roll casts one ballot,
  a ballot stays, and only a ballot in the box is confirmed to its voter.
* `ServerSocket`: the server. `handler[c]` is the place of the thread of
  connection `c` in `handle_client` (and of the connection before and after it),
  `acceptor` the place of `start_server`. An action is a stretch of code between
  two points another thread can observe: a critical section of
  `server_state_mutex`, one SQLite call, or one socket call, named after it.
  `votos`, `eleitores` and the counters are the code's; `sent`, `got`, `replies`
  and `hungup` are the stream of each connection. `caster` and `base` are
  history, read by the properties only. `ProcessEnds` may come at any step and
  `Start` runs `init_database` on the tables that were left.
* `ServerResources`: the same server with what its threads hold. `booting` is the
  call of `init_server_ssl` or `start_server` that comes next, `service` the
  context and the listening socket, `held[c]` the socket, argument block and TLS
  session of a connection, `greeting[c]` the place of its thread before the
  session is up. `Listen` and `Handshake` of `ServerSocket` become the calls they
  are made of, each error branch with what it frees (`SetupFrees`,
  `SslAcceptFails`). Closing a socket and freeing its session are one step, since
  no other thread has either.
* `AuditTrail`: that server with its log. `owed[t]` is the line thread `t` has
  still to write for the step it has made, `lines[t]` what it has written;
  the thread makes no other step before it. Where `start_server` writes first and
  closes or frees afterwards, the line is written in that step (`Write`). Each `add_log` and
  `security_log_event` of `server_socket.c`, `ssl_wrapper.c` and
  `start_dashboard` is there, by its text up to the numbers in it; `[VOTO]` lines
  carry the vote. `AcceptFails` is `accept() < 0`. Which lines the ring still
  has is `LogRing`'s matter.
* `LogRing`: `add_log` and the two loops that copy the ring, `update_dashboard_text`
  and `collect_logs_text`, in steps inside the critical section: `DropOldest` and
  `StoreLine`, `CopyLine` line by line with the characters `used` in the buffer.
  A line is a model value with a length, and the buffer has whole lines: the
  beginning of the one that does not fit, which `snprintf` shows cut, is left out.
  `Visible` is the second `snprintf` of the
  window "Logs", behind its header. `written` and `taken` are history.
* `OperatorScreens`: `start_dashboard` with its timer, its three windows, the
  password gate and the exit, next to all steps of `ServerSocket`. Every query and
  critical section is an action; `counted`, `threads` and `rows` are the locals
  that combine them. A query that fails gives 0, or a result cut short.
* `VoteMessage`: `parse_vote_message` on one buffer. `Field` is `%<n>s` of
  `sscanf`, `CString` the string up to the NUL; the buffer comes from `send_vote`
  with what the voter typed, or from any peer character by character.
* `RateLimit`: the table `rate_limit_allow` keeps. Only the accept loop calls it,
  so a call is one action: find the entry (`FindEntryIndex`), clear it if it was
  another address's (`TakenOver`), drop old stamps (`PruneEntry`), then `Allow` or
  `Refuse`. `now` is the wall clock of `time()`; `ClockIsSetBack` exists because
  nothing makes it monotonic. `called`, `granted` and `set_back` are history.
* `VotingClient`: one run of the client program per `c`. `pc[c]` is the next call
  of `main` and `connect_server_ssl`, `held[c]` what has been acquired and not
  released; `Released` has one case per error branch. What calls and server
  answer is left to chance.
* `TlsClient`: the same client with `init_client_ssl`, `load_embedded_ca` and
  `ssl_connect` call by call. `at[c]` is the library call, `inner[c]` what the
  wrapper holds, `checks[c]` what the handshake will check the server with.
  `oldest[c]` is the call whose error is at the head of OpenSSL's queue, where a call
  that succeeds may leave one too and which only `ssl_connect` empties; `text[c]` is
  what is in `error_buffer`, by the call it is about and the branch that wrote it.
  `failed` is history.
* `VotingSystem`: `ServerSocket` and `VotingClient` together. Run `c` of the client
  opens connection `c`; `net[c]` is what is on its way from it (connection
  request, end of the handshake, vote), in order. A step of the stream is a step
  of both: `VoteArrives` is `PeerSends` of the server, `ClientGetsReply` reads
  `replies`. The connection may break at any step, which loses what is under way
  in both directions, and it may be established after the client's five seconds
  are over.
* `*Proofs`: the theorems of the module they are named after; `AuditTrailProofs` has
  those of `ServerResources` too, and `TlsClientProofs` those of `VotingClient`.
* `MC*` and the `.cfg` files: the instances below. `VotingClient` is run through
  `TlsClient`, which needs no MC module.

Operators whose comment says "Mutant" are mistakes kept beside the definition
they spoil; no specification uses them.

Abstractions of `ServerSocket`: a message is what `parse_vote_message` made of
what one `ssl_recv` returned, a vote or `Malformed` (`VoteMessage` shows how);
names and receipts are model values; the answer of `rate_limit_allow` and
`malloc` is either (which `RateLimit` gives, over addresses and time). With
`DbMayFail` a look-up may miss, an INSERT may fail and the seeding of the roll may
be partial, as the ignored SQLite results allow. `Receipts` may repeat: nothing in
the code makes a receipt unique.

Abstractions of `OperatorScreens`: the tally has no order among its rows except
that a result cut short keeps the largest; the 16 rows `get_vote_results` is given
room for are more than the candidates there are. What is typed at the prompt is
equal to the password or not. A terminal that ends leaves its last dashboard
standing, so `dashboard` outlives the process; that a later one never shows less is
`VotesNeverDrop`.

Abstractions of `RateLimit`: the array of stamps is a set, since the code looks
only at their number and age; stamps of one second are told apart by the number of
their call. The five stamps, 32 entries and 60 seconds are constants. One life of
the process: the table is not saved.

Abstractions of `VotingClient`, `TlsClient` and `VotingSystem`: a form returns an
entry; an id that makes the message one the server rejects is `BadEntry`; `Killed`
is the voter or SIGPIPE ending the program. The result of `ssl_send` is ignored by
the code, so sending into a broken connection is a send that is lost. The branch
of `configure_peer_verification` for host names is never reached:
`connect_server_ssl` has taken an IPv4 address.

## 3. Runs

| Run | Instance | Question |
|---|---|---|
| `restart` | `ServerSocket`: 2 connections, 2 voters and a stranger, 2 candidates, 2 receipts, failing database, 2 starts | do tables, answers and counter agree across failures and restarts; is the server a `BallotBox`? |
| `audit` | `AuditTrail`: 2 connections, 1 voter and a stranger, 2 starts, working database, fair | is anything leaked or used after release; does the log tell what happened; is every message answered, every vote logged, every dead connection released? |
| `windows` | `OperatorScreens`: 1 connection with 2 messages, 2 voters, 2 starts, with and without a password, fair | does what is read in several steps agree; does a saved vote reach the dashboard? |
| `log` | `LogRing`: 2 writers, 3 places, lines of 1 and 3 characters, buffer of 8, 5 calls, fair | is the ring the last lines; is what is shown what it held at one moment; is the mutex always released? |
| `limit` | `RateLimit`: 3 addresses, 2 entries, limit 2 in a window of 2, 4 seconds, 6 calls, clock set back | one entry per address; every refusal the address's own doing; the limit in every window, unless the table is overrun |
| `client_tls` | `TlsClient`: 2 runs, any call failing | does every failed call release what was acquired and no more; is every session checked; is the text shown about the call that failed? |
| `screens` | `VotingSystem`: 2 runs by 1 voter, 2 candidates, 2 receipts, 2 starts, working database | does what the voter reads agree with the table; how can a receipt be lost? |
| `outcome` | `VotingSystem`: 1 run, failing database, 2 starts, fair | is a voter who has chosen told an outcome; does the server let go of runs that are over? |
| `message` | `VoteMessage`: all buffers of up to 6 of 5 characters, all entries of up to 5 of 4, fields of 2 | is what is accepted the format; is an entry ever another voter's vote? |
| `threads` | `ServerSocket`: 2 connections | the claim of the label "Threads ativas": violated |
| `send_error` | `VotingSystem`: 2 runs by 1 voter | the claim "Falha ao enviar voto": violated |
| `log_recent` | `LogRing`: as `log`, 6 calls | the claim "Logs recentes do servidor": violated |

What the properties of the passing runs say, in the comment above each in its
module: of the tables `OneBallotPerVoter`, `TablesOnlyGrow`; of
the answers `AckRecorded`, `AckOncePerVoter`, `RecordedAnswered`, `NackHonest`,
`EveryMessageAnswered`; of the counters `CounterAccounting`, `TotalVotesExact`; of
what is held `ConnectionHolds`, `ServiceHolds`, `HangupReleases`; of the log
`LogIsStory`, `RegisteredInTable`, `ClientsInLog`, `CountedIsLogged`, `RingIsLog`,
`ShownIsLog`, `MutexReleased`; of the terminal `CountersAgree`, `ResultsAreTally`,
`VotesNeverDrop`, `VotesReachDashboard`; of the limiter `OneEntryPerIp`,
`RefusalJustified`, `WindowBound`; of the client `InnerHeldAsNeeded`,
`SessionChecked`, `TextAsTold`; of both ends `BallotsAreChoices`, `ErrorsAreTrue`,
`ReceiptUnlessLost`, `ChoiceGetsOutcome`, `EndedRunReleased`, `AcceptsExactlyTheFormat`,
`VoteIsTheOneMeant`; and the refinements `ImplementsBallotBox` and
`ReceiptsAreBallots`. `IInv` (of the server) and `ClientInv` are inductive
invariants of section 4; that only voters of the roll have rows (`BallotsFromRoll`)
is a conjunct of the first. Those of the other modules (`SystemInv`, `AuditInv`,
`TextInv`, `MessageInv`, `ResourceInv`, `ScreenInv`, `TlsInv` and the `IInv` of
`LogRing` and `RateLimit`, at the end of each module) were checked by the same runs
while their proofs were written, and are left to the proofs now. Type correctness is
the first conjunct of each.

Three of them are easily read for more than they say. `RecordedAnswered` is about
what the handler of a recorded vote hands to `ssl_send`; since its result is ignored
(`server_socket.c:189`) the ACK may still be lost, and `ReceiptUnlessLost` says when: it
is read, waited for, or gone with its connection or with the process, and then the
window shown is "Falha ao enviar voto" and no other. `TextAsTold` is about which call a text
is about. `capture_openssl_error` takes the oldest error of OpenSSL's queue, so a text
may be about an earlier call of the same wrapper that succeeded; it is never about a
call of another wrapper, which rests on `ERR_clear_error` in `ssl_connect`.
`HangupReleases` is about an end that the server's TCP sees; a peer that falls silent
never makes `ssl_recv` return.

Bounds. `Conns`, `MaxMsgs` and `MaxStarts` bound how much happens, never what
may happen. Every race in the code is between two calls for the same voter, so
two connections show it; a connection carries nothing over from one message to
the next but the buffers, so two messages (`windows`) show what the second may
find (in `audit` a connection has one, and the order of its lines over more rests on
the theorem `LogTrue`); two starts show what a restart may find. `limit` has more
addresses than entries, so evictions occur, ties of `last_seen` included, and four seconds hold a
window before and after each expiry. In `log` five calls overflow three places
twice, and three lines of three characters overflow a buffer of eight on the first
cut and, with a header of three, on the second. In `message` the fields are as
narrow as lets an id be too long, fill its field, or be cut in two, with room for
blanks on either side; every id is made of the same two letters as the candidates,
so an id may be mistaken for one. In `screens` the second run is the retry of a
voter who was shown an error, or a second terminal used at the same time; two
candidates make the two runs disagree. The theorems below hold without any of
these bounds. `MaxLines` in `audit` stops `accept` from failing for ever.
`CHECK_DEADLOCK FALSE`: a process that has ended need not be started again, a
clock or a bound has run out, and a client's run ends.

Fairness (`audit`, `windows`, `log`, `outcome`). The scheduler runs each thread that
can run: weak fairness of the accept loop and of each handler. `SSL_accept` and
`ssl_recv` have no time limit in the code, so a silent peer may hold a thread for
ever; only a handshake whose peer is gone is assumed to return. In `windows` the
timer of the form expires and a window that is being read is opened; nobody has to
close it, to type a password or to press a key, which is why
`VotesReachDashboard` excepts them. In `log` no waiter is promised the mutex; what
is checked is that its holder releases it. In `outcome` what is on its way
arrives or its connection breaks, the end of a client closes its connection, and
the client's own calls after the voter's choice run. Peers that speak, voters that
type and the operator are not fair.

Finding (`threads`). The failed-handshake exit of `handle_client`
(`server_socket.c:51-71`) skips the decrement of `active_threads` that the
normal exit makes (`:215-218`); the screens' "Threads ativas" then counts a
thread that is gone. `CounterAccounting` states the exact value instead: the
threads that exist plus the handshakes that failed.

Finding (`send_error`). When `ssl_recv` returns nothing, `send_vote` returns 0
(`client_socket.c:295-298`) and `main.c:75` says that sending the vote has failed.
The vote may have been recorded before the connection broke; the voter's retry is
then refused with `JA_VOTOU`. What does hold is `ErrorsAreTrue` of
the other windows, and `ReceiptUnlessLost` of this one.

Finding (`log_recent`). The window "Logs recentes do servidor" is filled from the
oldest line on and stops when its buffer of 8192 characters is full
(`dashboard.c:96-124`), so when the lines of the ring are longer than that, the ones
left out are the most recent (`RecentShown`). What does hold is `ShownIsLog`: what
is shown is the beginning of the ring as it was at one moment.

No property, on purpose: `get_vote_results` and `count_votes` return 0 when their
query fails (`database.c:252`, `:215`), and the window then says that no vote has
been registered over a table full of votes. The model has these outcomes, and
`ResultsAreTally`, `VotesNeverDrop` and `ScreenInv` are stated for a database that
works. A silent peer that holds a thread for ever is the other hazard without a
property: the code promises nothing about it.

## 4. Proofs

The theorems hold for all values of the constants, without the bounds of the runs.

`ServerSocketProofs`:

* `Invariance`: `Spec => []IInv`, and from it `TypeCorrect`, `OneBallot`,
  `RollOnly`, `AckTrue`, `RecordedTrue`, `NackTrue`, `CountersTrue`,
  `VotesCounted`, `AckOnce` and, for steps, `TablesSafe`;
* `Refinement`: the server implements `BallotBox` with the rows of `votos` as
  ballots and the ACKs sent as confirmations.

Why an inductive invariant: none of the properties is inductive. One row per
voter is (the UNIQUE column), but "an ACK has its row" needs that a handler at
`ack` holds the row it inserted (`Vetted`), that messages and replies pair up
(`Paired`), and that a row is traced to one message (`Traced`); the types need
the counters never to reach zero early, which is `CounterAccounting`, which
needs the connection in the acceptor's hand to have no thread (`InHand`) and a
fresh process to have no connection (`Quiet`). `IInv` is their conjunction and
is checked by the run `restart`. The proof has one lemma per group of conjuncts,
each by the actions of `Next`: `TypeStep`, `AcceptorStep`, `CountersStep`,
`PairedStep`; for the rest the actions are first summarised by what they do to
the tables (`TablesStep`), to a handler (`HandlerMoves`) and to the replies
(`ReplyStep`), and `TracedStep`, `VettedStep`, `BallotStep`, `AnswersStep` and
`RecordedStep` argue from these.

`AuditTrailProofs`, first of what is held: `ResourceImplements` (the server call by
call is the server of `ServerSocket`, so everything above holds of it),
`ResourceInvariance` of `ResourceInv`, and from it `NothingLeaked` and
`ServiceOutlives`. `ConnectionHolds` is not inductive: what a connection needs before
its thread depends on where the accept loop is, so it takes `OneInHand` (the accept
loop has this one and no other), and `Quiet` of `IInv` for the set-up, when nothing
may be held. The proof has a lemma per action; `OneConnectionKept` carries each that
touches one connection over to the others.

Then of what is written: `AuditImplements` (writing the log changes nothing of the
server and of what it holds, so the theorems of both hold of `AuditTrail`),
`AuditInvariance` of `AuditInv`, and from it `LogTrue`, `RegisteredTrue` and
`ClientsTrue`. The three are not inductive by themselves: a connection that has no
session yet must have read and answered nothing when its story begins
(`UnheardIsNew`), or its first line would not be the first of its story; and a count
of lines moves by one only if it is of finitely many (`FiniteLog`). Every step of a
handler either tells (the lines it owes are what its messages and answers add to the
story) or is mute (neither changes): `Tells`, `Mutes` and `Heard` say so step by step.
The lines of a story are the concatenation of those of each message, a recursive
function of the history. The library's induction takes an operator and cannot be
used here, so `FlattenExists` argues by the least counterexample, which
`NatLessThanWellFounded` gives; `FlattenAppend` is what the steps need of it.

`VotingSystemProofs`: `ServerInSystem` and `ClientsInSystem` (each step of the
composition is a step or a stutter of the server and of the client, so the theorems
of both hold of it), `SystemInvariance` of `SystemInv`, and from it `Choices`,
`Errors`, `Received` and `PromiseKept`, the refinement of `BallotBox` by the receipts shown.
Why `SystemInv`: a row is the choice of its run because the run has at most one vote
to send, which is on its way or with the server, never both, and only after the
voter has chosen (`OneVote`); a window is true because it shows the answer that came
back on this connection, or comes before anything was sent (`TrueScreen`). That a
connection error means no vote takes both: the run has ended and no vote is out, so
none will arrive, however late the server takes the connection. That a receipt is
lost only with its connection takes what keeps the two ends in step: a client that
gives up waiting has lost the connection (`Outcome`), and a server that leaves a session
has a peer that is gone, and has heard nothing before there was one (`Served`); both are
carried along the places of a handler (`Course`). The rest comes from
`IInv` of the server: an ACK has its row and its receipt, a recorded vote is never
refused (`RecordedAnswered`), JA_VOTOU is true (`NackHonest`).

`OperatorScreensProofs`: `ScreensImplement` (the server with its terminal is the
server), `ScreensInvariance` of `ScreenInv`, and from it `CountersSeen`,
`ResultsTrue` and `VotesOnlyRise`. What has been read is true of a number `n` of rows
that lies between those there were when the operator was let in and those there
are; `TallyKept` says that the count of the first `n` rows stays what it is when
rows are added, which `TablesGrow` of the server gives. `CountersAgree` follows from
`CounterAccounting`: the connected handlers are among the running ones, and the
network thread is counted besides (`MoreThreads`).

`LogRingProofs`: `LogInvariance` of its `IInv` and `RingHolds`. Between
`DropOldest` and `StoreLine` the ring has one line less than it should, so `RingInv`
has a case for the thread that holds the mutex there; `Exclusive` says it is the
only one, and `CopyInv` that what the terminal has copied is the beginning of the
ring as it still is. `TextInvariance` of `TextInv` and `ShownTrue`: the characters
used are the `Bytes` of the lines copied, so the loop is left with as many lines as
fit, also when only the end of the last line is missing (`CopyLineFills`), and cutting
them again behind the header is cutting the whole log there (`VisibleOfVisible`).
`Bytes` is recursive: it exists, grows and depends on the lines so far
(`BytesExists`, `BytesGrow`, `BytesSame`), each by the least counterexample.

`VoteMessageProofs`: `FormatExact` (a text has the one reading the server finds, or
none) and `Meant` (the message made of an entry is read as the trimmed id and the
choice, or rejected), for every width of the fields and length of the text; with
`MessageInvariance` of `MessageInv` they give `FormatAccepted` and `VoteMeant`. A field
of the format has one beginning and one end (`Scanned`, `ScannedOnce`), so three of
them give one way of cutting the text. That a name is never taken for an id
(`ReadingOfMessage`) needs that no name of a candidate is longer than an id's field:
it is an assumption of the module, and true of the three names in `validation.c`.

`RateLimitProofs` proves `Invariance` of its `IInv` and from it `TypeCorrect`,
`OneEntry`, `RefusedForCause` (with any clock) and `LimitHolds` (until the clock is
set back). The limit is not inductive: that a granted request is counted needs that
its stamp is still in the table. `Remembered` says it is while it is in the window,
unless as many other addresses as there are entries have called since. That is
kept because an eviction takes the entry seen longest ago: if the address of a
remembered stamp loses its entry, each of the others was seen since (`SeenLast`),
they are of different addresses (`OneEntryPerIp`), and the caller is one more, so
by the pigeonhole principle the table is overrun (`TableOverrun`).

`TlsClientProofs` proves `NothingLeaks` of `VotingClient`: `ClientInv` is inductive as
it stands. Of `TlsClient` it proves `WrapperImplements` (the client call by call is
the client of `VotingClient`), `TlsInvariance` of `TlsInv`, and from it `InnerFreed`,
`CheckedSessions`, `TextTold` and `ClientHolds`. `Placed` relates the place in the
wrapper to the place in `connect_server_ssl`; `ChecksSoFar` says which checks are set
up by when, since they are made in two functions and on two objects. `TextAsTold` is
about the moment of the failure; `TextSoFar` says that until then the buffer is empty
and the head of the queue is of the wrapper that runs.

Assumptions: the named ASSUMEs of the modules (sentinels are not data, the roll is a
set of voter ids, finitely many addresses, tables and rings of at least one place,
names of candidates that fit both fields).

Model-checked only: liveness, which the prover does not reach: `EveryMessageAnswered`,
`HangupReleases`, `CountedIsLogged`, `MutexReleased`, `VotesReachDashboard`,
`ChoiceGetsOutcome`, `EndedRunReleased`. Every safety invariant and every action
property that a passing run checks has a theorem.

## 5. Plan

1. The abstraction of messages as a theorem: that what `VotingSystem` takes the server
   to receive for an entry is what `VoteMessage` gives, for a mapping of ids.
2. The part of the liveness properties that is safety: that a handler at a place of
   its loop always has a step to take or waits for its peer.

## 6. Not modelled

* Build files and certificate scripts: run once, before deployment.
* The newt library: a form is what it returns, a window what it was told to show;
  layout, colours and wording are left out.
* OpenSSL and SQLite below their calls: a call succeeds or fails, SQLite commits a
  statement whole, and a session that was set up with its checks is taken to have
  made them.
* `src/` as a build: the Makefiles and generated headers; `embedded_ca.h` is there
  as the text `load_embedded_ca` finds empty or not.
