----------------------------- MODULE NetClient -----------------------------
(***************************************************************************)
(* The frontend's connection to the daemon: NetClient's thread              *)
(* (frontend/net_client.py), the framing of its stream (NDJSONBuffer,       *)
(* common/ipc.py) and the queue through which the main thread hears of both *)
(* (frontend/main.py).                                                      *)
(*                                                                          *)
(* A message is the connection it was sent on and its place on it; its line *)
(* is two bytes, which recv may return apart, and a newline.  The daemon    *)
(* comes and goes; when it goes, or the socket fails, what has not arrived  *)
(* yet may be cut off anywhere.                                             *)
(***************************************************************************)
EXTENDS Naturals, SequencesExt

CONSTANTS
  MaxConns,  \* Bound on the connections.
  MaxSends,  \* Bound on the messages of one connection.
  MaxQueue   \* Bound on the queue: with so many waiting, a frame is due.

ASSUME NetClientAssumption ==
  MaxConns \in Nat /\ {MaxSends, MaxQueue} \subseteq Nat \ {0}

VARIABLES
  up,         \* Whether the daemon listens.
  conns,      \* Connections made so far; the last is the current one.
  link,       \* Whether the socket is there, closed by the peer, or none.
  wire,       \* Bytes on their way.
  sends,      \* Messages sent on the current connection.
  thread,     \* Where NetClient._run stands.
  backoff,    \* The next sleep, in multiples of _MIN_BACKOFF.
  buf,        \* NDJSONBuffer._buf
  stop,       \* NetClient._stop
  queue,      \* App._queue
  connected,  \* App.connected
  got         \* Ghost: messages the main thread took off the queue since the
              \* status that connected it.

daemon == <<up, link, wire, sends>>
client == <<conns, thread, backoff, buf>>
app    == <<stop, connected, got>>
vars   == <<daemon, client, queue, app>>

MaxBackoff == 8

Message == (1..MaxConns) \X (1..MaxSends)

Line(m) == [i \in 1..3 |-> <<m, i>>]

Status(is) == [type |-> "_conn_status", connected |-> is]
Data(m)    == [type |-> "message", message |-> m]

-----------------------------------------------------------------------------
(* The daemon *)

DaemonStarts ==
  /\ ~up
  /\ up' = TRUE
  /\ UNCHANGED <<link, wire, sends, client, queue, app>>

Cut == \E n \in 0..Len(wire) : wire' = SubSeq(wire, 1, n)

DaemonStops ==
  /\ up
  /\ up' = FALSE
  /\ link' = IF link = "open" THEN "closed" ELSE link
  /\ Cut
  /\ UNCHANGED <<sends, client, queue, app>>

(* The daemon drops this one client. *)
HangUp ==
  /\ link = "open"
  /\ link' = "closed"
  /\ Cut
  /\ UNCHANGED <<up, sends, client, queue, app>>

Send ==
  /\ link = "open"
  /\ sends < MaxSends
  /\ sends' = sends + 1
  /\ wire' = wire \o Line(<<conns, sends + 1>>)
  /\ UNCHANGED <<up, link, client, queue, app>>

-----------------------------------------------------------------------------
(* NDJSONBuffer *)

Decode(line) ==
  IF Len(line) = 2 /\ line[1][1] = line[2][1] THEN <<Data(line[1][1])>> ELSE <<>>

(* A newline ends the line held back; any other byte goes on with it.       *)
TakeByte(acc, byte) ==
  IF byte[2] = 3
  THEN [buf |-> <<>>, messages |-> acc.messages \o Decode(acc.buf)]
  ELSE [acc EXCEPT !.buf = Append(@, byte)]

(* feed: what is left of the buffer, and the messages of its whole lines.   *)
Feed(held, data) == FoldLeft(TakeByte, [buf |-> held, messages |-> <<>>], data)

-----------------------------------------------------------------------------
(* NetClient._run and _read_loop *)

Room == Len(queue) < MaxQueue

\* Mutant: a new connection goes on with the old one's buffer.
ConnectKeeps ==
  /\ thread = "connecting" /\ ~stop
  /\ up /\ conns < MaxConns /\ Room
  /\ thread' = "reading"
  /\ conns' = conns + 1
  /\ link' = "open" /\ wire' = Line(<<conns + 1, 1>>) /\ sends' = 1
  /\ queue' = Append(queue, Status(TRUE))
  /\ backoff' = 1
  /\ UNCHANGED <<up, buf, app>>

(* The daemon sends its snapshot as soon as it accepts. *)
Connect ==
  /\ thread = "connecting" /\ ~stop
  /\ up /\ conns < MaxConns /\ Room
  /\ thread' = "reading"
  /\ conns' = conns + 1
  /\ link' = "open" /\ wire' = Line(<<conns + 1, 1>>) /\ sends' = 1
  /\ queue' = Append(queue, Status(TRUE))
  /\ backoff' = 1
  /\ buf' = <<>>
  /\ UNCHANGED <<up, app>>

\* Mutant: only a connection that was never made is reported lost.
LoseQuietly ==
  /\ queue' = IF thread = "reading" THEN queue ELSE Append(queue, Status(FALSE))
  /\ thread' = IF stop THEN "ended" ELSE "asleep"

(* What follows the with statement, however it was left. *)
LoseConnection ==
  /\ queue' = Append(queue, Status(FALSE))
  /\ thread' = IF stop THEN "ended" ELSE "asleep"

CannotConnect ==
  /\ thread = "connecting" /\ ~stop
  /\ ~up /\ Room
  /\ LoseConnection
  /\ UNCHANGED <<daemon, conns, backoff, buf, app>>

\* Mutant: of the messages of one read the first is put in the queue.
RecvFirst ==
  /\ thread = "reading" /\ ~stop /\ Room
  /\ \E n \in 1..Len(wire) :
       LET fed == Feed(buf, SubSeq(wire, 1, n))
       IN /\ wire' = SubSeq(wire, n + 1, Len(wire))
          /\ buf' = fed.buf
          /\ queue' = queue \o SubSeq(fed.messages, 1, Min({1, Len(fed.messages)}))
  /\ UNCHANGED <<up, link, sends, conns, thread, backoff, app>>

Recv ==
  /\ thread = "reading" /\ ~stop /\ Room
  /\ \E n \in 1..Len(wire) :
       LET fed == Feed(buf, SubSeq(wire, 1, n))
       IN /\ wire' = SubSeq(wire, n + 1, Len(wire))
          /\ buf' = fed.buf
          /\ queue' = queue \o fed.messages
  /\ UNCHANGED <<up, link, sends, conns, thread, backoff, app>>

\* Mutant: the read loop does not look at _stop.
ReadEndsLate ==
  /\ thread = "reading"
  /\ link = "closed" /\ Room
  /\ link' = "none" /\ wire' = <<>>
  /\ LoseConnection
  /\ UNCHANGED <<up, sends, conns, backoff, buf, app>>

(* recv returns nothing, or raises; or the loop sees _stop.  A recv that    *)
(* times out changes nothing.                                               *)
ReadEnds ==
  /\ thread = "reading"
  /\ stop \/ (link = "closed" /\ Room)
  /\ link' = "none" /\ wire' = <<>>
  /\ LoseConnection
  /\ UNCHANGED <<up, sends, conns, backoff, buf, app>>

\* Mutant: the delay grows without a cap.
WakeUncapped ==
  /\ thread = "asleep"
  /\ thread' = "connecting"
  /\ backoff' = backoff * 2
  /\ UNCHANGED <<daemon, conns, buf, queue, app>>

Wake ==
  /\ thread = "asleep"
  /\ thread' = "connecting"
  /\ backoff' = IF backoff * 2 > MaxBackoff THEN MaxBackoff ELSE backoff * 2
  /\ UNCHANGED <<daemon, conns, buf, queue, app>>

(* The loop's condition. *)
End ==
  /\ thread = "connecting" /\ stop
  /\ thread' = "ended"
  /\ UNCHANGED <<daemon, conns, backoff, buf, queue, app>>

-----------------------------------------------------------------------------
(* The main thread *)

Drain ==
  /\ queue # <<>> /\ ~stop
  /\ queue' = Tail(queue)
  /\ IF Head(queue).type = "_conn_status"
     THEN connected' = Head(queue).connected /\ got' = <<>>
     ELSE got' = Append(got, Head(queue)) /\ UNCHANGED connected
  /\ UNCHANGED <<daemon, client, stop>>

Stop ==
  /\ ~stop
  /\ stop' = TRUE
  /\ UNCHANGED <<daemon, client, queue, connected, got>>

-----------------------------------------------------------------------------
Init ==
  /\ up \in BOOLEAN
  /\ conns = 0 /\ link = "none" /\ wire = <<>> /\ sends = 0
  /\ thread = "connecting" /\ backoff = 1 /\ buf = <<>>
  /\ stop = FALSE /\ queue = <<>> /\ connected = FALSE /\ got = <<>>

Thread == Connect \/ CannotConnect \/ Recv \/ ReadEnds \/ Wake \/ End

Next == DaemonStarts \/ DaemonStops \/ HangUp \/ Send \/ Thread \/ Drain \/ Stop

Spec == Init /\ [][Next]_vars

(* Sleeps and waits of the thread are bounded, and frames follow each other *)
(* until the window is closed.                                              *)
FairSpec == Spec /\ WF_vars(Thread) /\ WF_vars(Drain)

-----------------------------------------------------------------------------
(* Properties *)

(* Every variable has its type; the delay stays between its bounds. *)
TypeOK ==
  /\ up \in BOOLEAN /\ stop \in BOOLEAN /\ connected \in BOOLEAN
  /\ conns \in 0..MaxConns /\ sends \in 0..MaxSends
  /\ link \in {"none", "open", "closed"}
  /\ wire \in Seq(Message \X (1..3)) /\ buf \in Seq(Message \X (1..2))
  /\ thread \in {"connecting", "reading", "asleep", "ended"}
  /\ backoff \in {1, 2, 4, 8}
  /\ queue \in Seq({Status(b) : b \in BOOLEAN} \cup {Data(m) : m \in Message})
  /\ got \in Seq({Data(m) : m \in Message})

(* What the main thread has taken since the last status it took, that       *)
(* status first, then what it will take.                                    *)
Hears == <<Status(connected)>> \o got \o queue

IsStatus(q, i) == q[i].type = "_conn_status"

(* The messages that follow a status that connected, up to the next status. *)
Heard(q, i) ==
  LET ends == {j \in i + 1..Len(q) : IsStatus(q, j)}
  IN SubSeq(q, i + 1, IF ends = {} THEN Len(q) ELSE Min(ends) - 1)

(* Through any splitting and joining by recv, and any cut in the middle of  *)
(* a line, what the main thread hears of a connection is a beginning of     *)
(* what the daemon sent on it, from the snapshot on: no line is torn, mixed *)
(* with one of another connection, lost or doubled.                         *)
HearsABeginning ==
  \A i \in DOMAIN Hears :
    IsStatus(Hears, i) =>
      LET heard == Heard(Hears, i)
      IN /\ ~Hears[i].connected => heard = <<>>
         /\ \A j \in DOMAIN heard :
              heard[j].message = <<heard[1].message[1], j>>

(* The status last reported is true of the thread: it is connected exactly  *)
(* while it reads.                                                          *)
StatusTrue ==
  LET reports == {i \in DOMAIN queue : IsStatus(queue, i)}
      told    == IF reports = {} THEN connected ELSE queue[Max(reports)].connected
  IN told <=> thread = "reading"

(* All that was sent on the current connection, from its snapshot on, has   *)
(* been taken off the queue.                                                *)
HeardAll == connected /\ got = [j \in 1..sends |-> Data(<<conns, j>>)]

(* When the daemon comes up for good and drops nobody, and the window stays *)
(* open, the banner goes for good and the main thread ends up having heard  *)
(* the snapshot and all that was sent after it; when the daemon is gone for *)
(* good, the banner stays.                                                  *)
BannerSettles ==
  /\ <>[](/\ up /\ ~stop /\ link # "closed"
          /\ thread = "reading" \/ conns < MaxConns) => <>[]HeardAll
  /\ <>[](~up /\ ~stop) => <>[]~connected

(* Once the window is closed the thread ends, wherever it stood.            *)
ThreadEnds == stop ~> thread = "ended"
=============================================================================
