----------------------------- MODULE LogSession -----------------------------
(***************************************************************************)
(* One session of a client that reads the logs of an application or of a   *)
(* staging through a websocket.  The handler (main) copies lines from an   *)
(* unbuffered channel to the websocket.  A second goroutine (the reader)   *)
(* receives changes of the parameters; for each it ends the stream of      *)
(* lines and starts another.  A stream tails containers, each in a         *)
(* goroutine of its own; if it follows, a watcher reports the containers   *)
(* to it through two more channels.                                        *)
(*                                                                         *)
(* One action is what a goroutine does between two points where it may     *)
(* wait.  A send and its receive are one action.                           *)
(*                                                                         *)
(* Abstractions.  Of a line only the stream is kept.  Parameters but for   *)
(* follow change which lines there are, and are left out.  The channels of *)
(* the added and the removed targets are one: a target that was removed    *)
(* does not come back, and its tail ends with its log.  The containers of  *)
(* a staging are read one after the other, which is one of the orders in   *)
(* which they are read here.                                               *)
(***************************************************************************)
EXTENDS Naturals

CONSTANTS
  Container,
  Updates,  \* changes of the parameters in one session (bound)
  Lines,    \* of one container (bound)
  Faults    \* whether kubernetes fails to list, watch or read

ASSUME LogAssumption ==
  /\ Updates \in Nat /\ Lines \in Nat
  /\ Faults \in BOOLEAN

Context == 1 .. Updates + 1 \* one for the first stream and one for each change
Stream == Context

VARIABLES
  client,  \* whether the client is connected
  closed,  \* whether the handler has closed the websocket
  main, reader,
  cur,     \* the context that logCtx and logCancelFunc refer to
  live,    \* the contexts not cancelled
  stream, watcher, tail,
  last     \* history: the context of the last line written

vars == <<client, closed, main, reader, cur, live, stream, watcher, tail, last>>
-----------------------------------------------------------------------------
(* Data *)

\* from: the stream of the line received; mark: it is the marker of completion;
\* single: the session began without follow.
Main == [pc : {"start", "receive", "write", "finish", "joinreader", "joinstreams", "done", "crashed"},
         from : Stream \cup {0}, mark : BOOLEAN, single : BOOLEAN]
Reader == {"read", "mark", "wait", "renew", "done", "crashed"}
Streams == [pc : {"none", "setup", "run", "join", "mark", "done"},
            follow : BOOLEAN, ctx : Context \cup {0}, failed : BOOLEAN]
\* target: the container about to be reported; shut: its channels are closed.
Watcher == [pc : {"none", "watch", "report", "done"}, target : SUBSET Container, shut : BOOLEAN]
\* left: the lines not yet read
Tail == [pc : {"none", "open", "read", "send", "done", "failed"}, left : 0 .. Lines]

NoStream == [pc |-> "none", follow |-> FALSE, ctx |-> 0, failed |-> FALSE]
NoWatcher == [pc |-> "none", target |-> {}, shut |-> FALSE]
NoTail == [pc |-> "none", left |-> Lines]

Cancelled(s) == stream[s].ctx \notin live
SetMain(pc) == main' = [main EXCEPT !.pc = pc]
SetStream(s, pc) == stream' = [stream EXCEPT ![s].pc = pc]
SetTail(s, c, pc) == tail' = [tail EXCEPT ![s][c].pc = pc]

\* logWg and the tailWg of stream s are zero.
NoStreams == \A s \in Stream : stream[s].pc \in {"none", "done"}
NoTails(s) == \A c \in Container : tail[s][c].pc \in {"none", "done", "failed"}
Crashed == main.pc = "crashed"

\* A goroutine panics, and with it the server.
Crash ==
  /\ SetMain("crashed") /\ reader' = "crashed"
  /\ stream' = [s \in Stream |-> NoStream]
  /\ watcher' = [s \in Stream |-> NoWatcher]
  /\ tail' = [s \in Stream |-> [c \in Container |-> NoTail]]
  /\ UNCHANGED <<client, closed, cur, live, last>>
-----------------------------------------------------------------------------
Init ==
  /\ client = TRUE /\ closed = FALSE
  /\ main \in [pc : {"start"}, from : {0}, mark : {FALSE}, single : BOOLEAN]
  /\ reader = "read"
  /\ cur = 1 /\ live = {1}
  /\ stream = [s \in Stream |-> NoStream]
  /\ watcher = [s \in Stream |-> NoWatcher]
  /\ tail = [s \in Stream |-> [c \in Container |-> NoTail]]
  /\ last = 0

\* The client closes the websocket, or is gone.
ClientLeaves ==
  /\ client /\ client' = FALSE
  /\ UNCHANGED <<closed, main, reader, cur, live, stream, watcher, tail, last>>
-----------------------------------------------------------------------------
(* streamPodLogs: the handler *)

\* go startLogStreaming, with the context there is by now
Spawn(s, ctx, follow) ==
  stream' = [stream EXCEPT ![s] = [NoStream EXCEPT !.pc = "setup", !.follow = follow, !.ctx = ctx]]

MainStart ==
  /\ main.pc = "start"
  /\ Spawn(1, cur, ~main.single) /\ SetMain("receive")
  /\ UNCHANGED <<client, closed, reader, cur, live, watcher, tail, last>>

ReceiveLine(s, c) ==
  /\ main.pc = "receive" /\ tail[s][c].pc = "send"
  /\ SetTail(s, c, "read")
  /\ main' = [main EXCEPT !.pc = "write", !.from = s]
  /\ UNCHANGED <<client, closed, reader, cur, live, stream, watcher, last>>

\* Mutant: the session goes on after the marker.
ReceiveMarkOn(s) ==
  /\ main.pc = "receive" /\ stream[s].pc = "mark"
  /\ SetStream(s, "done")
  /\ main' = [main EXCEPT !.pc = "write", !.from = s, !.mark = TRUE]
  /\ UNCHANGED <<client, closed, reader, cur, live, watcher, tail, last>>

\* A session that began without follow ends with the first marker.
ReceiveMark(s) ==
  /\ main.pc = "receive" /\ stream[s].pc = "mark"
  /\ SetStream(s, "done")
  /\ main' = IF main.single THEN [main EXCEPT !.pc = "finish"]
             ELSE [main EXCEPT !.pc = "write", !.from = s, !.mark = TRUE]
  /\ UNCHANGED <<client, closed, reader, cur, live, watcher, tail, last>>

\* WriteMessage fails only if the client is gone, and may succeed even then.
WriteLine ==
  /\ main.pc = "write"
  /\ main' = [main EXCEPT !.pc = "receive", !.from = 0, !.mark = FALSE]
  /\ last' = IF main.mark THEN last ELSE stream[main.from].ctx
  /\ UNCHANGED <<client, closed, reader, cur, live, stream, watcher, tail>>

WriteFails ==
  /\ main.pc = "write" /\ ~client
  /\ main' = [main EXCEPT !.pc = "joinreader", !.from = 0, !.mark = FALSE]
  /\ closed' = TRUE /\ live' = live \ {cur}
  /\ UNCHANGED <<client, reader, cur, stream, watcher, tail, last>>

\* The closing message, and the end of the connection if it could be sent
Finish ==
  /\ main.pc = "finish" /\ SetMain("joinreader")
  /\ closed' \in {TRUE, client} /\ live' = live \ {cur}
  /\ UNCHANGED <<client, reader, cur, stream, watcher, tail, last>>

\* Mutant: the streams are awaited and not the reader, which may start another.
JoinReaderNot ==
  /\ main.pc = "joinreader" /\ SetMain("joinstreams")
  /\ UNCHANGED <<client, closed, reader, cur, live, stream, watcher, tail, last>>

\* What is deferred follows logCancelFunc: wg.Wait, logWg.Wait, close(logChan).
JoinReader ==
  /\ main.pc = "joinreader" /\ reader = "done" /\ SetMain("joinstreams")
  /\ UNCHANGED <<client, closed, reader, cur, live, stream, watcher, tail, last>>

JoinStreams ==
  /\ main.pc = "joinstreams" /\ NoStreams /\ SetMain("done")
  /\ UNCHANGED <<client, closed, reader, cur, live, stream, watcher, tail, last>>
-----------------------------------------------------------------------------
(* streamPodLogs: the goroutine that reads from the client *)

ReadUpdate ==
  /\ reader = "read" /\ client /\ ~closed /\ cur <= Updates
  /\ reader' = "mark"
  /\ UNCHANGED <<client, closed, main, cur, live, stream, watcher, tail, last>>

\* Mutant: the stream is awaited without being cancelled.
CancelNone ==
  /\ reader = "mark" /\ reader' = "wait"
  /\ UNCHANGED <<client, closed, main, cur, live, stream, watcher, tail, last>>

\* The marker of the start is written, even if that fails, and then logCancelFunc called.
CancelStream ==
  /\ reader = "mark" /\ reader' = "wait"
  /\ live' = live \ {cur}
  /\ UNCHANGED <<client, closed, main, cur, stream, watcher, tail, last>>

\* Mutant: the next stream begins while the one before ends.
AwaitNone ==
  /\ reader = "wait" /\ reader' = "renew"
  /\ UNCHANGED <<client, closed, main, cur, live, stream, watcher, tail, last>>

AwaitStream ==
  /\ reader = "wait" /\ NoStreams /\ reader' = "renew"
  /\ UNCHANGED <<client, closed, main, cur, live, stream, watcher, tail, last>>

\* A new context, and a stream if the parameters are valid
Renew ==
  /\ reader = "renew" /\ reader' = "read"
  /\ cur' = cur + 1 /\ live' = live \cup {cur + 1}
  /\ \/ \E follow \in BOOLEAN : Spawn(cur + 1, cur + 1, follow)
     \/ UNCHANGED stream
  /\ UNCHANGED <<client, closed, main, watcher, tail, last>>

ReadFails ==
  /\ reader = "read" /\ (~client \/ closed)
  /\ reader' = "done" /\ live' = live \ {cur}
  /\ UNCHANGED <<client, closed, main, cur, stream, watcher, tail, last>>
-----------------------------------------------------------------------------
(* startLogStreaming, with FetchLogs or StreamLogs *)

\* Pods are listed, and the tails of their containers started.
SetupFetch(s) ==
  /\ stream[s].pc = "setup" /\ ~stream[s].follow /\ ~Cancelled(s)
  /\ SetStream(s, "join")
  /\ tail' = [tail EXCEPT ![s] = [c \in Container |-> [NoTail EXCEPT !.pc = "open"]]]
  /\ UNCHANGED <<client, closed, main, reader, cur, live, watcher, last>>

SetupFollow(s) ==
  /\ stream[s].pc = "setup" /\ stream[s].follow
  /\ SetStream(s, "run")
  /\ watcher' = [watcher EXCEPT ![s].pc = "watch"]
  /\ UNCHANGED <<client, closed, main, reader, cur, live, tail, last>>

SetupFails(s) ==
  /\ stream[s].pc = "setup" /\ (Cancelled(s) \/ Faults)
  /\ stream' = [stream EXCEPT ![s].pc = "join", ![s].failed = TRUE]
  /\ UNCHANGED <<client, closed, main, reader, cur, live, watcher, tail, last>>

\* A target from the watcher; it is tailed unless it is already.
AddTail(s, c) ==
  /\ stream[s].pc = "run" /\ watcher[s].pc = "report" /\ c \in watcher[s].target
  /\ watcher' = [watcher EXCEPT ![s].pc = "watch", ![s].target = {}]
  /\ IF tail[s][c].pc = "none" THEN SetTail(s, c, "open") ELSE UNCHANGED tail
  /\ UNCHANGED <<client, closed, main, reader, cur, live, stream, last>>

\* select chooses among what is ready: the closed channel yields a nil target.
NilTarget(s) ==
  /\ stream[s].pc = "run" /\ watcher[s].shut
  /\ Crash

StopFollow(s) ==
  /\ stream[s].pc = "run" /\ Cancelled(s)
  /\ SetStream(s, "join")
  /\ UNCHANGED <<client, closed, main, reader, cur, live, watcher, tail, last>>

\* Mutant: the tails are not awaited.
JoinNoTails(s) ==
  /\ stream[s].pc = "join"
  /\ SetStream(s, IF stream[s].follow THEN "done" ELSE "mark")
  /\ UNCHANGED <<client, closed, main, reader, cur, live, watcher, tail, last>>

\* tailWg.Wait; a stream that does not follow sends the marker.
JoinTails(s) ==
  /\ stream[s].pc = "join" /\ NoTails(s)
  /\ SetStream(s, IF stream[s].follow THEN "done" ELSE "mark")
  /\ UNCHANGED <<client, closed, main, reader, cur, live, watcher, tail, last>>
-----------------------------------------------------------------------------
(* Watch: the goroutine that turns events of pods into targets *)

WatchEvent(s, c) ==
  /\ watcher[s].pc = "watch"
  /\ watcher' = [watcher EXCEPT ![s].pc = "report", ![s].target = {c}]
  /\ UNCHANGED <<client, closed, main, reader, cur, live, stream, tail, last>>

WatchLost(s) ==
  /\ watcher[s].pc = "watch" /\ Faults
  /\ watcher' = [watcher EXCEPT ![s].pc = "done"]
  /\ UNCHANGED <<client, closed, main, reader, cur, live, stream, tail, last>>

WatchStops(s) ==
  /\ watcher[s].pc = "watch" /\ Cancelled(s)
  /\ watcher' = [watcher EXCEPT ![s].pc = "done", ![s].shut = TRUE]
  /\ UNCHANGED <<client, closed, main, reader, cur, live, stream, tail, last>>
-----------------------------------------------------------------------------
(* Tail.Start, of container c in stream s *)

OpenLog(s, c) ==
  /\ tail[s][c].pc = "open"
  /\ SetTail(s, c, IF Cancelled(s) THEN "done" ELSE "read")
  /\ UNCHANGED <<client, closed, main, reader, cur, live, stream, watcher, last>>

\* Mutant: the end of the log is not noticed.
ReadPast(s, c) ==
  /\ tail[s][c].pc = "read"
  /\ tail' = [tail EXCEPT ![s][c] = [pc |-> "send", left |-> @.left - 1]]
  /\ UNCHANGED <<client, closed, main, reader, cur, live, stream, watcher, last>>

ReadLine(s, c) ==
  /\ tail[s][c].pc = "read" /\ tail[s][c].left > 0
  /\ tail' = [tail EXCEPT ![s][c] = [pc |-> "send", left |-> @.left - 1]]
  /\ UNCHANGED <<client, closed, main, reader, cur, live, stream, watcher, last>>

\* The end of the log; that which is followed ends with its container.
EndOfLog(s, c) ==
  /\ tail[s][c].pc = "read" /\ tail[s][c].left = 0
  /\ SetTail(s, c, "done")
  /\ UNCHANGED <<client, closed, main, reader, cur, live, stream, watcher, last>>

\* Lines that are buffered may still be sent when the context is cancelled.
ReadCancelled(s, c) ==
  /\ tail[s][c].pc = "read" /\ Cancelled(s)
  /\ SetTail(s, c, "done")
  /\ UNCHANGED <<client, closed, main, reader, cur, live, stream, watcher, last>>

TailFails(s, c) ==
  /\ Faults /\ tail[s][c].pc \in {"open", "read"}
  /\ SetTail(s, c, "failed")
  /\ UNCHANGED <<client, closed, main, reader, cur, live, stream, watcher, last>>
-----------------------------------------------------------------------------
\* gorilla/websocket panics when it detects that two goroutines write.
ConcurrentWrite ==
  /\ main.pc = "write" /\ reader = "mark"
  /\ Crash

MainStep ==
  \/ MainStart
  \/ \E s \in Stream : ReceiveMark(s) \/ \E c \in Container : ReceiveLine(s, c)
  \/ WriteLine \/ WriteFails \/ Finish \/ JoinReader \/ JoinStreams
ReaderStep == CancelStream \/ AwaitStream \/ Renew \/ ReadFails
StreamStep(s) ==
  \/ SetupFetch(s) \/ SetupFollow(s) \/ SetupFails(s) \/ StopFollow(s) \/ JoinTails(s)
  \/ \E c \in Container : AddTail(s, c)
TailStep(s, c) ==
  \/ OpenLog(s, c) \/ ReadLine(s, c) \/ ReadCancelled(s, c)
  \/ EndOfLog(s, c) /\ ~stream[s].follow
Outside ==
  \/ ClientLeaves \/ ReadUpdate \/ ConcurrentWrite
  \/ \E s \in Stream :
       \/ NilTarget(s) \/ WatchLost(s)
       \/ \E c \in Container : WatchEvent(s, c) \/ EndOfLog(s, c) \/ TailFails(s, c)

Next ==
  \/ MainStep \/ ReaderStep \/ Outside
  \/ \E s \in Stream : StreamStep(s) \/ WatchStops(s)
  \/ \E s \in Stream, c \in Container : TailStep(s, c)

Spec == Init /\ [][Next]_vars

\* The runtime schedules every goroutine; nothing is assumed of clients and pods,
\* but that the log of a container that is not followed ends.
Fairness ==
  /\ WF_vars(MainStep) /\ WF_vars(ReaderStep)
  /\ \A s \in Stream :
       /\ WF_vars(StreamStep(s)) /\ WF_vars(StopFollow(s))
       /\ WF_vars(WatchStops(s))
       /\ \A c \in Container : WF_vars(TailStep(s, c))

FairSpec == Spec /\ Fairness
-----------------------------------------------------------------------------
(* Properties *)

TypeOK ==
  /\ client \in BOOLEAN /\ closed \in BOOLEAN
  /\ main \in Main /\ reader \in Reader
  /\ cur \in Context /\ live \subseteq Context
  /\ stream \in [Stream -> Streams]
  /\ watcher \in [Stream -> Watcher]
  /\ tail \in [Stream -> [Container -> Tail]]
  /\ last \in Context \cup {0}

\* The channel is closed by the handler alone, and only when nothing will ever send
\* on it again, which would panic: neither a stream that still runs, nor one that the
\* reader starts later ("It's the caller's responsibility to close the logChan", Start).
NoSendOnClosed ==
  main.pc = "done" =>
    /\ reader = "done"
    /\ NoStreams /\ \A s \in Stream : NoTails(s)

\* After a change of the parameters, no line of a stream that was replaced follows one
\* of its successor (the reader cancels and awaits a stream before it starts another).
OldBeforeNew == [][last' >= last]_vars

\* A session without follow, whose parameters were not changed and whose client stayed,
\* ends when every line was written that could be read: the marker of completion is
\* sent after the last line, and is the last that is received.
FetchComplete ==
  main.single /\ main.pc = "done" /\ client /\ cur = 1 /\ ~stream[1].failed =>
    \A c \in Container : tail[1][c].pc = "failed" \/ tail[1][c] = [pc |-> "done", left |-> 0]

\* Such a session ends, though the handler leaves its loop only by a marker or an error.
FetchEnds ==
  main.single /\ main.pc = "start" ~>
    main.pc = "done" \/ ~client \/ Crashed \/ cur > 1 \/ reader # "read"

\* In a session that follows, a change of the parameters never hangs while the client
\* is there: the stream it replaces ends although its tails wait to send lines.
UpdateServed ==
  reader = "wait" /\ ~main.single ~> reader # "wait" \/ ~client \/ Crashed
=============================================================================
