-------------------------- MODULE LogSessionProofs --------------------------
(***************************************************************************)
(* Proofs about LogSession, for any number of containers, lines and        *)
(* changes of the parameters, and with all failures.                       *)
(*                                                                         *)
(* That nothing is sent on the closed channel needs EndInv and TailInv:    *)
(* who closes it has joined the reader and then the streams, in this       *)
(* order, and a stream is not joined before its tails.  SpawnInv says      *)
(* that a stream is started once, ContextInv that only the stream with the *)
(* current context has lines, which OldBeforeNew needs, and FetchInv that  *)
(* nothing cancels a session that is left alone.                           *)
(***************************************************************************)
EXTENDS LogSession, TLAPS

Running(s) == stream[s].pc \in {"run", "join"}
Copying == main.pc \in {"start", "receive", "write"}
Left == main.pc \in {"finish", "joinreader", "joinstreams", "done"}
Undisturbed == main.single /\ client /\ cur = 1

\* A tail that is not at its end belongs to a stream that awaits it.
TailInv ==
  \A s \in Stream, c \in Container :
    tail[s][c].pc \notin {"none", "done", "failed"} => Running(s)

\* A stream is started once: the first by the handler, the others by the reader.
SpawnInv ==
  /\ reader \in {"mark", "wait", "renew"} => cur <= Updates
  /\ main.pc = "start" => stream[1].pc = "none"
  /\ \A s \in Stream : s > cur => stream[s].pc = "none"
  /\ \A s \in Stream : stream[s].pc = "run" => stream[s].follow

\* The handler joins the reader and then the streams.
EndInv ==
  /\ main.pc \in {"joinstreams", "done"} => reader = "done"
  /\ main.pc = "done" => NoStreams

\* Only a stream with the current context has lines, and the line that the handler
\* holds is not older than the last that it wrote.
ContextInv ==
  /\ live \subseteq {cur}
  /\ reader \in {"wait", "renew"} => live = {}
  /\ last <= cur
  /\ \A s \in Stream : stream[s].ctx <= cur
  /\ \A s \in Stream, c \in Container :
       tail[s][c].pc \in {"read", "send"} => stream[s].ctx = cur /\ reader # "renew"
  /\ main.pc = "write" /\ ~main.mark =>
       /\ main.from \in Stream /\ main.from <= cur
       /\ stream[main.from].pc # "none" /\ last <= stream[main.from].ctx

\* A session that does not follow, whose parameters are not changed and whose client
\* stays is not cancelled before its stream is done.
FetchInv ==
  /\ main.single /\ stream[1].pc # "none" => ~stream[1].follow
  /\ cur = 1 /\ stream[1].pc # "none" => stream[1].ctx = 1
  /\ Undisturbed /\ Copying /\ reader = "read" => 1 \in live
  /\ closed => ~Copying /\ main.pc # "finish"
  /\ reader = "done" /\ client => closed
  /\ Crashed => reader = "crashed"
  /\ Undisturbed /\ Left => stream[1].pc = "done"
  /\ Undisturbed /\ reader \in {"read", "done"} /\ ~stream[1].failed
     /\ stream[1].pc \in {"join", "mark", "done"} =>
       \A c \in Container :
         /\ tail[1][c].pc # "none"
         /\ tail[1][c].pc = "done" => tail[1][c].left = 0

IInv == TypeOK /\ TailInv /\ SpawnInv /\ EndInv /\ ContextInv /\ FetchInv
-----------------------------------------------------------------------------
(* Types *)

LEMMA ContextType ==
  /\ Stream = Context /\ 1 \in Stream /\ 0 \notin Stream
  /\ \A s \in Stream : s \in Nat /\ s >= 1 /\ s <= Updates + 1
  /\ \A n \in Nat : n >= 1 /\ n <= Updates + 1 => n \in Stream
BY LogAssumption DEF Stream, Context

LEMMA NoneTypes == NoStream \in Streams /\ NoWatcher \in Watcher /\ NoTail \in Tail
BY LogAssumption DEF NoStream, NoWatcher, NoTail, Streams, Watcher, Tail

\* The components of the variables that are records
LEMMA Fields ==
  ASSUME TypeOK
  PROVE  /\ cur \in Nat /\ cur >= 1 /\ last \in Nat /\ 1 \in Stream
         /\ main.single \in BOOLEAN /\ main.mark \in BOOLEAN /\ client \in BOOLEAN
         /\ \A s \in Stream : stream[s] \in Streams /\ stream[s].ctx \in Nat
                              /\ stream[s].failed \in BOOLEAN /\ stream[s].follow \in BOOLEAN
         /\ \A s \in Stream, c \in Container : tail[s][c] \in Tail /\ tail[s][c].left \in 0 .. Lines
BY ContextType DEF TypeOK, Main, Streams, Tail
-----------------------------------------------------------------------------
(* Steps that change one stream, or one tail, and hardly anything else *)

\* A stream that runs goes on, and ends after its tails.
LEMMA StreamMove ==
  ASSUME IInv, NEW s \in Stream, NEW new \in Streams,
         stream' = [stream EXCEPT ![s] = new],
         UNCHANGED <<client, closed, main, reader, cur, live, tail, last>>,
         watcher' \in [Stream -> Watcher],
         stream[s].pc \notin {"none", "done"}, new.pc # "none",
         new.ctx = stream[s].ctx, new.follow = stream[s].follow,
         stream[s].failed => new.failed,
         new.pc \in {"run", "join"} \/ NoTails(s),
         new.pc = "run" => new.follow,
         new.pc \in {"join", "mark", "done"} => new.failed \/ new.follow \/ stream[s].pc = "join"
  PROVE  IInv'
<1>1. \A t \in Stream : stream'[t] = IF t = s THEN new ELSE stream[t]
  BY DEF IInv, TypeOK
<1>2. TypeOK'
  BY DEF IInv, TypeOK
<1>3. TailInv'
  BY <1>1 DEF IInv, TailInv, Running, NoTails
<1>4. SpawnInv'
  BY <1>1, Fields DEF IInv, SpawnInv
<1>5. EndInv'
  BY <1>1 DEF IInv, EndInv, NoStreams
<1>6. ContextInv'
  BY <1>1 DEF IInv, ContextInv
<1>7. FetchInv'
  BY <1>1, Fields DEF IInv, FetchInv, Undisturbed, Copying, Left, Crashed
<1> QED BY <1>2, <1>3, <1>4, <1>5, <1>6, <1>7 DEF IInv

\* A tail of a stream that runs goes on; it stops before its end only when it is
\* cancelled or fails.
LEMMA TailMove ==
  ASSUME IInv, NEW s \in Stream, NEW c \in Container, NEW new \in Tail,
         tail' = [tail EXCEPT ![s][c] = new],
         UNCHANGED <<client, closed, reader, cur, live, stream, last>>,
         watcher' \in [Stream -> Watcher], main' \in Main,
         \/ main' = main
         \/ /\ main.pc = "receive" /\ main'.pc = "write" /\ main'.from = s
            /\ main'.single = main.single /\ tail[s][c].pc = "send",
         Running(s), new.pc # "none",
         new.pc \in {"read", "send"} => stream[s].ctx = cur /\ reader # "renew",
         new.pc = "done" => new.left = 0 \/ stream[s].follow \/ Cancelled(s)
  PROVE  IInv'
<1>1. \A t \in Stream, d \in Container :
        tail'[t][d] = IF t = s /\ d = c THEN new ELSE tail[t][d]
  BY DEF IInv, TypeOK
<1>2. TypeOK'
  BY DEF IInv, TypeOK
<1>3. TailInv'
  BY <1>1 DEF IInv, TailInv, Running
<1>4. SpawnInv'
  BY DEF IInv, SpawnInv
<1>5. EndInv'
  BY DEF IInv, EndInv, NoStreams
<1>6. ContextInv'
  <2>1. s <= cur
    BY Fields, ContextType DEF IInv, SpawnInv, Running
  <2> QED BY <1>1, <2>1 DEF IInv, ContextInv, Running
<1>7. FetchInv'
  <2>1. Undisturbed /\ reader \in {"read", "done"} /\ s = 1 => ~Cancelled(s) /\ ~stream[s].follow
    <3>1. CASE Copying
      BY <3>1, Fields DEF IInv, FetchInv, Undisturbed, Cancelled, Running
    <3>2. CASE Left
      BY <3>2 DEF IInv, FetchInv, Undisturbed, Running
    <3>3. Crashed => reader = "crashed"
      BY DEF IInv, FetchInv
    <3> QED BY <3>1, <3>2, <3>3 DEF IInv, TypeOK, Main, Copying, Left, Crashed
  <2>2. Undisturbed' = Undisturbed /\ Left' = Left /\ Copying' = Copying /\ Crashed' = Crashed
    BY DEF Crashed, Undisturbed, Left, Copying
  <2>3. (Undisturbed /\ reader \in {"read", "done"} /\ ~stream[1].failed
         /\ stream[1].pc \in {"join", "mark", "done"})
        => \A d \in Container : tail'[1][d].pc # "none"
                               /\ (tail'[1][d].pc = "done" => tail'[1][d].left = 0)
    BY <1>1, <2>1, Fields DEF IInv, FetchInv
  <2> QED BY <2>2, <2>3 DEF IInv, FetchInv
<1> QED BY <1>2, <1>3, <1>4, <1>5, <1>6, <1>7 DEF IInv
-----------------------------------------------------------------------------
(* Steps of the handler, the reader and the client that leave streams and tails alone *)

\* The client leaves.
LEMMA ClientLeavesStep == IInv /\ ClientLeaves => IInv'
<1> SUFFICES ASSUME IInv, ClientLeaves PROVE IInv'
  OBVIOUS
<1>1. TypeOK'
  BY Fields DEF IInv, TypeOK, Main, Reader, ClientLeaves
<1>2. TailInv'
  BY DEF IInv, TailInv, Running, ClientLeaves
<1>3. SpawnInv'
  BY Fields DEF IInv, SpawnInv, ClientLeaves
<1>4. EndInv'
  BY DEF IInv, EndInv, NoStreams, ClientLeaves
<1>5. ContextInv'
  BY Fields DEF IInv, ContextInv, ClientLeaves
<1>6. FetchInv'
  BY Fields DEF IInv, FetchInv, Undisturbed, Copying, Left, Crashed, ClientLeaves
<1> QED BY <1>1, <1>2, <1>3, <1>4, <1>5, <1>6 DEF IInv

\* The handler writes a line.
LEMMA WriteLineStep == IInv /\ WriteLine => IInv'
<1> SUFFICES ASSUME IInv, WriteLine PROVE IInv'
  OBVIOUS
<1>1. TypeOK'
  BY Fields, ContextType DEF IInv, TypeOK, Main, Streams, ContextInv, WriteLine
<1>2. TailInv'
  BY DEF IInv, TailInv, Running, WriteLine
<1>3. SpawnInv'
  BY Fields DEF IInv, SpawnInv, WriteLine
<1>4. EndInv'
  BY DEF IInv, EndInv, NoStreams, WriteLine
<1>5. ContextInv'
  BY Fields DEF IInv, ContextInv, WriteLine
<1>6. FetchInv'
  BY Fields DEF IInv, FetchInv, Undisturbed, Copying, Left, Crashed, WriteLine
<1> QED BY <1>1, <1>2, <1>3, <1>4, <1>5, <1>6 DEF IInv

\* The handler cannot write.
LEMMA WriteFailsStep == IInv /\ WriteFails => IInv'
<1> SUFFICES ASSUME IInv, WriteFails PROVE IInv'
  OBVIOUS
<1>1. TypeOK'
  BY Fields DEF IInv, TypeOK, Main, Reader, WriteFails, SetMain
<1>2. TailInv'
  BY DEF IInv, TailInv, Running, WriteFails, SetMain
<1>3. SpawnInv'
  BY Fields DEF IInv, SpawnInv, WriteFails, SetMain
<1>4. EndInv'
  BY DEF IInv, EndInv, NoStreams, WriteFails, SetMain
<1>5. ContextInv'
  BY Fields DEF IInv, ContextInv, WriteFails, SetMain
<1>6. FetchInv'
  BY Fields DEF IInv, FetchInv, Undisturbed, Copying, Left, Crashed, WriteFails, SetMain
<1> QED BY <1>1, <1>2, <1>3, <1>4, <1>5, <1>6 DEF IInv

\* The handler has received the marker that it ends with.
LEMMA FinishStep == IInv /\ Finish => IInv'
<1> SUFFICES ASSUME IInv, Finish PROVE IInv'
  OBVIOUS
<1>1. TypeOK'
  BY Fields DEF IInv, TypeOK, Main, Reader, Finish, SetMain
<1>2. TailInv'
  BY DEF IInv, TailInv, Running, Finish, SetMain
<1>3. SpawnInv'
  BY Fields DEF IInv, SpawnInv, Finish, SetMain
<1>4. EndInv'
  BY DEF IInv, EndInv, NoStreams, Finish, SetMain
<1>5. ContextInv'
  BY Fields DEF IInv, ContextInv, Finish, SetMain
<1>6. FetchInv'
  BY Fields DEF IInv, FetchInv, Undisturbed, Copying, Left, Crashed, Finish, SetMain
<1> QED BY <1>1, <1>2, <1>3, <1>4, <1>5, <1>6 DEF IInv

\* The handler awaits the reader.
LEMMA JoinReaderStep == IInv /\ JoinReader => IInv'
<1> SUFFICES ASSUME IInv, JoinReader PROVE IInv'
  OBVIOUS
<1>1. TypeOK'
  BY Fields DEF IInv, TypeOK, Main, Reader, JoinReader, SetMain
<1>2. TailInv'
  BY DEF IInv, TailInv, Running, JoinReader, SetMain
<1>3. SpawnInv'
  BY Fields DEF IInv, SpawnInv, JoinReader, SetMain
<1>4. EndInv'
  BY DEF IInv, EndInv, NoStreams, JoinReader, SetMain
<1>5. ContextInv'
  BY Fields DEF IInv, ContextInv, JoinReader, SetMain
<1>6. FetchInv'
  BY Fields DEF IInv, FetchInv, Undisturbed, Copying, Left, Crashed, JoinReader, SetMain
<1> QED BY <1>1, <1>2, <1>3, <1>4, <1>5, <1>6 DEF IInv

\* The handler awaits the streams.
LEMMA JoinStreamsStep == IInv /\ JoinStreams => IInv'
<1> SUFFICES ASSUME IInv, JoinStreams PROVE IInv'
  OBVIOUS
<1>1. TypeOK'
  BY Fields DEF IInv, TypeOK, Main, Reader, JoinStreams, SetMain
<1>2. TailInv'
  BY DEF IInv, TailInv, Running, JoinStreams, SetMain
<1>3. SpawnInv'
  BY Fields DEF IInv, SpawnInv, JoinStreams, SetMain
<1>4. EndInv'
  BY DEF IInv, EndInv, NoStreams, JoinStreams, SetMain
<1>5. ContextInv'
  BY Fields DEF IInv, ContextInv, JoinStreams, SetMain
<1>6. FetchInv'
  BY Fields DEF IInv, FetchInv, Undisturbed, Copying, Left, Crashed, JoinStreams, SetMain
<1> QED BY <1>1, <1>2, <1>3, <1>4, <1>5, <1>6 DEF IInv

\* The reader receives a change.
LEMMA ReadUpdateStep == IInv /\ ReadUpdate => IInv'
<1> SUFFICES ASSUME IInv, ReadUpdate PROVE IInv'
  OBVIOUS
<1>1. TypeOK'
  BY Fields DEF IInv, TypeOK, Main, Reader, ReadUpdate
<1>2. TailInv'
  BY DEF IInv, TailInv, Running, ReadUpdate
<1>3. SpawnInv'
  BY Fields DEF IInv, SpawnInv, ReadUpdate
<1>4. EndInv'
  BY DEF IInv, EndInv, NoStreams, ReadUpdate
<1>5. ContextInv'
  BY Fields DEF IInv, ContextInv, ReadUpdate
<1>6. FetchInv'
  BY Fields DEF IInv, FetchInv, Undisturbed, Copying, Left, Crashed, ReadUpdate
<1> QED BY <1>1, <1>2, <1>3, <1>4, <1>5, <1>6 DEF IInv

\* The reader cancels the stream.
LEMMA CancelStreamStep == IInv /\ CancelStream => IInv'
<1> SUFFICES ASSUME IInv, CancelStream PROVE IInv'
  OBVIOUS
<1>1. TypeOK'
  BY Fields DEF IInv, TypeOK, Main, Reader, CancelStream
<1>2. TailInv'
  BY DEF IInv, TailInv, Running, CancelStream
<1>3. SpawnInv'
  BY Fields DEF IInv, SpawnInv, CancelStream
<1>4. EndInv'
  BY DEF IInv, EndInv, NoStreams, CancelStream
<1>5. ContextInv'
  BY Fields DEF IInv, ContextInv, CancelStream
<1>6. FetchInv'
  BY Fields DEF IInv, FetchInv, Undisturbed, Copying, Left, Crashed, CancelStream
<1> QED BY <1>1, <1>2, <1>3, <1>4, <1>5, <1>6 DEF IInv

\* The reader ends.
LEMMA ReadFailsStep == IInv /\ ReadFails => IInv'
<1> SUFFICES ASSUME IInv, ReadFails PROVE IInv'
  OBVIOUS
<1>1. TypeOK'
  BY Fields DEF IInv, TypeOK, Main, Reader, ReadFails
<1>2. TailInv'
  BY DEF IInv, TailInv, Running, ReadFails
<1>3. SpawnInv'
  BY Fields DEF IInv, SpawnInv, ReadFails
<1>4. EndInv'
  BY DEF IInv, EndInv, NoStreams, ReadFails
<1>5. ContextInv'
  BY Fields DEF IInv, ContextInv, ReadFails
<1>6. FetchInv'
  BY Fields DEF IInv, FetchInv, Undisturbed, Copying, Left, Crashed, ReadFails
<1> QED BY <1>1, <1>2, <1>3, <1>4, <1>5, <1>6 DEF IInv

-----------------------------------------------------------------------------
(* Steps of streams *)

\* The handler starts the first stream.
LEMMA MainStartStep == IInv /\ MainStart => IInv'
<1> SUFFICES ASSUME IInv, MainStart PROVE IInv'
  OBVIOUS
<1> DEFINE new == [NoStream EXCEPT !.pc = "setup", !.follow = ~main.single, !.ctx = cur]
<1>1. /\ new \in Streams /\ new.pc = "setup" /\ new.ctx = cur /\ ~new.failed
      /\ new.follow = ~main.single
  BY Fields, NoneTypes DEF NoStream, Streams, IInv, TypeOK
<1>2. stream' = [stream EXCEPT ![1] = new] /\ main' = [main EXCEPT !.pc = "receive"]
      /\ main.pc = "start" /\ stream[1].pc = "none"
      /\ UNCHANGED <<client, closed, reader, cur, live, watcher, tail, last>>
  BY DEF MainStart, Spawn, SetMain, IInv, SpawnInv
<1> HIDE DEF new
<1>3. \A t \in Stream : stream'[t] = IF t = 1 THEN new ELSE stream[t]
  BY <1>2 DEF IInv, TypeOK
<1>4. /\ main'.pc = "receive" /\ main'.single = main.single
  BY <1>2 DEF IInv, TypeOK, Main
<1>5. TypeOK'
  BY <1>1, <1>2 DEF IInv, TypeOK, Main
<1>6. TailInv'
  BY <1>2, <1>3 DEF IInv, TailInv, Running
<1>7. SpawnInv'
  BY <1>1, <1>2, <1>3, <1>4, Fields DEF IInv, SpawnInv
<1>8. EndInv'
  BY <1>4 DEF EndInv
<1>9. ContextInv'
  BY <1>1, <1>2, <1>3, <1>4, Fields DEF IInv, ContextInv, TailInv, Running
<1>10. FetchInv'
  BY <1>1, <1>2, <1>3, <1>4, Fields DEF IInv, FetchInv, Undisturbed, Copying, Left, Crashed
<1> QED BY <1>5, <1>6, <1>7, <1>8, <1>9, <1>10 DEF IInv

\* The handler receives the marker of a stream.
LEMMA ReceiveMarkStep == ASSUME IInv, NEW s \in Stream, ReceiveMark(s) PROVE IInv'
<1> DEFINE new == [stream[s] EXCEPT !.pc = "done"]
<1>1. /\ new \in Streams /\ new.pc = "done" /\ new.ctx = stream[s].ctx
      /\ new.failed = stream[s].failed /\ new.follow = stream[s].follow
  BY Fields DEF Streams, IInv
<1>2. stream' = [stream EXCEPT ![s] = new] /\ stream[s].pc = "mark" /\ main.pc = "receive"
      /\ UNCHANGED <<client, closed, reader, cur, live, watcher, tail, last>>
  BY DEF ReceiveMark, SetStream
<1> HIDE DEF new
<1>3. \A t \in Stream : stream'[t] = IF t = s THEN new ELSE stream[t]
  BY <1>2 DEF IInv, TypeOK
<1>4. /\ main' \in Main /\ main'.single = main.single
      /\ main'.pc = IF main.single THEN "finish" ELSE "write"
      /\ main.single \/ main'.mark
  BY Fields DEF ReceiveMark, IInv, TypeOK, Main
<1>5. TypeOK'
  BY <1>1, <1>2, <1>4 DEF IInv, TypeOK
<1>6. TailInv'
  BY <1>1, <1>2, <1>3 DEF IInv, TailInv, Running
<1>7. SpawnInv'
  BY <1>1, <1>2, <1>3, <1>4, Fields DEF IInv, SpawnInv
<1>8. EndInv'
  BY <1>4 DEF EndInv
<1>9. ContextInv'
  BY <1>1, <1>2, <1>3, <1>4, Fields DEF IInv, ContextInv
<1>10. FetchInv'
  <2>1. cur = 1 => s = 1
    BY <1>2, Fields, ContextType DEF IInv, SpawnInv
  <2> QED BY <1>1, <1>2, <1>3, <1>4, <2>1, Fields DEF IInv, FetchInv, Undisturbed, Copying, Left, Crashed
<1> QED BY <1>5, <1>6, <1>7, <1>8, <1>9, <1>10 DEF IInv

\* The reader has awaited the streams: none has a line.
LEMMA AwaitStreamStep == IInv /\ AwaitStream => IInv'
<1> SUFFICES ASSUME IInv, AwaitStream PROVE IInv'
  OBVIOUS
<1>1. TypeOK'
  BY DEF IInv, TypeOK, Reader, AwaitStream
<1>2. TailInv'
  BY DEF IInv, TailInv, Running, AwaitStream
<1>3. SpawnInv'
  BY DEF IInv, SpawnInv, AwaitStream
<1>4. EndInv'
  BY DEF IInv, EndInv, NoStreams, AwaitStream
<1>5. ContextInv'
  <2>1. \A s \in Stream, c \in Container : tail[s][c].pc \notin {"read", "send"}
    BY DEF IInv, TailInv, Running, AwaitStream, NoStreams
  <2> QED BY <2>1 DEF IInv, ContextInv, AwaitStream
<1>6. FetchInv'
  BY DEF IInv, FetchInv, Undisturbed, Copying, Left, Crashed, AwaitStream
<1> QED BY <1>1, <1>2, <1>3, <1>4, <1>5, <1>6 DEF IInv

\* The reader makes a context, and starts a stream or does not.
LEMMA RenewStep == IInv /\ Renew => IInv'
<1> SUFFICES ASSUME IInv, Renew PROVE IInv'
  OBVIOUS
<1> DEFINE n == cur + 1
<1>1. /\ reader = "renew" /\ reader' = "read" /\ cur' = n /\ live' = live \cup {n}
      /\ UNCHANGED <<client, closed, main, watcher, tail, last>>
  BY DEF Renew
<1>2. n \in Stream /\ n > cur /\ n # 1 /\ n \in Nat
  BY <1>1, Fields, ContextType, LogAssumption DEF IInv, SpawnInv
<1>3. stream[n].pc = "none" /\ live = {}
  BY <1>1, <1>2 DEF IInv, SpawnInv, ContextInv
<1>4. PICK new \in Streams :
        /\ new.ctx = n \/ new.ctx <= cur
        /\ new.pc \in {"none", "setup"}
        /\ stream' = [stream EXCEPT ![n] = new]
  <2>1. ASSUME NEW follow \in BOOLEAN, Spawn(n, n, follow)
        PROVE  \E new \in Streams :
                 /\ new.ctx = n \/ new.ctx <= cur
                 /\ new.pc \in {"none", "setup"}
                 /\ stream' = [stream EXCEPT ![n] = new]
    <3> DEFINE fresh == [NoStream EXCEPT !.pc = "setup", !.follow = follow, !.ctx = n]
    <3>1. fresh \in Streams /\ fresh.ctx = n /\ fresh.pc = "setup"
      BY <1>2, ContextType DEF NoStream, Streams
    <3>2. stream' = [stream EXCEPT ![n] = fresh]
      BY <2>1 DEF Spawn
    <3> HIDE DEF fresh, n
    <3> QED BY <3>1, <3>2
  <2>2. CASE UNCHANGED stream
    <3>1. stream' = [stream EXCEPT ![n] = stream[n]]
      BY <2>2, <1>2 DEF IInv, TypeOK
    <3>2. stream[n] \in Streams /\ stream[n].ctx <= cur
      BY <1>2, Fields DEF IInv, ContextInv
    <3> QED BY <1>3, <3>1, <3>2
  <2> QED BY <2>1, <2>2 DEF Renew
<1> HIDE DEF n
<1>5. \A t \in Stream : stream'[t] = IF t = n THEN new ELSE stream[t]
  BY <1>4 DEF IInv, TypeOK
<1>6. TypeOK'
  BY <1>1, <1>2, <1>4, ContextType DEF IInv, TypeOK, Reader
<1>7. TailInv'
  BY <1>1, <1>3, <1>5 DEF IInv, TailInv, Running
<1>8. SpawnInv'
  BY <1>1, <1>2, <1>4, <1>5, Fields, ContextType DEF IInv, SpawnInv
<1>9. EndInv'
  BY <1>1 DEF IInv, EndInv
<1>10. ContextInv'
  <2>1. \A t \in Stream : stream[t].ctx <= cur /\ stream[t].ctx \in Nat
    BY Fields DEF IInv, ContextInv
  <2>2. \A t \in Stream : stream'[t].ctx <= n
    <3> TAKE t \in Stream
    <3>1. cur <= n /\ n <= n
      BY <1>2, Fields DEF IInv
    <3>2. CASE t = n
      <4>1. stream'[t].ctx = new.ctx
        BY <1>5, <3>2
      <4>2. new.ctx = n \/ new.ctx <= cur
        BY <1>4
      <4>3. new.ctx \in Nat
        BY ContextType DEF Streams
      <4> QED BY <3>1, <4>1, <4>2, <4>3, <1>2, Fields DEF IInv
    <3>3. CASE t # n
      BY <1>2, <1>5, <2>1, <3>3, Fields DEF IInv
    <3> QED BY <3>2, <3>3
  <2>3. live' \subseteq {cur'} /\ last' <= cur'
    BY <1>1, <1>2, <1>3, Fields DEF IInv, ContextInv
  <2>4. \A t \in Stream, c \in Container : tail[t][c].pc \notin {"read", "send"}
    BY <1>1 DEF IInv, ContextInv
  <2>5. main.pc = "write" /\ ~main.mark =>
          /\ main.from \in Stream /\ main.from <= n
          /\ stream'[main.from].pc # "none" /\ last <= stream'[main.from].ctx
    <3> SUFFICES ASSUME main.pc = "write" /\ ~main.mark
                 PROVE  /\ main.from \in Stream /\ main.from <= n
                        /\ stream'[main.from].pc # "none" /\ last <= stream'[main.from].ctx
      OBVIOUS
    <3>1. /\ main.from \in Stream /\ main.from <= cur
          /\ stream[main.from].pc # "none" /\ last <= stream[main.from].ctx
      BY DEF IInv, ContextInv
    <3>2. stream'[main.from] = stream[main.from]
      BY <1>3, <1>5, <3>1
    <3>3. main.from <= n
      <4>1. main.from \in Nat /\ cur \in Nat
        BY <3>1, Fields, ContextType DEF IInv
      <4> QED BY <1>2, <3>1, <4>1
    <3> QED BY <3>1, <3>2, <3>3
  <2> QED BY <1>1, <2>2, <2>3, <2>4, <2>5 DEF ContextInv
<1>11. FetchInv'
  BY <1>1, <1>2, <1>5, Fields DEF IInv, FetchInv, Undisturbed, Copying, Left, Crashed
<1> QED BY <1>6, <1>7, <1>8, <1>9, <1>10, <1>11 DEF IInv

\* A stream begins to fetch the logs of all containers.
LEMMA SetupFetchStep == ASSUME IInv, NEW s \in Stream, SetupFetch(s) PROVE IInv'
<1> DEFINE new == [stream[s] EXCEPT !.pc = "join"]
           opened == [NoTail EXCEPT !.pc = "open"]
<1>1. /\ new \in Streams /\ new.pc = "join" /\ new.ctx = stream[s].ctx
      /\ new.failed = stream[s].failed /\ new.follow = stream[s].follow
  BY Fields DEF Streams, IInv
<1>2. opened \in Tail /\ opened.pc = "open"
  BY NoneTypes DEF Tail, NoTail
<1>3. /\ stream' = [stream EXCEPT ![s] = new] /\ stream[s].pc = "setup"
      /\ tail' = [tail EXCEPT ![s] = [c \in Container |-> opened]]
      /\ UNCHANGED <<client, closed, main, reader, cur, live, watcher, last>>
  BY DEF SetupFetch, SetStream
<1> HIDE DEF new, opened
<1>4. \A t \in Stream : stream'[t] = IF t = s THEN new ELSE stream[t]
  BY <1>3 DEF IInv, TypeOK
<1>5. \A t \in Stream, c \in Container : tail'[t][c] = IF t = s THEN opened ELSE tail[t][c]
  BY <1>3 DEF IInv, TypeOK
<1>6. TypeOK'
  BY <1>1, <1>2, <1>3 DEF IInv, TypeOK
<1>7. TailInv'
  BY <1>1, <1>4, <1>5 DEF IInv, TailInv, Running
<1>8. SpawnInv'
  BY <1>1, <1>3, <1>4, Fields DEF IInv, SpawnInv
<1>9. EndInv'
  BY <1>3, <1>4 DEF IInv, EndInv, NoStreams
<1>10. ContextInv'
  BY <1>1, <1>2, <1>3, <1>4, <1>5 DEF IInv, ContextInv
<1>11. FetchInv'
  BY <1>1, <1>2, <1>3, <1>4, <1>5, Fields DEF IInv, FetchInv, Undisturbed, Copying, Left, Crashed
<1> QED BY <1>6, <1>7, <1>8, <1>9, <1>10, <1>11 DEF IInv

\* The other steps of a stream
LEMMA StreamSteps ==
  ASSUME IInv, NEW s \in Stream,
         SetupFollow(s) \/ SetupFails(s) \/ StopFollow(s) \/ JoinTails(s)
  PROVE  IInv'
<1>1. /\ stream[s] \in Streams /\ stream \in [Stream -> Streams]
      /\ watcher \in [Stream -> Watcher]
  BY DEF IInv, TypeOK
<1>2. CASE SetupFollow(s)
  <2> DEFINE new == [stream[s] EXCEPT !.pc = "run"]
  <2>1. /\ new \in Streams /\ new.pc = "run" /\ new.ctx = stream[s].ctx
        /\ new.failed = stream[s].failed /\ new.follow = stream[s].follow
    BY <1>1 DEF Streams
  <2>2. stream' = [stream EXCEPT ![s] = new] /\ stream[s].pc = "setup"
        /\ UNCHANGED <<client, closed, main, reader, cur, live, tail, last>>
    BY <1>2 DEF SetupFollow, SetStream
  <2>3. watcher' \in [Stream -> Watcher]
    <3>1. [watcher[s] EXCEPT !.pc = "watch"] \in Watcher
      BY <1>1 DEF Watcher
    <3> QED BY <1>1, <1>2, <3>1 DEF SetupFollow
  <2> HIDE DEF new
  <2>4. stream[s].follow
    BY <1>2 DEF SetupFollow
  <2> QED BY <2>1, <2>2, <2>3, <2>4, StreamMove
<1>3. CASE SetupFails(s)
  <2> DEFINE new == [stream[s] EXCEPT !.pc = "join", !.failed = TRUE]
  <2>1. /\ new \in Streams /\ new.pc = "join" /\ new.ctx = stream[s].ctx
        /\ new.failed /\ new.follow = stream[s].follow
    BY <1>1 DEF Streams
  <2>2. stream' = [stream EXCEPT ![s] = new] /\ stream[s].pc = "setup"
        /\ UNCHANGED <<client, closed, main, reader, cur, live, watcher, tail, last>>
    BY <1>1, <1>3 DEF SetupFails
  <2> HIDE DEF new
  <2> QED BY <1>1, <2>1, <2>2, StreamMove
<1>4. CASE StopFollow(s)
  <2> DEFINE new == [stream[s] EXCEPT !.pc = "join"]
  <2>1. /\ new \in Streams /\ new.pc = "join" /\ new.ctx = stream[s].ctx
        /\ new.failed = stream[s].failed /\ new.follow = stream[s].follow
    BY <1>1 DEF Streams
  <2>2. stream' = [stream EXCEPT ![s] = new] /\ stream[s].pc = "run"
        /\ UNCHANGED <<client, closed, main, reader, cur, live, watcher, tail, last>>
    BY <1>4 DEF StopFollow, SetStream
  <2>3. stream[s].follow
    BY <2>2 DEF IInv, SpawnInv
  <2> HIDE DEF new
  <2> QED BY <1>1, <2>1, <2>2, <2>3, StreamMove
<1>5. CASE JoinTails(s)
  <2> DEFINE new == [stream[s] EXCEPT !.pc = IF stream[s].follow THEN "done" ELSE "mark"]
  <2>1. /\ new \in Streams /\ new.pc \in {"mark", "done"} /\ new.ctx = stream[s].ctx
        /\ new.failed = stream[s].failed /\ new.follow = stream[s].follow
    BY <1>1 DEF Streams
  <2>2. /\ stream' = [stream EXCEPT ![s] = new] /\ stream[s].pc = "join" /\ NoTails(s)
        /\ UNCHANGED <<client, closed, main, reader, cur, live, watcher, tail, last>>
    BY <1>5 DEF JoinTails, SetStream
  <2> HIDE DEF new
  <2> QED BY <1>1, <2>1, <2>2, StreamMove
<1> QED BY <1>2, <1>3, <1>4, <1>5
-----------------------------------------------------------------------------
(* Steps of the watcher and of tails *)

\* A tail reads a line, ends or fails.
LEMMA TailSteps ==
  ASSUME IInv, NEW s \in Stream, NEW c \in Container,
         \/ OpenLog(s, c) \/ ReadLine(s, c) \/ EndOfLog(s, c)
         \/ ReadCancelled(s, c) \/ TailFails(s, c)
  PROVE  IInv'
<1>1. /\ tail[s][c] \in Tail /\ watcher \in [Stream -> Watcher] /\ main \in Main
      /\ tail[s][c].left \in 0 .. Lines /\ tail \in [Stream -> [Container -> Tail]]
  BY Fields DEF IInv, TypeOK
<1>2. CASE OpenLog(s, c)
  <2> DEFINE new == [tail[s][c] EXCEPT !.pc = IF Cancelled(s) THEN "done" ELSE "read"]
  <2>1. new \in Tail /\ new.pc \in {"done", "read"} /\ (new.pc = "done" <=> Cancelled(s))
    BY <1>1, <1>2 DEF Tail, OpenLog
  <2>2. /\ tail' = [tail EXCEPT ![s][c] = new]
        /\ UNCHANGED <<client, closed, main, reader, cur, live, stream, watcher, last>>
    BY <1>1, <1>2 DEF OpenLog, SetTail
  <2>3. Running(s)
    BY <1>2 DEF IInv, TailInv, OpenLog
  <2>4. ~Cancelled(s) => stream[s].ctx = cur /\ reader # "renew"
    BY DEF IInv, ContextInv, Cancelled
  <2> HIDE DEF new
  <2> QED BY <1>1, <2>1, <2>2, <2>3, <2>4, TailMove
<1>3. CASE ReadLine(s, c)
  <2> DEFINE new == [pc |-> "send", left |-> tail[s][c].left - 1]
  <2>1. new \in Tail /\ new.pc = "send"
    BY <1>1, <1>3, LogAssumption DEF Tail, ReadLine
  <2>2. /\ tail' = [tail EXCEPT ![s][c] = new]
        /\ UNCHANGED <<client, closed, main, reader, cur, live, stream, watcher, last>>
    BY <1>1, <1>3 DEF ReadLine
  <2>3. Running(s)
    BY <1>3 DEF IInv, TailInv, ReadLine
  <2>4. stream[s].ctx = cur /\ reader # "renew"
    BY <1>3 DEF IInv, ContextInv, ReadLine
  <2> HIDE DEF new
  <2> QED BY <1>1, <2>1, <2>2, <2>3, <2>4, TailMove
<1>4. CASE EndOfLog(s, c)
  <2> DEFINE new == [tail[s][c] EXCEPT !.pc = "done"]
  <2>1. new \in Tail /\ new.pc = "done" /\ new.left = 0
    BY <1>1, <1>4 DEF Tail, EndOfLog
  <2>2. /\ tail' = [tail EXCEPT ![s][c] = new]
        /\ UNCHANGED <<client, closed, main, reader, cur, live, stream, watcher, last>>
    BY <1>1, <1>4 DEF EndOfLog, SetTail
  <2>3. Running(s)
    BY <1>4 DEF IInv, TailInv, EndOfLog
  <2> HIDE DEF new
  <2> QED BY <1>1, <2>1, <2>2, <2>3, TailMove
<1>5. CASE ReadCancelled(s, c)
  <2> DEFINE new == [tail[s][c] EXCEPT !.pc = "done"]
  <2>1. new \in Tail /\ new.pc = "done" /\ Cancelled(s)
    BY <1>1, <1>5 DEF Tail, ReadCancelled
  <2>2. /\ tail' = [tail EXCEPT ![s][c] = new]
        /\ UNCHANGED <<client, closed, main, reader, cur, live, stream, watcher, last>>
    BY <1>1, <1>5 DEF ReadCancelled, SetTail
  <2>3. Running(s)
    BY <1>5 DEF IInv, TailInv, ReadCancelled
  <2> HIDE DEF new
  <2> QED BY <1>1, <2>1, <2>2, <2>3, TailMove
<1>6. CASE TailFails(s, c)
  <2> DEFINE new == [tail[s][c] EXCEPT !.pc = "failed"]
  <2>1. new \in Tail /\ new.pc = "failed"
    BY <1>1, <1>6 DEF Tail, TailFails
  <2>2. /\ tail' = [tail EXCEPT ![s][c] = new]
        /\ UNCHANGED <<client, closed, main, reader, cur, live, stream, watcher, last>>
    BY <1>1, <1>6 DEF TailFails, SetTail
  <2>3. Running(s)
    BY <1>6 DEF IInv, TailInv, TailFails
  <2> HIDE DEF new
  <2> QED BY <1>1, <2>1, <2>2, <2>3, TailMove
<1> QED BY <1>2, <1>3, <1>4, <1>5, <1>6

\* A tail hands a line to the handler.
LEMMA ReceiveLineStep ==
  ASSUME IInv, NEW s \in Stream, NEW c \in Container, ReceiveLine(s, c)
  PROVE  IInv'
<1> DEFINE new == [tail[s][c] EXCEPT !.pc = "read"]
<1>1. new \in Tail /\ new.pc = "read"
  BY Fields DEF IInv, Tail
<1>2. /\ tail' = [tail EXCEPT ![s][c] = new]
      /\ UNCHANGED <<client, closed, reader, cur, live, stream, watcher, last>>
  BY DEF ReceiveLine, SetTail, IInv, TypeOK
<1>3. Running(s) /\ stream[s].ctx = cur /\ reader # "renew"
  BY DEF IInv, TailInv, ContextInv, ReceiveLine
<1>4. /\ main' \in Main /\ main.pc = "receive" /\ main'.pc = "write" /\ main'.from = s
      /\ main'.single = main.single /\ tail[s][c].pc = "send"
  BY Fields DEF IInv, TypeOK, Main, ReceiveLine
<1>5. watcher' \in [Stream -> Watcher]
  BY <1>2 DEF IInv, TypeOK
<1> HIDE DEF new
<1> QED BY <1>1, <1>2, <1>3, <1>4, <1>5, TailMove

\* A stream starts the tail of a container, or ignores one that it has.
LEMMA AddTailStep ==
  ASSUME IInv, NEW s \in Stream, NEW c \in Container, AddTail(s, c)
  PROVE  IInv'
<1> DEFINE new == IF tail[s][c].pc = "none" THEN [tail[s][c] EXCEPT !.pc = "open"] ELSE tail[s][c]
<1>1. /\ new \in Tail /\ new.pc # "none" /\ (new.pc = "open" \/ new = tail[s][c])
  BY Fields DEF IInv, Tail
<1>2. /\ tail' = [tail EXCEPT ![s][c] = new]
      /\ UNCHANGED <<client, closed, main, reader, cur, live, stream, last>>
  BY DEF AddTail, SetTail, IInv, TypeOK
<1>3. watcher' \in [Stream -> Watcher]
  <2>1. [watcher[s] EXCEPT !.pc = "watch", !.target = {}] \in Watcher
    BY DEF IInv, TypeOK, Watcher
  <2> QED BY <2>1 DEF AddTail, IInv, TypeOK
<1>4. Running(s) /\ stream[s].follow /\ main \in Main
  BY DEF AddTail, Running, IInv, SpawnInv, TypeOK
<1>5. new.pc \in {"read", "send"} => stream[s].ctx = cur /\ reader # "renew"
  BY <1>1 DEF IInv, ContextInv
<1> HIDE DEF new
<1> QED BY <1>1, <1>2, <1>3, <1>4, <1>5, TailMove

\* The watcher alone moves.
LEMMA WatcherSteps ==
  ASSUME IInv, NEW s \in Stream,
         WatchLost(s) \/ WatchStops(s) \/ \E c \in Container : WatchEvent(s, c)
  PROVE  IInv'
<1>1. UNCHANGED <<client, closed, main, reader, cur, live, stream, tail, last>>
  BY DEF WatchLost, WatchStops, WatchEvent
<1>2. watcher' \in [Stream -> Watcher]
  <2>1. /\ [watcher[s] EXCEPT !.pc = "done"] \in Watcher
        /\ [watcher[s] EXCEPT !.pc = "done", !.shut = TRUE] \in Watcher
        /\ \A c \in Container : [watcher[s] EXCEPT !.pc = "report", !.target = {c}] \in Watcher
    BY DEF IInv, TypeOK, Watcher
  <2> QED BY <2>1 DEF WatchLost, WatchStops, WatchEvent, IInv, TypeOK
<1> QED BY <1>1, <1>2 DEF IInv, TypeOK, TailInv, SpawnInv, EndInv, ContextInv, FetchInv,
                          Running, NoStreams, Undisturbed, Copying, Left, Crashed

\* The server crashes.
LEMMA CrashStep == IInv /\ Crash => IInv'
<1> SUFFICES ASSUME IInv, Crash PROVE IInv'
  OBVIOUS
<1>1. /\ main' \in Main /\ main'.pc = "crashed" /\ reader' = "crashed"
      /\ UNCHANGED <<client, closed, cur, live, last>>
  BY DEF Crash, SetMain, IInv, TypeOK, Main
<1>2. /\ stream' = [s \in Stream |-> NoStream]
      /\ watcher' = [s \in Stream |-> NoWatcher]
      /\ tail' = [s \in Stream |-> [c \in Container |-> NoTail]]
  BY DEF Crash
<1>3. \A s \in Stream : stream'[s].pc = "none" /\ stream'[s].ctx = 0
  BY <1>2 DEF NoStream
<1>4. \A s \in Stream, c \in Container : tail'[s][c].pc = "none"
  BY <1>2 DEF NoTail
<1>5. TypeOK'
  BY <1>1, <1>2, NoneTypes DEF IInv, TypeOK, Reader
<1>6. TailInv' /\ EndInv'
  BY <1>1, <1>4 DEF TailInv, EndInv
<1>7. SpawnInv'
  BY <1>1, <1>3 DEF SpawnInv
<1>8. ContextInv'
  BY <1>1, <1>3, <1>4, Fields DEF IInv, ContextInv
<1>9. FetchInv'
  BY <1>1, <1>3, Fields DEF IInv, FetchInv, Undisturbed, Copying, Left, Crashed
<1> QED BY <1>5, <1>6, <1>7, <1>8, <1>9 DEF IInv
-----------------------------------------------------------------------------
(* The theorems *)

LEMMA InitInv == Init => IInv
<1> SUFFICES ASSUME Init PROVE IInv
  OBVIOUS
<1>1. /\ client = TRUE /\ closed = FALSE /\ main.pc = "start" /\ main \in Main
      /\ reader = "read" /\ cur = 1 /\ live = {1} /\ last = 0
  BY DEF Init, Main
<1>2. /\ stream = [s \in Stream |-> NoStream]
      /\ tail = [s \in Stream |-> [c \in Container |-> NoTail]]
  BY DEF Init
<1>3. \A s \in Stream : stream[s].pc = "none" /\ stream[s].ctx = 0
  BY <1>2 DEF NoStream
<1>4. \A s \in Stream, c \in Container : tail[s][c].pc = "none"
  BY <1>2 DEF NoTail
<1>5. TypeOK
  <2>1. watcher \in [Stream -> Watcher]
    BY NoneTypes DEF Init
  <2>2. tail \in [Stream -> [Container -> Tail]] /\ stream \in [Stream -> Streams]
    BY <1>2, NoneTypes
  <2>3. cur \in Context /\ live \subseteq Context /\ last \in Context \cup {0}
    BY <1>1, ContextType
  <2> QED BY <1>1, <2>1, <2>2, <2>3 DEF TypeOK, Reader
<1>6. TailInv /\ SpawnInv /\ EndInv
  BY <1>1, <1>3, <1>4, ContextType DEF TailInv, SpawnInv, EndInv
<1>7. ContextInv
  BY <1>1, <1>3, <1>4 DEF ContextInv
<1>8. FetchInv
  BY <1>1, <1>3, ContextType DEF FetchInv, Undisturbed, Copying, Left, Crashed
<1> QED BY <1>5, <1>6, <1>7, <1>8 DEF IInv

LEMMA NextInv == IInv /\ [Next]_vars => IInv'
<1> SUFFICES ASSUME IInv, [Next]_vars PROVE IInv'
  OBVIOUS
<1>1. CASE MainStep
  BY <1>1, MainStartStep, ReceiveMarkStep, ReceiveLineStep, WriteLineStep, WriteFailsStep,
     FinishStep, JoinReaderStep, JoinStreamsStep DEF MainStep
<1>2. CASE ReaderStep
  BY <1>2, CancelStreamStep, AwaitStreamStep, RenewStep, ReadFailsStep DEF ReaderStep
<1>3. CASE Outside
  <2>1. NilTarget(1) \/ ConcurrentWrite \/ (\E s \in Stream : NilTarget(s)) => Crash
    BY DEF NilTarget, ConcurrentWrite
  <2> QED BY <1>3, <2>1, CrashStep, ClientLeavesStep, ReadUpdateStep, WatcherSteps, TailSteps
          DEF Outside
<1>4. ASSUME NEW s \in Stream, StreamStep(s) \/ WatchStops(s) PROVE IInv'
  BY <1>4, SetupFetchStep, StreamSteps, AddTailStep, WatcherSteps DEF StreamStep
<1>5. ASSUME NEW s \in Stream, NEW c \in Container, TailStep(s, c) PROVE IInv'
  BY <1>5, TailSteps DEF TailStep
<1>6. CASE UNCHANGED vars
  BY <1>6 DEF vars, IInv, TypeOK, TailInv, SpawnInv, EndInv, ContextInv, FetchInv, Running,
              NoStreams, Undisturbed, Copying, Left, Crashed
<1> QED BY <1>1, <1>2, <1>3, <1>4, <1>5, <1>6 DEF Next

\* Every reachable state is well typed.
THEOREM LogTypes == Spec => []TypeOK
<1>1. IInv => TypeOK
  BY DEF IInv
<1> QED BY <1>1, InitInv, NextInv, PTL DEF Spec

\* Whatever the client and kubernetes do, the channel is closed when neither a stream
\* nor a tail can send on it, nor the reader start another stream.
THEOREM ClosedLast == Spec => []NoSendOnClosed
<1>1. IInv => NoSendOnClosed
  BY DEF IInv, NoSendOnClosed, EndInv, TailInv, NoStreams, NoTails, Running
<1> QED BY <1>1, InitInv, NextInv, PTL DEF Spec

\* A session that fetches logs and is left alone ends with all lines that could be read.
THEOREM FetchesAll == Spec => []FetchComplete
<1>1. IInv => FetchComplete
  <2> SUFFICES ASSUME IInv, Undisturbed, main.pc = "done", ~stream[1].failed, NEW c \in Container
               PROVE  tail[1][c].pc = "failed" \/ tail[1][c] = [pc |-> "done", left |-> 0]
    BY DEF FetchComplete, Undisturbed
  <2>1. stream[1].pc = "done" /\ reader = "done"
    BY DEF IInv, FetchInv, EndInv, Left
  <2>2. tail[1][c].pc \in {"done", "failed"} /\ (tail[1][c].pc = "done" => tail[1][c].left = 0)
    BY <2>1, Fields DEF IInv, TailInv, FetchInv, Running
  <2>3. tail[1][c] \in Tail
    BY Fields DEF IInv
  <2> QED BY <2>2, <2>3 DEF Tail
<1> QED BY <1>1, InitInv, NextInv, PTL DEF Spec

\* No line of a stream that was replaced follows one of its successor.
THEOREM LinesInOrder == Spec => OldBeforeNew
<1>1. IInv /\ [Next]_vars => [last' >= last]_vars
  <2> SUFFICES ASSUME IInv, Next PROVE last' >= last
    OBVIOUS
  <2>1. CASE WriteLine
    BY <2>1, Fields, ContextType DEF WriteLine, IInv, ContextInv
  <2>2. last' = last \/ WriteLine
    BY DEF Next, MainStep, ReaderStep, Outside, StreamStep, TailStep, Crash, ConcurrentWrite,
           NilTarget, MainStart, ReceiveMark, ReceiveLine, WriteFails, Finish, JoinReader,
           JoinStreams, CancelStream, AwaitStream, Renew, ReadFails, SetupFetch, SetupFollow,
           SetupFails, StopFollow, JoinTails, AddTail, OpenLog, ReadLine, ReadCancelled,
           EndOfLog, TailFails, ClientLeaves, ReadUpdate, WatchLost, WatchEvent, WatchStops
  <2> QED BY <2>1, <2>2, Fields DEF IInv
<1> QED BY <1>1, InitInv, NextInv, PTL DEF Spec, OldBeforeNew
=============================================================================
