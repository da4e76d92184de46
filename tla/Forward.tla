------------------------------- MODULE Forward -------------------------------
(***************************************************************************)
(* One forwarded connection: forward_bidirectional of irontraffic-dataplane*)
(* (forward.rs).  A single future pumps two directions, arms three timers  *)
(* and parks; what wakes it is exactly what it registered a waker with.    *)
(*                                                                         *)
(* The transports are external: a peer sends bytes, half-closes, drains    *)
(* its receive window or breaks.  A byte is the number of its place in the *)
(* stream its sender wrote.  A poll of the future is cut into the two pumps*)
(* and the rest of a round, since peers and the shutdown phase move while  *)
(* it runs; time passes only while the future is parked with nothing to do.*)
(***************************************************************************)
EXTENDS Integers, Sequences

CONSTANTS
  Bytes,        \* how many bytes each direction's sender may send
  Chunk,        \* CHUNK_SIZE
  Room,         \* what a peer's window holds before it drains it
  Idle, HalfClose, Life,    \* ForwardLimits in ticks; Life = 0 is None
  Cap,          \* max_bytes_per_direction; 0 is None
  MaxRounds     \* MAX_PUMP_ROUNDS

Dirs == {"up", "down"}
Ends == {"client", "upstream"}
Src == [up |-> "client", down |-> "upstream"]
Dst == [up |-> "upstream", down |-> "client"]

VARIABLES
  sent, fin, window, slow, broken, closing,     \* the world
  taken, hold, filled, written, out, eof, shut, capped,     \* Half, by direction
  pc, rounds, progress, res, moved,     \* the poll in progress; moved is
                                        \* progress_count # progress_at_arm
  sched, rwake, wwake,                  \* scheduled again; wakers registered
  idle, half, life,                     \* ticks left; -1 is a timer not armed
  heard,                                \* timers whose waker is registered
  reason, silent, lone, age             \* the result; history: ticks without a
                                        \* byte, with one side ended, in all

world == <<sent, fin, window, slow, broken, closing>>
halves == <<taken, hold, filled, written, out, eof, shut, capped>>
poll == <<pc, rounds, progress, res, moved, reason>>
timers == <<idle, half, life, heard>>
history == <<silent, lone, age>>
vars == <<world, halves, poll, sched, rwake, wwake, timers, history>>

Each(v) == [d \in Dirs |-> v]

Init ==
  /\ sent = Each(0) /\ fin = Each(FALSE) /\ window = Each(Room)
  /\ slow \in [Dirs -> BOOLEAN]
  /\ broken = [e \in Ends |-> FALSE] /\ closing = FALSE
  /\ taken = Each(0) /\ hold = Each(FALSE) /\ filled = Each(<<>>) /\ written = Each(0)
  /\ out = Each(<<>>) /\ eof = Each(FALSE) /\ shut = Each(FALSE) /\ capped = Each(FALSE)
  /\ pc = "parked" /\ rounds = 0 /\ progress = FALSE /\ res = Each("pending")
  /\ moved = FALSE /\ reason = "none"
  /\ sched = TRUE /\ rwake = Each(FALSE) /\ wwake = Each(FALSE)
  /\ idle = Idle /\ half = -1 /\ life = IF Life = 0 THEN -1 ELSE Life
  /\ heard = {}
  /\ silent = 0 /\ lone = 0 /\ age = 0

-----------------------------------------------------------------------------
(* The world: transports, the shutdown phase, the clock.                   *)

WakeIf(cond) == sched' = (sched \/ cond)

Send(d) ==
  /\ sent[d] < Bytes[d] /\ ~fin[d] /\ ~broken[Src[d]]
  /\ sent' = [sent EXCEPT ![d] = @ + 1]
  /\ WakeIf(rwake[d]) /\ rwake' = [rwake EXCEPT ![d] = FALSE]
  /\ UNCHANGED <<fin, window, slow, broken, closing, halves, poll, wwake, timers, history>>

Finish(d) ==
  /\ ~fin[d] /\ ~broken[Src[d]]
  /\ fin' = [fin EXCEPT ![d] = TRUE]
  /\ WakeIf(rwake[d]) /\ rwake' = [rwake EXCEPT ![d] = FALSE]
  /\ UNCHANGED <<sent, window, slow, broken, closing, halves, poll, wwake, timers, history>>

\* The receiving peer empties its window, or a shutdown handshake can complete.
Drain(d) ==
  /\ window[d] < Room \/ slow[d]
  /\ window' = [window EXCEPT ![d] = Room]
  /\ slow' = [slow EXCEPT ![d] = FALSE]
  /\ WakeIf(wwake[d]) /\ wwake' = [wwake EXCEPT ![d] = FALSE]
  /\ UNCHANGED <<sent, fin, broken, closing, halves, poll, rwake, timers, history>>

Break(e) ==
  /\ ~broken[e]
  /\ broken' = [broken EXCEPT ![e] = TRUE]
  /\ LET r == {d \in Dirs : Src[d] = e}  w == {d \in Dirs : Dst[d] = e}
     IN  /\ WakeIf((\E d \in r : rwake[d]) \/ (\E d \in w : wwake[d]))
         /\ rwake' = [d \in Dirs |-> rwake[d] /\ d \notin r]
         /\ wwake' = [d \in Dirs |-> wwake[d] /\ d \notin w]
  /\ UNCHANGED <<sent, fin, window, slow, closing, halves, poll, timers, history>>

\* The phase reaches Closing.  Nothing here listens for it.
EnterClosing ==
  /\ ~closing
  /\ closing' = TRUE
  /\ UNCHANGED <<sent, fin, window, slow, broken, halves, poll, sched, rwake, wwake, timers,
                 history>>

Down(n) == IF n > 0 THEN n - 1 ELSE n

\* History counts only as far as the bounds it is compared with.
UpTo(n, bound) == IF n > bound THEN bound ELSE n

Expires(n, name) == n = 1 /\ name \in heard

Tick ==
  /\ pc = "parked" /\ ~sched
  /\ idle' = Down(idle) /\ half' = Down(half) /\ life' = Down(life)
  /\ WakeIf(Expires(idle, "idle") \/ Expires(half, "half") \/ Expires(life, "life"))
  /\ silent' = UpTo(silent + 1, 2 * Idle + 1)
  /\ lone' = UpTo(IF eof["up"] # eof["down"] THEN lone + 1 ELSE lone, HalfClose + 1)
  /\ age' = IF Life = 0 THEN 0 ELSE UpTo(age + 1, Life + 1)
  /\ UNCHANGED <<world, halves, poll, rwake, wwake, heard>>

World ==
  \/ \E d \in Dirs : Send(d) \/ Finish(d) \/ Drain(d)
  \/ \E e \in Ends : Break(e)
  \/ EnterClosing

-----------------------------------------------------------------------------
(* pump: write what is buffered, then read, then shut down.                *)

\* The n bytes of a stream that follow its first a.
Stretch(a, n) == [i \in 1 .. n |-> a + i]

\* buf[i..j]
Slice(buf, i, j) == SubSeq(buf, i + 1, j)

Pending(d) == Slice(filled[d], written[d], Len(filled[d]))

After(d) == IF d = "up" THEN "down" ELSE "rest"

Returns(d, result) ==
  /\ pc = d
  /\ pc' = After(d)
  /\ res' = [res EXCEPT ![d] = result]
  /\ UNCHANGED <<world, rounds, moved, reason, timers, sched, lone, age>>

Progress(yes) ==
  /\ progress' = (progress \/ yes)
  /\ silent' = IF yes THEN 0 ELSE silent

\* poll_write hands n bytes to the destination.
Write(d, n) ==
  /\ out' = [out EXCEPT ![d] = @ \o Slice(Pending(d), 0, n)]
  /\ UNCHANGED <<eof, shut, capped>>

WriteFails(d) ==
  /\ Pending(d) # <<>> /\ broken[Dst[d]]
  /\ \E e \in {"Dst", "WriteZero"} : Returns(d, e)
  /\ UNCHANGED <<halves, progress, rwake, wwake, silent>>

WriteStallsForgets(d) ==
  /\ ~broken[Dst[d]] /\ window[d] < Len(Pending(d))
  /\ Write(d, window[d])
  /\ Progress(window[d] > 0)
  /\ pc = d /\ pc' = After(d) /\ res' = [res EXCEPT ![d] = "pending"]
  /\ window' = [window EXCEPT ![d] = 0]
  /\ wwake' = [wwake EXCEPT ![d] = TRUE]
  /\ UNCHANGED <<sent, fin, slow, broken, closing, rounds, moved, reason, timers, sched, lone,
                 age, taken, hold, filled, written, rwake>>

\* The window fills up: register for room, and do not touch the source.
WriteStalls(d) ==
  /\ ~broken[Dst[d]] /\ window[d] < Len(Pending(d))
  /\ LET n == window[d]
     IN  /\ Write(d, n)
         /\ written' = [written EXCEPT ![d] = @ + n]
         /\ Progress(n > 0)
         /\ pc = d /\ pc' = After(d) /\ res' = [res EXCEPT ![d] = "pending"]
         /\ window' = [window EXCEPT ![d] = 0]
  /\ wwake' = [wwake EXCEPT ![d] = TRUE]
  /\ UNCHANGED <<sent, fin, slow, broken, closing, rounds, moved, reason, timers, sched, lone,
                 age, taken, hold, filled, rwake>>

\* Everything buffered is written; the buffer is released and the byte cap
\* applied.  The rest of the pump goes on from here.
Flushed(d) ==
  /\ pc = d
  /\ Pending(d) = <<>> \/ (~broken[Dst[d]] /\ window[d] >= Len(Pending(d)))
  /\ out' = [out EXCEPT ![d] = @ \o Pending(d)]
  /\ window' = [window EXCEPT ![d] = @ - Len(Pending(d))]
  /\ pc' = After(d)
  /\ UNCHANGED <<sent, fin, slow, broken, closing, rounds, moved, reason, timers, sched, lone,
                 age>>

AtCap(d) == Cap > 0 /\ Len(out[d]) + Len(Pending(d)) >= Cap
Wrote(d) == Pending(d) # <<>>
Ended(d) == eof[d] \/ AtCap(d)
Available(d) == sent[d] - taken[d]

Release(d) ==
  /\ hold' = [hold EXCEPT ![d] = FALSE]
  /\ filled' = [filled EXCEPT ![d] = <<>>]
  /\ written' = [written EXCEPT ![d] = 0]

ReadPending(d) ==
  /\ Flushed(d) /\ ~Ended(d)
  /\ ~broken[Src[d]] /\ Available(d) = 0 /\ ~fin[d]
  /\ Release(d)
  /\ Progress(Wrote(d))
  /\ res' = [res EXCEPT ![d] = "pending"]
  /\ rwake' = [rwake EXCEPT ![d] = TRUE]
  /\ UNCHANGED <<taken, eof, shut, capped, wwake>>

ReadFails(d) ==
  /\ Flushed(d) /\ ~Ended(d) /\ broken[Src[d]]
  /\ Release(d)
  /\ Progress(Wrote(d))
  /\ res' = [res EXCEPT ![d] = "Src"]
  /\ UNCHANGED <<taken, eof, shut, capped, rwake, wwake>>

ReadBytes(d) ==
  /\ Flushed(d) /\ ~Ended(d)
  /\ ~broken[Src[d]] /\ Available(d) > 0
  /\ \E n \in 1 .. Chunk :
       /\ n <= Available(d)
       /\ filled' = [filled EXCEPT ![d] = Stretch(taken[d], n)]
       /\ taken' = [taken EXCEPT ![d] = @ + n]
  /\ written' = [written EXCEPT ![d] = 0]
  /\ hold' = [hold EXCEPT ![d] = TRUE]
  /\ Progress(TRUE)
  /\ res' = [res EXCEPT ![d] = "more"]
  /\ UNCHANGED <<eof, shut, capped, rwake, wwake>>

\* End of file or byte cap: shut the destination's write side.
ShutDown(d) ==
  /\ Flushed(d)
  /\ Ended(d) \/ (~broken[Src[d]] /\ Available(d) = 0 /\ fin[d])
  /\ Release(d)
  /\ Progress(Wrote(d))
  /\ eof' = [eof EXCEPT ![d] = TRUE]
  /\ capped' = [capped EXCEPT ![d] = @ \/ AtCap(d)]
  /\ LET waits == ~shut[d] /\ slow[d] /\ ~broken[Dst[d]]
     IN  /\ shut' = [shut EXCEPT ![d] = ~waits]
         /\ res' = [res EXCEPT ![d] = IF waits THEN "pending" ELSE "done"]
         /\ wwake' = [wwake EXCEPT ![d] = @ \/ waits]
  /\ UNCHANGED <<taken, rwake>>

Pump(d) ==
  WriteFails(d) \/ WriteStalls(d) \/ ReadPending(d) \/ ReadFails(d) \/ ReadBytes(d) \/ ShutDown(d)

-----------------------------------------------------------------------------
(* forward_bidirectional around the pumps.                                 *)

\* The runtime polls a scheduled task.
Poll ==
  /\ pc = "parked" /\ sched
  /\ pc' = "up" /\ sched' = FALSE
  /\ rounds' = 1 /\ progress' = FALSE
  /\ UNCHANGED <<world, halves, res, moved, reason, rwake, wwake, timers, history>>

\* map_half_error: which physical side failed.
Blame(d) ==
  CASE res[d] = "WriteZero" -> "write_zero"
    [] res[d] = "Src" -> Src[d]
    [] res[d] = "Dst" -> Dst[d]

Failed(d) == res[d] \in {"Src", "Dst", "WriteZero"}

End(why) ==
  /\ pc = "rest"
  /\ pc' = "ended"
  /\ reason' = why
  /\ UNCHANGED <<world, halves, rounds, progress, res, moved, sched, rwake, wwake, timers,
                 history>>

FailUp == Failed("up") /\ End(Blame("up"))
FailDown == ~Failed("up") /\ Failed("down") /\ End(Blame("down"))
NoneFailed == ~Failed("up") /\ ~Failed("down")

BothDone == NoneFailed /\ \A d \in Dirs : res[d] = "done"

Complete ==
  /\ BothDone
  /\ End(IF capped["up"] \/ capped["down"] THEN "ByteCap" ELSE "BothEof")

\* The half-close timer is armed the first time exactly one source has ended,
\* and polled in the same round.
HalfNow == IF eof["up"] # eof["down"] /\ half = -1 THEN HalfClose ELSE half

Goes == NoneFailed /\ ~BothDone

Close == Goes /\ closing /\ End("Closing")
LifetimeCap == Goes /\ ~closing /\ life = 0 /\ End("LifetimeCap")
HalfCloseTimeout == Goes /\ ~closing /\ life # 0 /\ HalfNow = 0 /\ End("HalfCloseTimeout")

NoDeadline == Goes /\ ~closing /\ life # 0 /\ HalfNow # 0

Moved == moved \/ progress

IdleTimeout == NoDeadline /\ idle = 0 /\ ~Moved /\ End("IdleTimeout")

PollTimersLate ==
  /\ half' = HalfNow
  /\ heard' = (IF idle = 0 THEN {} ELSE {"idle"})
              \cup (IF HalfNow = -1 THEN {} ELSE {"half"})
              \cup (IF life = -1 THEN {} ELSE {"life"})
  /\ IF idle = 0 THEN idle' = Idle /\ moved' = FALSE
                 ELSE moved' = Moved /\ UNCHANGED idle
  /\ UNCHANGED life

PollTimersForgetArm ==
  /\ half' = HalfNow
  /\ heard' = {"idle", "half", "life"}
  /\ idle' = IF idle = 0 THEN Idle ELSE idle
  /\ moved' = Moved
  /\ UNCHANGED life

\* An idle period with progress re-arms the timer and polls the new one.
PollTimers ==
  /\ half' = HalfNow
  /\ heard' = {"idle"} \cup (IF HalfNow = -1 THEN {} ELSE {"half"})
                       \cup (IF life = -1 THEN {} ELSE {"life"})
  /\ IF idle = 0 THEN idle' = Idle /\ moved' = FALSE
                 ELSE moved' = Moved /\ UNCHANGED idle
  /\ UNCHANGED life

NextRoundNoSelfWake ==
  /\ pc = "rest"
  /\ NoDeadline /\ (idle = 0 => Moved)
  /\ PollTimers
  /\ LET again == progress /\ rounds < MaxRounds
     IN  /\ pc' = IF again THEN "up" ELSE "parked"
         /\ rounds' = IF again THEN rounds + 1 ELSE 0
  /\ progress' = FALSE /\ res' = Each("pending")
  /\ UNCHANGED <<world, halves, reason, sched, rwake, wwake, history>>

\* Go round again while bytes move, yield after MaxRounds with a self-wake,
\* park when nothing moved.
NextRound ==
  /\ pc = "rest"
  /\ NoDeadline /\ (idle = 0 => Moved)
  /\ PollTimers
  /\ LET again == progress /\ rounds < MaxRounds
     IN  /\ pc' = IF again THEN "up" ELSE "parked"
         /\ rounds' = IF again THEN rounds + 1 ELSE 0
         /\ WakeIf(progress /\ ~again)
  /\ progress' = FALSE /\ res' = Each("pending")
  /\ UNCHANGED <<world, halves, reason, rwake, wwake, history>>

Rest ==
  \/ FailUp \/ FailDown \/ Complete \/ Close
  \/ LifetimeCap \/ HalfCloseTimeout \/ IdleTimeout \/ NextRound

Run == Poll \/ Pump("up") \/ Pump("down") \/ Rest

Next ==
  \/ pc # "ended" /\ (World \/ Tick)
  \/ Run
  \/ pc = "ended" /\ UNCHANGED vars

-----------------------------------------------------------------------------
TypeOK ==
  /\ sent \in [Dirs -> Nat] /\ fin \in [Dirs -> BOOLEAN] /\ window \in [Dirs -> 0 .. Room]
  /\ slow \in [Dirs -> BOOLEAN] /\ broken \in [Ends -> BOOLEAN] /\ closing \in BOOLEAN
  /\ taken \in [Dirs -> Nat] /\ hold \in [Dirs -> BOOLEAN] /\ written \in [Dirs -> Nat]
  /\ eof \in [Dirs -> BOOLEAN] /\ shut \in [Dirs -> BOOLEAN] /\ capped \in [Dirs -> BOOLEAN]
  /\ DOMAIN filled = Dirs /\ DOMAIN out = Dirs
  /\ \A d \in Dirs : sent[d] <= Bytes[d] /\ taken[d] <= sent[d]
  /\ pc \in {"parked", "up", "down", "rest", "ended"}
  /\ res \in [Dirs -> {"pending", "more", "done", "Src", "Dst", "WriteZero"}]
  /\ rounds \in 0 .. MaxRounds
  /\ progress \in BOOLEAN /\ moved \in BOOLEAN /\ sched \in BOOLEAN
  /\ rwake \in [Dirs -> BOOLEAN] /\ wwake \in [Dirs -> BOOLEAN]
  /\ idle \in 0 .. Idle /\ half \in -1 .. HalfClose /\ life \in -1 .. Life
  /\ heard \subseteq {"idle", "half", "life"}
  /\ silent \in 0 .. 2 * Idle + 1 /\ lone \in 0 .. HalfClose + 1 /\ age \in 0 .. Life + 1

\* Partial writes, stalls and errors never lose, repeat or reorder a byte: what
\* was delivered followed by what is still buffered is what was read.
BytesConserved ==
  \A d \in Dirs : out[d] \o Pending(d) = Stretch(0, taken[d])

\* The destination is shut down only after everything the source sent before
\* its end of file was written to it: the anti-truncation invariant of step 5.
NoTruncation ==
  \A d \in Dirs : shut[d] /\ ~capped[d] => fin[d] /\ out[d] = Stretch(0, sent[d])

\* Backpressure is structural: at most one chunk per direction is read and not
\* yet written, however slowly the destination drains.
OneChunkInFlight ==
  \A d \in Dirs : taken[d] - Len(out[d]) <= Chunk

\* A parked connection with nothing left to write holds no pooled buffer.
IdleHoldsNothing ==
  pc = "parked" => \A d \in Dirs : hold[d] => Pending(d) # <<>>

\* An error is blamed on the side that failed, whichever direction met it.
BlamesTheSideThatFailed ==
  reason \in Ends => broken[reason]

\* What pump promises of the bytes, of the buffers and of its errors.
StreamFaithful ==
  /\ TypeOK /\ BytesConserved /\ NoTruncation /\ OneChunkInFlight
  /\ IdleHoldsNothing /\ BlamesTheSideThatFailed

\* Nothing can move a direction now, and a waker is registered with whatever
\* can next make it move.
Watching(d) ==
  IF Pending(d) # <<>> THEN wwake[d] /\ window[d] = 0 /\ ~broken[Dst[d]]
  ELSE IF ~eof[d] THEN rwake[d] /\ Available(d) = 0 /\ ~fin[d] /\ ~broken[Src[d]]
  ELSE shut[d] \/ (wwake[d] /\ slow[d])

DeadlinesHeard ==
  "idle" \in heard /\ (half # -1 => "half" \in heard) /\ (life # -1 => "life" \in heard)

\* A parked future that is not scheduled watches both directions and will hear
\* its deadlines, the re-armed ones included.
ParkedIsWatching ==
  (pc = "parked" /\ ~sched) => DeadlinesHeard /\ \A d \in Dirs : Watching(d)

\* The idle deadline ends only a connection that was silent for the whole
\* period, and no connection is silent for two of them.
IdleBounds ==
  /\ silent <= 2 * Idle
  /\ reason = "IdleTimeout" => silent >= Idle

\* After one side has ended, the other has half_close to finish, progress or not.
HalfCloseBound == lone <= HalfClose

\* max_lifetime is a ceiling on the whole connection that progress never moves.
LifetimeBound == age <= Life

\* A byte cap stops a direction within the chunk that reaches it, and then shuts
\* the destination as an end of file would.
ByteCapStops ==
  \A d \in Dirs : Cap > 0 => Len(out[d]) < Cap + Chunk

\* Every limit of ForwardLimits holds.
DeadlinesKept == IdleBounds /\ HalfCloseBound /\ LifetimeBound /\ ByteCapStops

Spec == Init /\ [][Next]_vars
==============================================================================
