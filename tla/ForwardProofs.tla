---------------------------- MODULE ForwardProofs ----------------------------
(***************************************************************************)
(* Proofs about Forward, for every amount of traffic, chunk size, window   *)
(* and limit: bytes are conserved, a parked future is watching, and the    *)
(* limits hold.                                                            *)
(*                                                                         *)
(* Three invariants, each inductive relative to the ones before it.        *)
(* StreamInv says where every byte taken from a source is.  WatchInv says  *)
(* that a pump which stopped is registered with whatever stopped it, or the*)
(* future is already scheduled.  TimerInv ties each timer to the history it*)
(* bounds, and needs WatchInv: a tick may only pass if no deadline that has*)
(* run out goes unheard.                                                   *)
(***************************************************************************)
EXTENDS Forward, TLAPS

\* What the code knows of its limits: MAX_PUMP_ROUNDS is 8, and an idle limit
\* is a Millis of at least one millisecond.
Configured ==
  /\ Bytes \in [Dirs -> Nat] /\ Chunk \in Nat /\ Room \in Nat
  /\ Idle \in Nat \ {0} /\ HalfClose \in Nat /\ Life \in Nat /\ Cap \in Nat
  /\ MaxRounds \in Nat \ {0}

\* A direction's buffer holds the last n bytes taken from the source; what was
\* written of them and all the earlier ones are at the destination.  It is
\* held only while some of it is unwritten, and an ended source left nothing.
Streaming(d) ==
  /\ \E n \in 0 .. Chunk :
       /\ n <= taken[d] /\ written[d] <= n
       /\ filled[d] = Stretch(taken[d] - n, n)
       /\ out[d] = Stretch(0, taken[d] - n + written[d])
       /\ hold[d] => written[d] < n
       /\ eof[d] => n = 0
  /\ shut[d] => eof[d]
  /\ eof[d] /\ ~capped[d] => fin[d] /\ taken[d] = sent[d]
  /\ Cap > 0 => taken[d] < Cap + Chunk
  /\ res[d] = "Src" => broken[Src[d]]
  /\ res[d] = "Dst" => broken[Dst[d]]

StreamInv ==
  /\ TypeOK /\ BlamesTheSideThatFailed
  /\ \A d \in Dirs : Streaming(d)

\* The pump of d has run in this round.
Pumped(d) == pc = "rest" \/ (d = "up" /\ pc = "down")

\* A pump that did not move everything it could either made progress, which
\* brings another round or a self-wake, or left its waker; a waker that fired
\* since has scheduled the future.
WatchInv ==
  /\ \A d \in Dirs : Pumped(d) =>
       /\ res[d] \in {"pending", "done"} => sched \/ Watching(d)
       /\ res[d] = "more" => progress
  /\ ParkedIsWatching

\* Each timer has counted as many ticks as its history, give or take the
\* progress the idle timer forgives; none has run out behind a parked future.
TimerInv ==
  /\ reason # "none" => pc = "ended"
  /\ reason = "IdleTimeout" => silent >= Idle
  /\ pc = "parked" => ~progress /\ (eof["up"] # eof["down"] => half # -1)
  /\ pc = "parked" /\ ~sched => idle # 0 /\ half # 0 /\ life # 0
  /\ IF moved \/ progress THEN silent <= Idle - idle
     ELSE Idle - idle <= silent /\ silent <= 2 * Idle - idle
  /\ IF half = -1 THEN lone = 0 ELSE lone <= HalfClose - half
  /\ IF Life = 0 THEN life = -1 /\ age = 0 ELSE life >= 0 /\ age <= Life - life

\* What any step leaves of a direction it does not pump.
Still(d) ==
  /\ taken'[d] = taken[d] /\ hold'[d] = hold[d] /\ filled'[d] = filled[d]
  /\ written'[d] = written[d] /\ out'[d] = out[d]
  /\ eof'[d] = eof[d] /\ shut'[d] = shut[d] /\ capped'[d] = capped[d]
  /\ fin[d] => fin'[d] /\ sent'[d] = sent[d]
  /\ \A e \in Ends : broken[e] => broken'[e]
  /\ res'[d] \in {res[d], "pending"}

\* A stretch is a sequence of its length.
LEMMA StretchLen ==
  ASSUME NEW a \in Nat, NEW n \in Nat
  PROVE  /\ Len(Stretch(a, n)) = n
         /\ Stretch(a, n) = <<>> <=> n = 0
  BY DEF Stretch

\* Two stretches that meet are one.
LEMMA StretchConcat ==
  ASSUME NEW a \in Nat, NEW m \in Nat, NEW n \in Nat
  PROVE  Stretch(a, m) \o Stretch(a + m, n) = Stretch(a, m + n)
  BY DEF Stretch

\* Part of a stretch is a stretch.
LEMMA StretchSub ==
  ASSUME NEW a \in Nat, NEW n \in Nat, NEW i \in Nat, NEW j \in Nat, i <= j, j <= n
  PROVE  Slice(Stretch(a, n), i, j) = Stretch(a + i, j - i)
  BY DEF Stretch, Slice

\* Writing the first k of the m bytes that follow the a already written.
LEMMA WritesPart ==
  ASSUME NEW a \in Nat, NEW m \in Nat, NEW k \in Nat, k <= m
  PROVE  Stretch(0, a) \o Slice(Stretch(a, m), 0, k) = Stretch(0, a + k)
  BY DEF Stretch, Slice

\* Writing all m of them.
LEMMA WritesAll ==
  ASSUME NEW a \in Nat, NEW m \in Nat
  PROVE  Stretch(0, a) \o Stretch(a, m) = Stretch(0, a + m)
  BY DEF Stretch

\* Writing all that is left of it.
LEMMA WritesRest ==
  ASSUME NEW t \in Nat, NEW n \in Nat, NEW w \in Nat, n <= t, w <= n
  PROVE  Stretch(0, t - n + w) \o Stretch(t - n + w, n - w) = Stretch(0, t)
  BY DEF Stretch

\* What is unwritten of a buffer is the stretch before the last byte taken.
LEMMA Unwritten ==
  ASSUME Configured, TypeOK, NEW d \in Dirs, NEW n \in 0 .. Chunk,
         n <= taken[d], written[d] <= n, filled[d] = Stretch(taken[d] - n, n)
  PROVE  /\ Pending(d) = Stretch(taken[d] - n + written[d], n - written[d])
         /\ Len(Pending(d)) = n - written[d]
         /\ Pending(d) = <<>> <=> n = written[d]
<1>1. /\ taken[d] - n \in Nat /\ n \in Nat /\ written[d] \in Nat
      /\ taken[d] - n + written[d] \in Nat /\ n - written[d] \in Nat
  BY DEF Configured, TypeOK
<1>2. Len(filled[d]) = n
  BY <1>1, StretchLen
<1>3. Pending(d) = Stretch(taken[d] - n + written[d], n - written[d])
  <2> DEFINE a == taken[d] - n
             w == written[d]
  <2>1. Pending(d) = Slice(Stretch(a, n), w, n)
    BY <1>2 DEF Pending
  <2>3. a \in Nat /\ w \in Nat /\ n \in Nat /\ w <= n /\ n <= n
    BY <1>1
  <2> HIDE DEF a, w
  <2>2. Slice(Stretch(a, n), w, n) = Stretch(a + w, n - w)
    BY <2>3, StretchSub
  <2>q. QED
    BY <2>1, <2>2 DEF a, w
<1>4. /\ Len(Stretch(taken[d] - n + written[d], n - written[d])) = n - written[d]
      /\ Stretch(taken[d] - n + written[d], n - written[d]) = <<>> <=> n - written[d] = 0
  BY <1>1, StretchLen
<1>q. QED
  BY <1>1, <1>3, <1>4

\* A direction nobody pumps keeps its invariant.
LEMMA StillStreams ==
  ASSUME NEW d \in Dirs, TypeOK, Streaming(d), Still(d)
  PROVE  Streaming(d)'
<1>1. PICK n \in 0 .. Chunk :
        /\ n <= taken[d] /\ written[d] <= n
        /\ filled[d] = Stretch(taken[d] - n, n)
        /\ out[d] = Stretch(0, taken[d] - n + written[d])
        /\ hold[d] => written[d] < n
        /\ eof[d] => n = 0
  BY DEF Streaming
<1>2. /\ n <= taken'[d] /\ written'[d] <= n
      /\ filled'[d] = Stretch(taken'[d] - n, n)
      /\ out'[d] = Stretch(0, taken'[d] - n + written'[d])
      /\ hold'[d] => written'[d] < n
      /\ eof'[d] => n = 0
  BY <1>1 DEF Still
<1>3. /\ shut'[d] => eof'[d]
      /\ eof'[d] /\ ~capped'[d] => fin'[d] /\ taken'[d] = sent'[d]
      /\ Cap > 0 => taken'[d] < Cap + Chunk
  BY DEF Streaming, Still
<1>4. Src[d] \in Ends /\ Dst[d] \in Ends
  BY DEF Dirs, Ends, Src, Dst
<1>5. (res'[d] = "Src" => broken'[Src[d]]) /\ (res'[d] = "Dst" => broken'[Dst[d]])
  BY <1>4 DEF Streaming, Still
<1>q. QED
  BY <1>2, <1>3, <1>5, Zenon DEF Streaming

\* A step pumps a direction or leaves it alone, but for its peer's bytes.
LEMMA StepDirection ==
  ASSUME TypeOK, [Next]_vars, NEW d \in Dirs
  PROVE  Still(d) \/ Pump(d)
<1> USE DEF TypeOK, Still
<1>1. ASSUME NEW e \in Dirs, Send(e) \/ Finish(e) \/ Drain(e)
      PROVE  Still(d)
  BY <1>1 DEF Send, Finish, Drain, halves, poll
<1>2. ASSUME NEW e \in Ends, Break(e)
      PROVE  Still(d)
  BY <1>2, Zenon DEF Break, halves, poll
<1>3. ASSUME EnterClosing \/ Tick \/ Poll \/ UNCHANGED vars
      PROVE  Still(d)
  BY <1>3, Zenon DEF EnterClosing, Tick, Poll, vars, world, halves, poll
<1>4. ASSUME NEW why, End(why)
      PROVE  Still(d)
  BY <1>4, Zenon DEF End, world, halves
<1>5. ASSUME NextRound
      PROVE  Still(d)
  BY <1>5, Zenon DEF NextRound, Each, world, halves
<1>6. ASSUME NEW e \in Dirs, e # d, Pump(e)
      PROVE  Still(d)
  <2>1. CASE WriteFails(e)
    BY <1>6, <2>1 DEF WriteFails, Returns, world, halves
  <2>2. CASE WriteStalls(e)
    BY <1>6, <2>2, Zenon DEF WriteStalls, Write
  <2>3. CASE ReadPending(e)
    BY <1>6, <2>3, Zenon DEF ReadPending, Flushed, Release
  <2>4. CASE ReadFails(e)
    BY <1>6, <2>4, Zenon DEF ReadFails, Flushed, Release
  <2>5. CASE ReadBytes(e)
    BY <1>6, <2>5, Zenon DEF ReadBytes, Flushed
  <2>6. CASE ShutDown(e)
    BY <1>6, <2>6, Zenon DEF ShutDown, Flushed, Release
  <2>q. QED
    BY <1>6, <2>1, <2>2, <2>3, <2>4, <2>5, <2>6, Zenon DEF Pump
<1>7. ASSUME Rest
      PROVE  Still(d)
  BY <1>4, <1>5, <1>7, Zenon
     DEF Rest, FailUp, FailDown, Complete, Close, LifetimeCap, HalfCloseTimeout, IdleTimeout
<1>8. "up" \in Dirs /\ "down" \in Dirs
  BY DEF Dirs
<1>q. QED
  BY <1>1, <1>2, <1>3, <1>6, <1>7, <1>8, Zenon DEF Next, World, Run

\* Writing, reading, stalling, failing and shutting down keep a direction's
\* bytes in order, none lost and none twice.
LEMMA PumpStreams ==
  ASSUME Configured, TypeOK, NEW d \in Dirs, Streaming(d), Pump(d)
  PROVE  Streaming(d)'
<1>1. PICK n \in 0 .. Chunk :
        /\ n <= taken[d] /\ written[d] <= n
        /\ filled[d] = Stretch(taken[d] - n, n)
        /\ out[d] = Stretch(0, taken[d] - n + written[d])
        /\ hold[d] => written[d] < n
        /\ eof[d] => n = 0
  BY DEF Streaming
<1>2. /\ n \in Nat /\ written[d] \in Nat /\ taken[d] \in Nat /\ sent[d] \in Nat
      /\ n <= taken[d] /\ written[d] <= n
      /\ taken[d] <= sent[d] /\ window[d] \in Nat /\ Chunk \in Nat /\ Cap \in Nat
  BY <1>1 DEF Configured, TypeOK
<1>3. filled[d] = Stretch(taken[d] - n, n) /\ out[d] = Stretch(0, taken[d] - n + written[d])
  BY <1>1, Zenon
<1>4. (hold[d] => written[d] < n) /\ (eof[d] => n = 0)
  BY <1>1, Zenon
<1>5. /\ Pending(d) = Stretch(taken[d] - n + written[d], n - written[d])
      /\ Len(Pending(d)) = n - written[d]
      /\ Pending(d) = <<>> <=> n = written[d]
  BY <1>1, Unwritten
<1>6. Len(Pending(d)) = n - written[d] /\ (Pending(d) = <<>> <=> n = written[d])
  BY <1>5
<1>7. /\ shut[d] => eof[d]
      /\ eof[d] /\ ~capped[d] => fin[d] /\ taken[d] = sent[d]
      /\ Cap > 0 => taken[d] < Cap + Chunk
      /\ res[d] = "Src" => broken[Src[d]]
      /\ res[d] = "Dst" => broken[Dst[d]]
  BY Zenon DEF Streaming
<1>8. CASE WriteFails(d)
  <2>1. UNCHANGED <<world, halves>> /\ res'[d] \in {"Dst", "WriteZero"} /\ broken[Dst[d]]
    BY <1>8 DEF WriteFails, Returns, TypeOK
  <2>q. QED
    BY <1>1, <1>7, <2>1, Zenon DEF Streaming, world, halves
<1>9. CASE WriteStalls(d)
  <2>1. window[d] < n - written[d] /\ written'[d] = written[d] + window[d]
    BY <1>6, <1>9, Zenon DEF WriteStalls, TypeOK
  <2>2. /\ res'[d] = "pending"
        /\ UNCHANGED <<sent, fin, broken, taken, hold, filled, eof, shut, capped>>
    BY <1>9, Zenon DEF WriteStalls, Write, TypeOK
  <2>3. out'[d] = out[d] \o Slice(Pending(d), 0, window[d])
    BY <1>9, Zenon DEF WriteStalls, Write, TypeOK
  <2>4. window[d] <= n - written[d] /\ written'[d] < n
    BY <1>2, <2>1
  <2>5. out'[d] = Stretch(0, taken[d] - n + (written[d] + window[d]))
    <3> DEFINE a == taken[d] - n + written[d]
               m == n - written[d]
               k == window[d]
    <3>1. a \in Nat /\ m \in Nat /\ k \in Nat /\ k <= m
      BY <1>2, <2>4
    <3>2. out'[d] = Stretch(0, a) \o Slice(Stretch(a, m), 0, k)
      BY <1>3, <1>5, <2>3
    <3>3. a + k = taken[d] - n + (written[d] + window[d])
      BY <1>2
    <3> HIDE DEF a, m, k
    <3>4. Stretch(0, a) \o Slice(Stretch(a, m), 0, k) = Stretch(0, a + k)
      BY <3>1, WritesPart, Zenon
    <3>q. QED
      BY <3>2, <3>3, <3>4
  <2>6. /\ n <= taken'[d] /\ written'[d] <= n
        /\ filled'[d] = Stretch(taken'[d] - n, n)
        /\ out'[d] = Stretch(0, taken'[d] - n + written'[d])
    BY <1>2, <1>3, <2>1, <2>2, <2>4, <2>5
  <2>7. (hold'[d] => written'[d] < n) /\ (eof'[d] => n = 0)
    BY <1>4, <2>2, <2>4
  <2>q. QED
    BY <1>7, <2>2, <2>6, <2>7, Zenon DEF Streaming
<1>10. ASSUME Flushed(d)
       PROVE  out'[d] = Stretch(0, taken[d]) /\ UNCHANGED <<sent, fin, broken>>
  <2>1. out'[d] = out[d] \o Pending(d) /\ UNCHANGED <<sent, fin, broken>>
    BY <1>10, Zenon DEF Flushed, TypeOK
  <2>2. Stretch(0, taken[d] - n + written[d]) \o Stretch(taken[d] - n + written[d], n - written[d])
          = Stretch(0, taken[d])
    BY <1>2, WritesRest, Zenon
  <2>q. QED
    BY <1>3, <1>5, <2>1, <2>2, Zenon
<1>11. ASSUME Flushed(d), Release(d), taken' = taken
       PROVE  \E m \in 0 .. Chunk :
                /\ m <= taken'[d] /\ written'[d] <= m
                /\ filled'[d] = Stretch(taken'[d] - m, m)
                /\ out'[d] = Stretch(0, taken'[d] - m + written'[d])
                /\ hold'[d] => written'[d] < m
                /\ eof'[d] => m = 0
  <2>1. filled'[d] = <<>> /\ written'[d] = 0 /\ ~hold'[d]
    BY <1>11, Zenon DEF Release, TypeOK
  <2>2. taken[d] - 0 = taken[d] /\ taken[d] - 0 + 0 = taken[d] /\ 0 \in 0 .. Chunk
    BY <1>2
  <2>3. Stretch(taken[d], 0) = <<>>
    BY <1>2, StretchLen, Zenon
  <2>4. /\ 0 <= taken'[d] /\ written'[d] <= 0
        /\ filled'[d] = Stretch(taken'[d] - 0, 0)
        /\ out'[d] = Stretch(0, taken'[d] - 0 + written'[d])
    BY <1>2, <1>10, <1>11, <2>1, <2>2, <2>3
  <2>q. QED
    BY <2>1, <2>2, <2>4, Zenon
<1>12. CASE ReadPending(d)
  <2>1. /\ res'[d] = "pending" /\ UNCHANGED <<taken, eof, shut, capped>>
        /\ Flushed(d) /\ Release(d)
    BY <1>12, Zenon DEF ReadPending, TypeOK
  <2>q. QED
    BY <1>7, <1>10, <1>11, <2>1, Zenon DEF Streaming
<1>13. CASE ReadFails(d)
  <2>1. /\ res'[d] = "Src" /\ broken[Src[d]] /\ UNCHANGED <<taken, eof, shut, capped>>
        /\ Flushed(d) /\ Release(d)
    BY <1>13, Zenon DEF ReadFails, TypeOK
  <2>q. QED
    BY <1>7, <1>10, <1>11, <2>1, Zenon DEF Streaming
<1>14. CASE ReadBytes(d)
  <2>1. PICK m \in 1 .. Chunk :
          /\ m <= sent[d] - taken[d]
          /\ filled'[d] = Stretch(taken[d], m) /\ taken'[d] = taken[d] + m
    BY <1>14, Zenon DEF ReadBytes, Available, TypeOK
  <2>2. /\ written'[d] = 0 /\ res'[d] = "more" /\ ~eof[d] /\ ~AtCap(d)
        /\ UNCHANGED <<eof, shut, capped>> /\ Flushed(d)
    BY <1>14, Zenon DEF ReadBytes, Ended, TypeOK
  <2>3. Len(out[d]) = taken[d] - n + written[d]
    <3>1. taken[d] - n + written[d] \in Nat
      BY <1>2
    <3>q. QED
      BY <1>3, <3>1, StretchLen, Zenon
  <2>4. Cap > 0 => taken[d] < Cap
    <3> DEFINE o == Len(out[d])
               p == Len(Pending(d))
    <3>1. ~(Cap > 0 /\ o + p >= Cap)
      BY <2>2 DEF AtCap
    <3>2. o = taken[d] - n + written[d] /\ p = n - written[d]
      BY <1>6, <2>3, Zenon
    <3> HIDE DEF o, p
    <3>3. o + p = taken[d]
      BY <1>2, <3>2
    <3>q. QED
      BY <1>2, <3>1, <3>3
  <2>5. Cap > 0 => taken'[d] < Cap + Chunk
    BY <1>2, <2>1, <2>4
  <2>6. /\ m \in 0 .. Chunk /\ m <= taken'[d] /\ written'[d] <= m /\ written'[d] < m
        /\ taken'[d] - m = taken[d] /\ taken'[d] - m + written'[d] = taken[d]
    BY <1>2, <2>1, <2>2
  <2>7. \E k \in 0 .. Chunk :
          /\ k <= taken'[d] /\ written'[d] <= k
          /\ filled'[d] = Stretch(taken'[d] - k, k)
          /\ out'[d] = Stretch(0, taken'[d] - k + written'[d])
          /\ hold'[d] => written'[d] < k
          /\ eof'[d] => k = 0
    BY <1>10, <2>1, <2>2, <2>6, Zenon
  <2>q. QED
    BY <1>7, <2>2, <2>5, <2>7, Zenon DEF Streaming
<1>15. CASE ShutDown(d)
  <2>1. Flushed(d) /\ Release(d) /\ taken' = taken /\ eof'[d] = TRUE
    BY <1>15, Zenon DEF ShutDown, TypeOK
  <2>2. res'[d] \in {"pending", "done"}
    BY <1>15, Zenon DEF ShutDown, TypeOK
  <2>3. capped'[d] = (capped[d] \/ AtCap(d))
    BY <1>15, Zenon DEF ShutDown, TypeOK
  <2>4. eof[d] \/ AtCap(d) \/ (sent[d] - taken[d] = 0 /\ fin[d])
    BY <1>15, Zenon DEF ShutDown, Ended, Available
  <2>5. sent[d] - taken[d] = 0 => taken[d] = sent[d]
    BY <1>2
  <2>6. ~capped'[d] => fin[d] /\ taken[d] = sent[d]
    BY <1>7, <2>3, <2>4, <2>5, Zenon
  <2>q. QED
    BY <1>7, <1>10, <1>11, <2>1, <2>2, <2>6, Zenon DEF Streaming
<1>q. QED
  BY <1>8, <1>9, <1>12, <1>13, <1>14, <1>15 DEF Pump

\* What is left to write of a direction is a whole number of bytes.
LEMMA PendingLen ==
  ASSUME Configured, TypeOK, NEW d \in Dirs, Streaming(d)
  PROVE  Len(Pending(d)) \in Nat /\ (Pending(d) = <<>> <=> Len(Pending(d)) = 0)
<1>1. PICK n \in 0 .. Chunk :
        /\ n <= taken[d] /\ written[d] <= n
        /\ filled[d] = Stretch(taken[d] - n, n)
  BY DEF Streaming
<1>2. Len(Pending(d)) = n - written[d] /\ (Pending(d) = <<>> <=> n = written[d])
  BY <1>1, Unwritten
<1>3. n \in Nat /\ written[d] \in Nat /\ written[d] <= n
  BY <1>1 DEF Configured, TypeOK
<1>q. QED
  BY <1>2, <1>3

\* What a pump leaves alone, and that it counts its progress.
LEMMA PumpFrame ==
  ASSUME TypeOK, NEW d \in Dirs, Pump(d)
  PROVE  /\ pc = d /\ pc' = After(d)
         /\ UNCHANGED <<sent, fin, slow, broken, closing, rounds, moved, reason, idle, half,
                        life, heard, sched, lone, age>>
         /\ \/ progress' = progress /\ silent' = silent
            \/ progress' = TRUE /\ silent' = 0
<1> DEFINE Frame == /\ pc = d /\ pc' = After(d)
                    /\ UNCHANGED <<sent, fin, slow, broken, closing, rounds, moved, reason,
                                   timers, sched, lone, age>>
           Counts == \/ progress' = progress /\ silent' = silent
                     \/ progress' = TRUE /\ silent' = 0
<1>1. ASSUME NEW yes, Progress(yes)
      PROVE  Counts
  BY <1>1, Zenon DEF Progress, TypeOK
<1>2. ASSUME Flushed(d)
      PROVE  Frame
  BY <1>2, Zenon DEF Flushed
<1>3. CASE WriteFails(d)
  BY <1>3, Zenon DEF WriteFails, Returns, world, timers
<1>4. CASE WriteStalls(d)
  <2>1. Frame
    BY <1>4, Zenon DEF WriteStalls
  <2>2. Counts
    BY <1>1, <1>4, Zenon DEF WriteStalls
  <2>q. QED
    BY <2>1, <2>2 DEF timers
<1>5. CASE ReadPending(d) \/ ReadFails(d) \/ ReadBytes(d) \/ ShutDown(d)
  <2>1. Frame
    BY <1>2, <1>5, Zenon DEF ReadPending, ReadFails, ReadBytes, ShutDown
  <2>2. Counts
    BY <1>1, <1>5, Zenon DEF ReadPending, ReadFails, ReadBytes, ShutDown
  <2>q. QED
    BY <2>1, <2>2 DEF timers
<1>q. QED
  BY <1>3, <1>4, <1>5, Zenon DEF Pump

\* A pump keeps the types of what it touches.
LEMMA PumpType ==
  ASSUME Configured, TypeOK, NEW d \in Dirs, Streaming(d), Pump(d)
  PROVE  TypeOK'
<1>1. Len(Pending(d)) \in Nat /\ (Pending(d) = <<>> <=> Len(Pending(d)) = 0)
  BY PendingLen
<1>2. /\ pc' = After(d)
      /\ UNCHANGED <<sent, fin, slow, broken, closing, rounds, moved, reason, idle, half, life,
                     heard, sched, lone, age>>
      /\ \/ progress' = progress /\ silent' = silent
         \/ progress' = TRUE /\ silent' = 0
  BY PumpFrame, Zenon
<1>3. After(d) \in {"down", "rest"}
  BY DEF After
<1>4. progress' \in BOOLEAN /\ silent' \in 0 .. 2 * Idle + 1
  <2>1. progress \in BOOLEAN /\ silent \in 0 .. 2 * Idle + 1 /\ Idle \in Nat
    BY DEF TypeOK, Configured
  <2>2. progress' \in BOOLEAN
    BY <1>2, <2>1, Zenon
  <2>3. silent' \in 0 .. 2 * Idle + 1
    BY <1>2, <2>1
  <2>q. QED
    BY <2>2, <2>3
<1> DEFINE Flags == /\ hold \in [Dirs -> BOOLEAN] /\ eof \in [Dirs -> BOOLEAN]
                    /\ shut \in [Dirs -> BOOLEAN] /\ capped \in [Dirs -> BOOLEAN]
                    /\ rwake \in [Dirs -> BOOLEAN] /\ wwake \in [Dirs -> BOOLEAN]
                    /\ res \in [Dirs -> {"pending", "more", "done", "Src", "Dst", "WriteZero"}]
           Counts == /\ window \in [Dirs -> 0 .. Room]
                     /\ taken \in [Dirs -> Nat] /\ written \in [Dirs -> Nat]
                     /\ \A e \in Dirs : taken[e] <= sent[e]
           Shapes == DOMAIN filled = Dirs /\ DOMAIN out = Dirs
<1>5. Flags /\ Counts /\ Shapes /\ sent \in [Dirs -> Nat] /\ Room \in Nat
  BY DEF TypeOK, Configured
<1>6. ASSUME Flags', Counts', Shapes'
      PROVE  TypeOK'
  BY <1>2, <1>3, <1>4, <1>6, Zenon DEF TypeOK
<1>7. CASE WriteFails(d)
  <2>1. PICK e \in {"Dst", "WriteZero"} : res' = [res EXCEPT ![d] = e]
    BY <1>7, Zenon DEF WriteFails, Returns
  <2>2. UNCHANGED <<window, taken, hold, filled, written, out, eof, shut, capped, rwake, wwake>>
    BY <1>7, Zenon DEF WriteFails, Returns, world, halves
  <2>3. Flags' /\ Shapes'
    BY <1>5, <2>1, <2>2, Zenon
  <2>4. Counts'
    BY <1>2, <1>5, <2>2, Zenon
  <2>q. QED
    BY <1>6, <2>3, <2>4, Zenon
<1>8. CASE WriteStalls(d)
  <2>1. /\ written' = [written EXCEPT ![d] = @ + window[d]]
        /\ window' = [window EXCEPT ![d] = 0] /\ wwake' = [wwake EXCEPT ![d] = TRUE]
        /\ res' = [res EXCEPT ![d] = "pending"]
        /\ UNCHANGED <<taken, hold, filled, rwake, eof, shut, capped>>
    BY <1>8, Zenon DEF WriteStalls, Write
  <2>2. DOMAIN out' = DOMAIN out
    BY <1>8 DEF WriteStalls, Write
  <2>3. Flags' /\ Shapes'
    BY <1>5, <2>1, <2>2, Zenon
  <2>4. written' \in [Dirs -> Nat]
    BY <1>5, <2>1
  <2>5. window' \in [Dirs -> 0 .. Room]
    BY <1>5, <2>1
  <2>6. Counts'
    BY <1>2, <1>5, <2>1, <2>4, <2>5, Zenon
  <2>q. QED
    BY <1>6, <2>3, <2>6, Zenon
<1>9. ASSUME Flushed(d)
      PROVE  window' \in [Dirs -> 0 .. Room] /\ DOMAIN out' = Dirs
  <2> DEFINE L == Len(Pending(d))
  <2>1. L \in Nat /\ window' = [window EXCEPT ![d] = @ - L] /\ (L = 0 \/ window[d] >= L)
    BY <1>1, <1>9, Zenon DEF Flushed
  <2>2. DOMAIN out' = Dirs
    BY <1>5, <1>9, Zenon DEF Flushed
  <2> HIDE DEF L
  <2>3. window' \in [Dirs -> 0 .. Room]
    BY <1>5, <2>1
  <2>q. QED
    BY <2>2, <2>3
<1>10. ASSUME Release(d)
       PROVE  /\ hold' \in [Dirs -> BOOLEAN] /\ written' \in [Dirs -> Nat]
              /\ DOMAIN filled' = Dirs
  BY <1>5, <1>10 DEF Release
<1>11. ASSUME Flushed(d), Release(d), taken' = taken
       PROVE  Counts' /\ Shapes' /\ hold' \in [Dirs -> BOOLEAN]
  BY <1>2, <1>5, <1>9, <1>10, <1>11, Zenon
<1>12. CASE ReadPending(d) \/ ReadFails(d)
  <2>1. Counts' /\ Shapes' /\ hold' \in [Dirs -> BOOLEAN]
    BY <1>11, <1>12, Zenon DEF ReadPending, ReadFails
  <2>2. /\ UNCHANGED <<eof, shut, capped, wwake>>
        /\ rwake' = [rwake EXCEPT ![d] = TRUE] \/ rwake' = rwake
        /\ res' = [res EXCEPT ![d] = "pending"] \/ res' = [res EXCEPT ![d] = "Src"]
    BY <1>12, Zenon DEF ReadPending, ReadFails
  <2>3. Flags'
    BY <1>5, <2>1, <2>2, Zenon
  <2>q. QED
    BY <1>6, <2>1, <2>3, Zenon
<1>13. CASE ReadBytes(d)
  <2>1. PICK n \in 1 .. Chunk :
          /\ n <= sent[d] - taken[d]
          /\ filled' = [filled EXCEPT ![d] = Stretch(taken[d], n)]
          /\ taken' = [taken EXCEPT ![d] = @ + n]
    BY <1>13, Zenon DEF ReadBytes, Available
  <2>2. /\ written' = [written EXCEPT ![d] = 0] /\ hold' = [hold EXCEPT ![d] = TRUE]
        /\ res' = [res EXCEPT ![d] = "more"]
        /\ UNCHANGED <<eof, shut, capped, rwake, wwake>> /\ Flushed(d)
    BY <1>13, Zenon DEF ReadBytes
  <2>3. Flags'
    BY <1>5, <2>2, Zenon
  <2>4. Shapes'
    BY <1>5, <1>9, <2>1, <2>2, Zenon
  <2>5. taken' \in [Dirs -> Nat] /\ \A e \in Dirs : taken'[e] <= sent[e]
    BY <1>5, <2>1
  <2>6. Counts'
    BY <1>2, <1>5, <1>9, <2>2, <2>5, Zenon
  <2>q. QED
    BY <1>6, <2>3, <2>4, <2>6, Zenon
<1>14. CASE ShutDown(d)
  <2>1. Counts' /\ Shapes' /\ hold' \in [Dirs -> BOOLEAN]
    BY <1>11, <1>14, Zenon DEF ShutDown
  <2>2. /\ eof' = [eof EXCEPT ![d] = TRUE] /\ rwake' = rwake
        /\ capped' = [capped EXCEPT ![d] = @ \/ AtCap(d)]
    BY <1>14, Zenon DEF ShutDown
  <2>3. PICK waits \in BOOLEAN :
          /\ shut' = [shut EXCEPT ![d] = ~waits]
          /\ res' = [res EXCEPT ![d] = IF waits THEN "pending" ELSE "done"]
          /\ wwake' = [wwake EXCEPT ![d] = @ \/ waits]
    <3> DEFINE w == ~shut[d] /\ slow[d] /\ ~broken[Dst[d]]
    <3>1. w \in BOOLEAN
      OBVIOUS
    <3>q. QED
      BY <1>14, <3>1, Zenon DEF ShutDown
  <2>4. Flags'
    BY <1>5, <2>1, <2>2, <2>3, Zenon
  <2>q. QED
    BY <1>6, <2>1, <2>4, Zenon
<1>q. QED
  BY <1>7, <1>8, <1>12, <1>13, <1>14 DEF Pump

\* Every step keeps the types.
LEMMA TypeStep ==
  ASSUME Configured, StreamInv, [Next]_vars
  PROVE  TypeOK'
<1>1. TypeOK /\ \A d \in Dirs : Streaming(d)
  BY DEF StreamInv
<1>2. ASSUME NEW d \in Dirs, Send(d)
      PROVE  TypeOK'
  <2>1. /\ sent' = [sent EXCEPT ![d] = @ + 1] /\ sent[d] < Bytes[d]
        /\ rwake' = [rwake EXCEPT ![d] = FALSE] /\ sched' = (sched \/ rwake[d])
        /\ UNCHANGED <<fin, window, slow, broken, closing, halves, poll, wwake, timers, history>>
    BY <1>2, Zenon DEF Send, WakeIf
  <2>2. /\ sent \in [Dirs -> Nat] /\ Bytes \in [Dirs -> Nat]
        /\ taken \in [Dirs -> Nat] /\ rwake \in [Dirs -> BOOLEAN]
        /\ \A e \in Dirs : sent[e] <= Bytes[e] /\ taken[e] <= sent[e]
    BY <1>1, Zenon DEF TypeOK, Configured
  <2>3. sent' \in [Dirs -> Nat] /\ \A e \in Dirs : sent'[e] <= Bytes[e] /\ taken[e] <= sent'[e]
    BY <2>1, <2>2
  <2>4. rwake' \in [Dirs -> BOOLEAN] /\ sched' \in BOOLEAN
    BY <2>1, <2>2
  <2>q. QED
    BY <1>1, <2>1, <2>3, <2>4, Zenon DEF TypeOK, halves, poll, timers, history
<1>3. ASSUME NEW d \in Dirs, Finish(d) \/ Drain(d)
      PROVE  TypeOK'
  <2>1. CASE Finish(d)
    <3>1. fin' \in [Dirs -> BOOLEAN] /\ rwake' \in [Dirs -> BOOLEAN] /\ sched' \in BOOLEAN
      BY <1>1, <2>1, Zenon DEF Finish, WakeIf, TypeOK
    <3>q. QED
      BY <1>1, <2>1, <3>1, Zenon DEF Finish, TypeOK, halves, poll, timers, history
  <2>2. CASE Drain(d)
    <3>1. window \in [Dirs -> 0 .. Room] /\ Room \in Nat
      BY <1>1, Zenon DEF TypeOK, Configured
    <3>2. window' \in [Dirs -> 0 .. Room]
      BY <2>2, <3>1 DEF Drain
    <3>3. slow' \in [Dirs -> BOOLEAN] /\ wwake' \in [Dirs -> BOOLEAN] /\ sched' \in BOOLEAN
      BY <1>1, <2>2, Zenon DEF Drain, WakeIf, TypeOK
    <3>q. QED
      BY <1>1, <2>2, <3>2, <3>3, Zenon DEF Drain, TypeOK, halves, poll, timers, history
  <2>q. QED
    BY <1>3, <2>1, <2>2
<1>4. ASSUME NEW e \in Ends, Break(e)
      PROVE  TypeOK'
  BY <1>1, <1>4, Zenon DEF TypeOK, Break, WakeIf, halves, poll, timers, history
<1>5. ASSUME Tick
      PROVE  TypeOK'
  <2>1. idle' \in 0 .. Idle /\ half' \in -1 .. HalfClose /\ life' \in -1 .. Life
    BY <1>1, <1>5 DEF TypeOK, Configured, Tick, Down
  <2>2. silent' \in 0 .. 2 * Idle + 1 /\ lone' \in 0 .. HalfClose + 1 /\ age' \in 0 .. Life + 1
    BY <1>1, <1>5 DEF TypeOK, Configured, Tick, UpTo
  <2>3. sched' \in BOOLEAN
    BY <1>1, <1>5, Zenon DEF TypeOK, Tick, WakeIf, Expires
  <2>q. QED
    BY <1>1, <1>5, <2>1, <2>2, <2>3, Zenon DEF TypeOK, Tick, world, halves, poll
<1>6. ASSUME EnterClosing \/ Poll \/ UNCHANGED vars
      PROVE  TypeOK'
  <2>1. CASE EnterClosing
    BY <1>1, <2>1, Zenon DEF TypeOK, EnterClosing, halves, poll, timers, history
  <2>2. CASE Poll
    <3>1. rounds' \in 0 .. MaxRounds
      BY <2>2 DEF Configured, Poll
    <3>q. QED
      BY <1>1, <2>2, <3>1, Zenon DEF TypeOK, Poll, world, halves, timers, history
  <2>3. CASE UNCHANGED vars
    BY <1>1, <2>3, Zenon DEF TypeOK, vars, world, halves, poll, timers, history
  <2>q. QED
    BY <1>6, <2>1, <2>2, <2>3
<1>7. ASSUME NEW why, End(why)
      PROVE  TypeOK'
  BY <1>1, <1>7, Zenon DEF TypeOK, End, world, halves, timers, history
<1>8. ASSUME NextRound
      PROVE  TypeOK'
  <2>1. /\ idle' \in 0 .. Idle /\ half' \in -1 .. HalfClose /\ life' = life
        /\ heard' \subseteq {"idle", "half", "life"} /\ moved' \in BOOLEAN
    <3>1. PollTimers
      BY <1>8 DEF NextRound
    <3>2. HalfNow \in -1 .. HalfClose /\ Moved \in BOOLEAN
      BY <1>1 DEF TypeOK, Configured, HalfNow, Moved
    <3>3. heard' \subseteq {"idle", "half", "life"} /\ half' = HalfNow /\ life' = life
      BY <3>1 DEF PollTimers
    <3>4. idle' \in {Idle, idle} /\ moved' \in {FALSE, Moved}
      BY <3>1, Zenon DEF PollTimers
    <3>5. idle' \in 0 .. Idle
      BY <1>1, <3>4 DEF TypeOK, Configured
    <3>6. moved' \in BOOLEAN
      BY <3>2, <3>4, Zenon
    <3>q. QED
      BY <3>2, <3>3, <3>5, <3>6
  <2>2. /\ rounds' \in 0 .. MaxRounds /\ sched' \in BOOLEAN /\ progress' \in BOOLEAN
        /\ pc' \in {"up", "parked"}
    <3>1. /\ rounds' = IF progress /\ rounds < MaxRounds THEN rounds + 1 ELSE 0
          /\ pc' = IF progress /\ rounds < MaxRounds THEN "up" ELSE "parked"
          /\ sched' \in BOOLEAN /\ progress' = FALSE
      BY <1>8 DEF NextRound, WakeIf
    <3>2. rounds \in 0 .. MaxRounds /\ MaxRounds \in Nat
      BY <1>1, Zenon DEF TypeOK, Configured
    <3>3. rounds' \in 0 .. MaxRounds
      BY <3>1, <3>2
    <3>q. QED
      BY <3>1, <3>3, Zenon
  <2>3. res' \in [Dirs -> {"pending", "more", "done", "Src", "Dst", "WriteZero"}]
    BY <1>8, Zenon DEF NextRound, Each
  <2>4. UNCHANGED <<world, halves, rwake, wwake, history>>
    BY <1>8 DEF NextRound
  <2>q. QED
    BY <1>1, <2>1, <2>2, <2>3, <2>4, Zenon DEF TypeOK, world, halves, history
<1>9. ASSUME Rest
      PROVE  TypeOK'
  BY <1>7, <1>8, <1>9
     DEF Rest, FailUp, FailDown, Complete, Close, LifetimeCap, HalfCloseTimeout, IdleTimeout
<1>10. ASSUME NEW d \in Dirs, Pump(d)
       PROVE  TypeOK'
  BY <1>1, <1>10, PumpType
<1>11. "up" \in Dirs /\ "down" \in Dirs
  BY DEF Dirs
<1>q. QED
  BY <1>2, <1>3, <1>4, <1>5, <1>6, <1>9, <1>10, <1>11, Zenon DEF Next, World, Run

\* The reason is set once, from the result of the pump that failed.
LEMMA BlameStep ==
  ASSUME StreamInv, [Next]_vars
  PROVE  BlamesTheSideThatFailed'
<1>1. TypeOK /\ BlamesTheSideThatFailed /\ \A d \in Dirs : Streaming(d)
  BY DEF StreamInv
<1>2. "up" \in Dirs /\ "down" \in Dirs
  BY DEF Dirs
<1>3. ASSUME reason' = reason, \A e \in Ends : broken[e] => broken'[e]
      PROVE  BlamesTheSideThatFailed'
  BY <1>1, <1>3, Zenon DEF BlamesTheSideThatFailed
<1>4. ASSUME NEW d \in Dirs, Failed(d), End(Blame(d))
      PROVE  BlamesTheSideThatFailed'
  <2>1. /\ res[d] = "Src" => broken[Src[d]]
        /\ res[d] = "Dst" => broken[Dst[d]]
    BY <1>1, Zenon DEF Streaming
  <2>2. reason' = Blame(d) /\ broken' = broken
    BY <1>4 DEF End, world
  <2>q. QED
    BY <1>4, <2>1, <2>2 DEF BlamesTheSideThatFailed, Failed, Blame, Ends
<1>5. ASSUME NEW why \in {"ByteCap", "BothEof", "Closing", "LifetimeCap", "HalfCloseTimeout",
                          "IdleTimeout"}, End(why)
      PROVE  BlamesTheSideThatFailed'
  BY <1>5 DEF End, BlamesTheSideThatFailed, Ends
<1>6. CASE World \/ Tick
  <2>1. reason' = reason
    BY <1>6, Zenon DEF World, Send, Finish, Drain, Break, EnterClosing, Tick, poll
  <2>2. \A e \in Ends : broken[e] => broken'[e]
    BY <1>1, <1>6, Zenon DEF World, Send, Finish, Drain, Break, EnterClosing, Tick, world, TypeOK
  <2>q. QED
    BY <1>3, <2>1, <2>2
<1>7. CASE Poll \/ NextRound \/ UNCHANGED vars
  BY <1>3, <1>7, Zenon DEF Poll, NextRound, vars, poll, world
<1>8. ASSUME NEW d \in Dirs, Pump(d)
      PROVE  BlamesTheSideThatFailed'
  BY <1>1, <1>3, <1>8, PumpFrame, Zenon
<1>9. CASE Rest
  BY <1>2, <1>4, <1>5, <1>7, <1>9, Zenon
     DEF Rest, FailUp, FailDown, Complete, Close, LifetimeCap, HalfCloseTimeout, IdleTimeout
<1>q. QED
  BY <1>2, <1>6, <1>7, <1>8, <1>9 DEF Next, Run

\* The stream invariant is inductive.
LEMMA StreamStep ==
  ASSUME Configured, StreamInv, [Next]_vars
  PROVE  StreamInv'
<1>1. TypeOK' /\ BlamesTheSideThatFailed'
  BY TypeStep, BlameStep
<1>2. ASSUME NEW d \in Dirs
      PROVE  Streaming(d)'
  <2>1. TypeOK /\ Streaming(d)
    BY DEF StreamInv
  <2>2. Still(d) \/ Pump(d)
    BY <2>1, StepDirection
  <2>q. QED
    BY <2>1, <2>2, StillStreams, PumpStreams
<1>q. QED
  BY <1>1, <1>2 DEF StreamInv

\* A future that was just made has moved nothing.
LEMMA StreamInit ==
  ASSUME Configured, Init
  PROVE  StreamInv
<1>1. TypeOK
  <2>1. /\ sent \in [Dirs -> Nat] /\ fin \in [Dirs -> BOOLEAN]
        /\ slow \in [Dirs -> BOOLEAN] /\ broken \in [Ends -> BOOLEAN] /\ closing \in BOOLEAN
    BY Zenon DEF Init, Each
  <2>7. window \in [Dirs -> 0 .. Room]
    BY DEF Configured, Init, Each
  <2>5. \A d \in Dirs : sent[d] <= Bytes[d] /\ taken[d] <= sent[d]
    BY DEF Configured, Init, Each
  <2>2. /\ taken \in [Dirs -> Nat] /\ hold \in [Dirs -> BOOLEAN] /\ written \in [Dirs -> Nat]
        /\ eof \in [Dirs -> BOOLEAN] /\ shut \in [Dirs -> BOOLEAN] /\ capped \in [Dirs -> BOOLEAN]
        /\ DOMAIN filled = Dirs /\ DOMAIN out = Dirs
    BY Zenon DEF Init, Each
  <2>6. rounds \in 0 .. MaxRounds
    BY DEF Configured, Init
  <2>3. /\ pc = "parked"
        /\ res \in [Dirs -> {"pending", "more", "done", "Src", "Dst", "WriteZero"}]
        /\ progress \in BOOLEAN /\ moved \in BOOLEAN /\ sched \in BOOLEAN
        /\ rwake \in [Dirs -> BOOLEAN] /\ wwake \in [Dirs -> BOOLEAN]
    BY Zenon DEF Configured, Init, Each
  <2>4. /\ idle \in 0 .. Idle /\ half \in -1 .. HalfClose /\ life \in -1 .. Life
        /\ heard \subseteq {"idle", "half", "life"}
        /\ silent \in 0 .. 2 * Idle + 1 /\ lone \in 0 .. HalfClose + 1 /\ age \in 0 .. Life + 1
    BY DEF Configured, Init
  <2>q. QED
    BY <2>1, <2>2, <2>3, <2>4, <2>5, <2>6, <2>7, Zenon DEF TypeOK
<1>2. BlamesTheSideThatFailed
  BY Zenon DEF Init, BlamesTheSideThatFailed, Ends
<1>3. ASSUME NEW d \in Dirs
      PROVE  Streaming(d)
  <2>1. Stretch(0, 0) = <<>> /\ 0 - 0 = 0 /\ 0 - 0 + 0 = 0
    BY StretchLen
  <2>2. /\ taken[d] = 0 /\ written[d] = 0 /\ filled[d] = <<>> /\ out[d] = <<>>
        /\ ~hold[d] /\ ~eof[d] /\ ~shut[d] /\ res[d] = "pending"
    BY Zenon DEF Init, Each
  <2>3. 0 \in 0 .. Chunk /\ (Cap > 0 => 0 < Cap + Chunk)
    BY DEF Configured
  <2>q. QED
    BY <2>1, <2>2, <2>3 DEF Streaming
<1>q. QED
  BY <1>1, <1>2, <1>3 DEF StreamInv

\* What the stream invariant says of what was delivered.
LEMMA StreamMeans ==
  ASSUME Configured, StreamInv
  PROVE  StreamFaithful
<1>1. TypeOK /\ BlamesTheSideThatFailed
  BY DEF StreamInv
<1>2. ASSUME NEW d \in Dirs
      PROVE  /\ out[d] \o Pending(d) = Stretch(0, taken[d])
             /\ taken[d] - Len(out[d]) <= Chunk
             /\ hold[d] => Pending(d) # <<>>
             /\ shut[d] /\ ~capped[d] => fin[d] /\ out[d] = Stretch(0, sent[d])
  <2>1. Streaming(d)
    BY DEF StreamInv
  <2>2. PICK n \in 0 .. Chunk :
          /\ n <= taken[d] /\ written[d] <= n
          /\ filled[d] = Stretch(taken[d] - n, n)
          /\ out[d] = Stretch(0, taken[d] - n + written[d])
          /\ hold[d] => written[d] < n
          /\ eof[d] => n = 0
    BY <2>1, Zenon DEF Streaming
  <2> DEFINE a == taken[d] - n + written[d]
             m == n - written[d]
  <2>3. /\ a \in Nat /\ m \in Nat /\ taken[d] = a + m /\ m <= Chunk
        /\ n = 0 => written[d] = 0 /\ a = taken[d]
    BY <1>1, <2>2 DEF TypeOK, Configured
  <2>4. Pending(d) = Stretch(a, m) /\ (Pending(d) = <<>> <=> n = written[d]) /\ out[d] = Stretch(0, a)
    BY <1>1, <2>2, Unwritten, Zenon
  <2>5. hold[d] => Pending(d) # <<>>
    BY <1>1, <2>2, <2>4 DEF TypeOK, Configured
  <2>6. eof[d] => out[d] = Stretch(0, taken[d])
    BY <2>2, <2>3, <2>4, Zenon
  <2>7. shut[d] /\ ~capped[d] => eof[d] /\ fin[d] /\ taken[d] = sent[d]
    BY <2>1, Zenon DEF Streaming
  <2> HIDE DEF a, m
  <2>8. out[d] \o Pending(d) = Stretch(0, taken[d])
    BY <2>3, <2>4, WritesAll, Zenon
  <2>9. Len(out[d]) = a
    BY <2>3, <2>4, StretchLen
  <2>10. taken[d] - Len(out[d]) <= Chunk
    BY <2>3, <2>9 DEF Configured
  <2>q. QED
    BY <2>5, <2>6, <2>7, <2>8, <2>10, Zenon
<1>q. QED
  BY <1>1, <1>2, Zenon
     DEF StreamFaithful, BytesConserved, NoTruncation, OneChunkInFlight, IdleHoldsNothing

\* Whatever the chunk, the windows and the limits, and however the peers, the
\* clock and the phase interleave with the two pumps: no byte is lost, repeated
\* or reordered, no destination is shut before it has them all, at most one
\* chunk is in flight and no error is blamed on a healthy side.
THEOREM StreamIsFaithful ==
  ASSUME Configured
  PROVE  Spec => []StreamFaithful
<1>1. Init => StreamInv
  BY StreamInit
<1>2. StreamInv /\ [Next]_vars => StreamInv'
  BY StreamStep
<1>3. StreamInv => StreamFaithful
  BY StreamMeans
<1>q. QED
  BY <1>1, <1>2, <1>3, PTL DEF Spec

\* A buffer has nothing left to write when it has been written to its end.
LEMMA SliceEmpty ==
  ASSUME NEW a \in Nat, NEW n \in Nat, NEW w \in Nat, w <= n
  PROVE  Slice(Stretch(a, n), w, n) = <<>> <=> n = w
<1>1. Slice(Stretch(a, n), w, n) = Stretch(a + w, n - w)
  BY StretchSub
<1>2. a + w \in Nat /\ n - w \in Nat /\ (n - w = 0 <=> n = w)
  OBVIOUS
<1>q. QED
  BY <1>1, <1>2, StretchLen

\* A pump of the other direction touches nothing this one watches.
LEMMA PumpOther ==
  ASSUME TypeOK, NEW d \in Dirs, NEW e \in Dirs, d # e, Pump(d)
  PROVE  /\ filled'[e] = filled[e] /\ written'[e] = written[e]
         /\ taken'[e] = taken[e] /\ eof'[e] = eof[e] /\ shut'[e] = shut[e]
         /\ window'[e] = window[e] /\ res'[e] = res[e]
         /\ rwake'[e] = rwake[e] /\ wwake'[e] = wwake[e]
<1> USE DEF TypeOK
<1>1. CASE WriteFails(d)
  BY <1>1 DEF WriteFails, Returns, world, halves
<1>2. CASE WriteStalls(d)
  BY <1>2, Zenon DEF WriteStalls, Write
<1>3. CASE ReadPending(d)
  BY <1>3, Zenon DEF ReadPending, Flushed, Release
<1>4. CASE ReadFails(d)
  BY <1>4, Zenon DEF ReadFails, Flushed, Release
<1>5. CASE ReadBytes(d)
  BY <1>5 DEF ReadBytes, Flushed
<1>6. CASE ShutDown(d)
  BY <1>6, Zenon DEF ShutDown, Flushed, Release
<1>q. QED
  BY <1>1, <1>2, <1>3, <1>4, <1>5, <1>6, Zenon DEF Pump

\* A pump that returns without having failed or made progress has registered
\* with whatever holds it up.
LEMMA PumpWatches ==
  ASSUME Configured, TypeOK, NEW d \in Dirs, Streaming(d), Pump(d)
  PROVE  /\ res'[d] \in {"pending", "done"} => Watching(d)'
         /\ res'[d] = "more" => progress'
<1>1. CASE WriteFails(d)
  BY <1>1 DEF WriteFails, Returns, TypeOK
<1>2. CASE WriteStalls(d)
  <2>1. PICK n \in 0 .. Chunk :
          /\ n <= taken[d] /\ written[d] <= n
          /\ filled[d] = Stretch(taken[d] - n, n)
    BY Zenon DEF Streaming
  <2>2. Len(Pending(d)) = n - written[d]
    BY <2>1, Unwritten, Zenon
  <2>3. /\ window[d] < n - written[d] /\ written'[d] = written[d] + window[d]
        /\ filled'[d] = filled[d] /\ window'[d] = 0 /\ wwake'[d] /\ ~broken'[Dst[d]]
        /\ res'[d] = "pending"
    BY <1>2, <2>2, Zenon DEF WriteStalls, TypeOK
  <2> DEFINE a == taken[d] - n
             w == written'[d]
  <2>4. a \in Nat /\ n \in Nat /\ w \in Nat /\ w <= n /\ w # n
    <3>1. n <= taken[d] /\ written[d] <= n /\ n \in 0 .. Chunk
      BY <2>1
    <3>2. window[d] < n - written[d] /\ w = written[d] + window[d]
      BY <2>3, Zenon
    <3>3. taken[d] \in Nat /\ written[d] \in Nat /\ window[d] \in Nat /\ Chunk \in Nat
      BY DEF TypeOK, Configured
    <3> HIDE DEF w
    <3>q. QED
      BY <3>1, <3>2, <3>3
  <2>5. filled'[d] = Stretch(a, n)
    BY <2>1, <2>3, Zenon
  <2>6. Pending(d)' = Slice(filled'[d], w, Len(filled'[d]))
    BY Zenon DEF Pending
  <2> HIDE DEF a, w
  <2>7. Len(filled'[d]) = n
    BY <2>4, <2>5, StretchLen
  <2>8. Slice(Stretch(a, n), w, n) # <<>>
    BY <2>4, SliceEmpty
  <2>9. Pending(d)' # <<>>
    BY <2>5, <2>6, <2>7, <2>8
  <2>q. QED
    BY <2>3, <2>9, Zenon DEF Watching
<1>3. ASSUME Release(d)
      PROVE  Pending(d)' = <<>>
  <2>1. filled'[d] = <<>> /\ written'[d] = 0
    BY <1>3, Zenon DEF Release, TypeOK
  <2>2. Slice(<<>>, 0, Len(<<>>)) = <<>>
    BY DEF Slice
  <2>q. QED
    BY <2>1, <2>2, Zenon DEF Pending
<1>4. CASE ReadPending(d)
  <2>1. Pending(d)' = <<>>
    BY <1>3, <1>4, Zenon DEF ReadPending
  <2>2. /\ ~eof'[d] /\ rwake'[d] /\ sent'[d] - taken'[d] = 0 /\ ~fin'[d] /\ ~broken'[Src[d]]
        /\ res'[d] = "pending"
    BY <1>4, Zenon DEF ReadPending, Flushed, Ended, Available, TypeOK
  <2>q. QED
    BY <2>1, <2>2, Zenon DEF Watching, Available
<1>5. CASE ReadFails(d)
  BY <1>5, Zenon DEF ReadFails, TypeOK
<1>6. CASE ReadBytes(d)
  BY <1>6, Zenon DEF ReadBytes, Progress, TypeOK
<1>7. CASE ShutDown(d)
  <2>1. Pending(d)' = <<>>
    BY <1>3, <1>7, Zenon DEF ShutDown
  <2>2. /\ eof'[d] /\ slow'[d] = slow[d] /\ res'[d] # "more"
        /\ shut'[d] \/ (slow[d] /\ wwake'[d])
    BY <1>7, Zenon DEF ShutDown, Flushed, TypeOK
  <2>q. QED
    BY <2>1, <2>2, Zenon DEF Watching
<1>q. QED
  BY <1>1, <1>2, <1>4, <1>5, <1>6, <1>7, Zenon DEF Pump

\* What the world does to a direction that is being watched wakes the future.
LEMMA WorldWakes ==
  ASSUME TypeOK, NEW d \in Dirs, World \/ Tick, Watching(d)
  PROVE  sched' \/ Watching(d)'
<1>1. halves' = halves /\ Pending(d)' = Pending(d)
  BY Zenon DEF World, Tick, Send, Finish, Drain, Break, EnterClosing, halves, Pending
<1>2. ASSUME UNCHANGED <<sent, fin, window, slow, broken, rwake, wwake>>
      PROVE  Watching(d)'
  BY <1>1, <1>2, Zenon DEF Watching, Available, halves
<1>3. CASE Tick \/ EnterClosing
  BY <1>2, <1>3, Zenon DEF Tick, EnterClosing, world
<1>4. ASSUME NEW e \in Dirs, Send(e) \/ Finish(e)
      PROVE  sched' \/ Watching(d)'
  <2>1. /\ UNCHANGED <<window, slow, broken, wwake>>
        /\ rwake[e] => sched'
        /\ d # e => sent'[d] = sent[d] /\ fin'[d] = fin[d] /\ rwake'[d] = rwake[d]
    <3>1. CASE Send(e)
      BY <3>1, Zenon DEF Send, WakeIf, TypeOK
    <3>2. CASE Finish(e)
      BY <3>2, Zenon DEF Finish, WakeIf, TypeOK
    <3>q. QED
      BY <1>4, <3>1, <3>2, Zenon
  <2>q. QED
    BY <1>1, <2>1, Zenon DEF Watching, Available, halves
<1>5. ASSUME NEW e \in Dirs, Drain(e)
      PROVE  sched' \/ Watching(d)'
  <2>1. /\ UNCHANGED <<sent, fin, broken, rwake>>
        /\ wwake[e] => sched'
        /\ d # e => window'[d] = window[d] /\ slow'[d] = slow[d] /\ wwake'[d] = wwake[d]
        /\ ~wwake[e] => ~wwake'[e]
    BY <1>5, Zenon DEF Drain, WakeIf, TypeOK
  <2>q. QED
    BY <1>1, <2>1, Zenon DEF Watching, Available, halves
<1>6. ASSUME NEW e \in Ends, Break(e)
      PROVE  sched' \/ Watching(d)'
  <2>1. /\ UNCHANGED <<sent, fin, window, slow>>
        /\ Src[d] = e /\ rwake[d] => sched'
        /\ Dst[d] = e /\ wwake[d] => sched'
        /\ Src[d] # e => rwake'[d] = rwake[d] /\ broken'[Src[d]] = broken[Src[d]]
        /\ Dst[d] # e => wwake'[d] = wwake[d] /\ broken'[Dst[d]] = broken[Dst[d]]
    <3>1. Src[d] \in Ends /\ Dst[d] \in Ends
      BY DEF Src, Dst, Dirs, Ends
    <3>2. Src[d] = e /\ rwake[d] => sched'
      BY <1>6, Zenon DEF Break, WakeIf
    <3>3. Dst[d] = e /\ wwake[d] => sched'
      BY <1>6, Zenon DEF Break, WakeIf
    <3>4. /\ Src[d] # e => rwake'[d] = rwake[d]
          /\ Dst[d] # e => wwake'[d] = wwake[d]
      BY <1>6, Zenon DEF Break, TypeOK
    <3>5. /\ Src[d] # e => broken'[Src[d]] = broken[Src[d]]
          /\ Dst[d] # e => broken'[Dst[d]] = broken[Dst[d]]
      BY <1>6, <3>1, Zenon DEF Break, TypeOK
    <3>q. QED
      BY <1>6, <3>2, <3>3, <3>4, <3>5, Zenon DEF Break
  <2>q. QED
    BY <1>1, <2>1, Zenon DEF Watching, Available, halves
<1>q. QED
  BY <1>3, <1>4, <1>5, <1>6 DEF World

\* The watch invariant is inductive.
LEMMA WatchStep ==
  ASSUME Configured, StreamInv, WatchInv, [Next]_vars
  PROVE  WatchInv'
<1>1. TypeOK /\ \A d \in Dirs : Streaming(d)
  BY DEF StreamInv
<1>2. "up" \in Dirs /\ "down" \in Dirs /\ \A d \in Dirs : d = "up" \/ d = "down"
  BY DEF Dirs
<1>3. ASSUME pc' \in {"up", "ended"}
      PROVE  WatchInv'
  BY <1>3 DEF WatchInv, Pumped, ParkedIsWatching
<1>4. CASE UNCHANGED vars
  BY <1>4, Zenon DEF vars, world, halves, poll, timers, history, WatchInv, Pumped, ParkedIsWatching,
              Watching, DeadlinesHeard, Pending, Available
<1>5. CASE World \/ Tick
  <2>1. UNCHANGED poll
    BY <1>5, Zenon DEF World, Tick, Send, Finish, Drain, Break, EnterClosing
  <2>2. sched => sched'
    BY <1>5, Zenon DEF World, Tick, Send, Finish, Drain, Break, EnterClosing, WakeIf
  <2>3. \A d \in Dirs : Watching(d) => sched' \/ Watching(d)'
    BY <1>1, <1>5, WorldWakes
  <2>4. heard' = heard /\ (half' = -1 <=> half = -1) /\ (life' = -1 <=> life = -1)
    <3>1. half \in -1 .. HalfClose /\ life \in -1 .. Life /\ HalfClose \in Nat /\ Life \in Nat
      BY <1>1, Zenon DEF TypeOK, Configured
    <3>2. CASE World
      BY <3>2, Zenon DEF World, Send, Finish, Drain, Break, EnterClosing, timers
    <3>3. CASE Tick
      BY <3>1, <3>3 DEF Tick, Down
    <3>q. QED
      BY <1>5, <3>2, <3>3
  <2>5. ASSUME NEW d \in Dirs, Pumped(d)'
        PROVE  /\ res'[d] \in {"pending", "done"} => sched' \/ Watching(d)'
               /\ res'[d] = "more" => progress'
    <3>1. Pumped(d)
      BY <2>1, <2>5 DEF Pumped, poll
    <3>q. QED
      BY <2>1, <2>2, <2>3, <3>1 DEF WatchInv, poll
  <2>6. ParkedIsWatching'
    BY <2>1, <2>2, <2>3, <2>4, Zenon DEF WatchInv, ParkedIsWatching, DeadlinesHeard, poll
  <2>q. QED
    BY <2>5, <2>6, Zenon DEF WatchInv
<1>6. CASE Poll
  BY <1>3, <1>6, Zenon DEF Poll
<1>7. ASSUME NEW d \in Dirs, Pump(d)
      PROVE  WatchInv'
  <2>1. /\ pc = d /\ pc' = After(d) /\ UNCHANGED <<sent, fin, slow, broken, sched>>
        /\ progress => progress'
    BY <1>1, <1>7, PumpFrame, Zenon
  <2>2. /\ res'[d] \in {"pending", "done"} => Watching(d)'
        /\ res'[d] = "more" => progress'
    BY <1>1, <1>7, PumpWatches
  <2>3. ParkedIsWatching'
    BY <1>2, <2>1 DEF ParkedIsWatching, After
  <2>4. ASSUME NEW e \in Dirs, e # d, Pumped(e)'
        PROVE  /\ res'[e] \in {"pending", "done"} => sched' \/ Watching(e)'
               /\ res'[e] = "more" => progress'
    <3>1. /\ filled'[e] = filled[e] /\ written'[e] = written[e]
          /\ taken'[e] = taken[e] /\ eof'[e] = eof[e] /\ shut'[e] = shut[e]
          /\ window'[e] = window[e] /\ res'[e] = res[e]
          /\ rwake'[e] = rwake[e] /\ wwake'[e] = wwake[e]
      BY <1>1, <1>7, <2>4, PumpOther, Zenon
    <3>2. Watching(e) => Watching(e)'
      BY <2>1, <3>1, Zenon DEF Watching, Pending, Available
    <3>3. Pumped(e)
      BY <1>2, <2>1, <2>4 DEF Pumped, After
    <3>q. QED
      BY <2>1, <3>1, <3>2, <3>3, Zenon DEF WatchInv
  <2>q. QED
    BY <2>2, <2>3, <2>4, Zenon DEF WatchInv
<1>8. ASSUME NEW why, End(why)
      PROVE  WatchInv'
  BY <1>3, <1>8 DEF End
<1>9. CASE NextRound
  <2>1. pc = "rest" /\ NoneFailed /\ PollTimers /\ UNCHANGED <<world, halves, rwake, wwake>>
    BY <1>9 DEF NextRound, NoDeadline, Goes
  <2>2. /\ pc' \in {"up", "parked"}
        /\ pc' = "parked" /\ ~sched' => ~progress /\ ~sched
    BY <1>1, <1>9, Zenon DEF NextRound, WakeIf, TypeOK
  <2>3. DeadlinesHeard'
    BY <2>1 DEF DeadlinesHeard, PollTimers
  <2>4. ASSUME NEW d \in Dirs, ~progress, ~sched
        PROVE  Watching(d)'
    <3>1. res[d] \in {"pending", "more", "done"}
      BY <1>1, <1>2, <2>1 DEF NoneFailed, Failed, TypeOK
    <3>2. Watching(d)
      BY <2>1, <2>4, <3>1 DEF WatchInv, Pumped
    <3>q. QED
      BY <2>1, <3>2, Zenon DEF Watching, Pending, Available, world, halves
  <2>q. QED
    BY <2>2, <2>3, <2>4, Zenon DEF WatchInv, Pumped, ParkedIsWatching
<1>10. CASE Rest
  BY <1>8, <1>9, <1>10, Zenon
     DEF Rest, FailUp, FailDown, Complete, Close, LifetimeCap, HalfCloseTimeout, IdleTimeout
<1>q. QED
  BY <1>2, <1>4, <1>5, <1>6, <1>7, <1>10 DEF Next, Run

\* Whatever wakes a connection is registered before it parks: no lost wakeup
\* of a direction and no unheard deadline, whatever the peers do while the two
\* pumps and the timers are being polled.
THEOREM ParkedFutureIsWatching ==
  ASSUME Configured
  PROVE  Spec => []ParkedIsWatching
<1>1. Init => StreamInv
  BY StreamInit
<1>2. Init => WatchInv
  BY Zenon DEF Init, WatchInv, Pumped, ParkedIsWatching
<1>3. StreamInv /\ [Next]_vars => StreamInv'
  BY StreamStep
<1>4. StreamInv /\ WatchInv /\ [Next]_vars => WatchInv'
  BY WatchStep
<1>5. WatchInv => ParkedIsWatching
  BY DEF WatchInv
<1>q. QED
  BY <1>1, <1>2, <1>3, <1>4, <1>5, PTL DEF Spec

\* The clock: a tick finds no timer already out, and one that runs out is heard.
LEMMA TickTimers ==
  ASSUME Configured, TypeOK, WatchInv, TimerInv, Tick
  PROVE  TimerInv'
<1>1. /\ pc = "parked" /\ ~sched /\ UNCHANGED <<pc, reason, progress, moved, eof>>
      /\ idle' = Down(idle) /\ half' = Down(half) /\ life' = Down(life)
  BY Zenon DEF Tick, poll, halves
<1>2. /\ Idle \in Nat /\ Idle > 0 /\ HalfClose \in Nat /\ Life \in Nat
      /\ idle \in 0 .. Idle /\ half \in -1 .. HalfClose /\ life \in -1 .. Life
      /\ silent \in Nat /\ lone \in Nat /\ age \in Nat
  BY DEF Configured, TypeOK
<1>3. /\ reason = "none" /\ ~progress /\ (eof["up"] # eof["down"] => half # -1)
      /\ idle # 0 /\ half # 0 /\ life # 0
  BY <1>1, Zenon DEF TimerInv
<1>4. /\ idle = 1 => sched'
      /\ half = 1 => sched'
      /\ life = 1 => sched'
  <2>1. /\ "idle" \in heard
        /\ half # -1 => "half" \in heard
        /\ life # -1 => "life" \in heard
    BY <1>1, Zenon DEF WatchInv, ParkedIsWatching, DeadlinesHeard
  <2>2. 1 # -1
    OBVIOUS
  <2>3. /\ Expires(idle, "idle") => sched'
        /\ Expires(half, "half") => sched'
        /\ Expires(life, "life") => sched'
    BY Zenon DEF Tick, WakeIf
  <2>4. idle = 1 => sched'
    BY <2>1, <2>3 DEF Expires
  <2>5. half = 1 => sched'
    BY <2>1, <2>2, <2>3 DEF Expires
  <2>6. life = 1 => sched'
    BY <2>1, <2>2, <2>3 DEF Expires
  <2>q. QED
    BY <2>4, <2>5, <2>6
<1>5. /\ idle' = idle - 1
      /\ half' = IF half = -1 THEN -1 ELSE half - 1
      /\ life' = IF life = -1 THEN -1 ELSE life - 1
  BY <1>1, <1>2, <1>3 DEF Down
<1>6. ~sched' => idle' # 0 /\ half' # 0 /\ life' # 0
  BY <1>2, <1>3, <1>4, <1>5
<1>7. silent' \in Nat /\ silent' <= silent + 1 /\ (silent <= 2 * Idle => silent' = silent + 1)
  BY <1>2 DEF Tick, UpTo
<1>8. IF moved' \/ progress' THEN silent' <= Idle - idle'
      ELSE Idle - idle' <= silent' /\ silent' <= 2 * Idle - idle'
  <2>1. CASE moved
    BY <1>1, <1>2, <1>5, <1>7, <2>1 DEF TimerInv
  <2>2. CASE ~moved
    <3>1. Idle - idle <= silent /\ silent <= 2 * Idle - idle
      BY <1>3, <2>2, Zenon DEF TimerInv
    <3>2. silent' = silent + 1
      BY <1>2, <1>7, <3>1
    <3>q. QED
      BY <1>1, <1>2, <1>3, <1>5, <2>2, <3>1, <3>2
  <2>q. QED
    BY <2>1, <2>2
<1>9. IF half' = -1 THEN lone' = 0 ELSE lone' <= HalfClose - half'
  <2>1. CASE half = -1
    <3>1. lone = 0
      BY <2>1 DEF TimerInv
    <3>2. lone' = UpTo(0, HalfClose + 1)
      BY <1>3, <2>1, <3>1, Zenon DEF Tick
    <3>3. lone' = 0
      BY <1>2, <3>2 DEF UpTo
    <3>q. QED
      BY <1>5, <2>1, <3>3
  <2>2. CASE half # -1
    <3>1. lone <= HalfClose - half
      BY <2>2, Zenon DEF TimerInv
    <3>2. lone' \in Nat /\ lone' <= lone + 1
      BY <1>2 DEF Tick, UpTo
    <3>3. half' = half - 1 /\ half' # -1
      BY <1>2, <1>3, <1>5, <2>2
    <3>q. QED
      BY <1>2, <3>1, <3>2, <3>3
  <2>q. QED
    BY <2>1, <2>2
<1>10. IF Life = 0 THEN life' = -1 /\ age' = 0 ELSE life' >= 0 /\ age' <= Life - life'
  <2>1. CASE Life = 0
    BY <1>5, <2>1, Zenon DEF TimerInv, Tick
  <2>2. CASE Life # 0
    <3>1. life >= 0 /\ age <= Life - life
      BY <2>2, Zenon DEF TimerInv
    <3>2. age' \in Nat /\ age' <= age + 1
      BY <1>2, <2>2 DEF Tick, UpTo
    <3>q. QED
      BY <1>2, <1>3, <1>5, <2>2, <3>1, <3>2
  <2>q. QED
    BY <2>1, <2>2
<1>11. eof'["up"] # eof'["down"] => half' # -1
  BY <1>1, <1>2, <1>3, <1>5
<1>q. QED
  BY <1>1, <1>3, <1>6, <1>8, <1>9, <1>10, <1>11, Zenon DEF TimerInv

\* The end of a round: re-arming forgives at most the period that had progress.
LEMMA RoundTimers ==
  ASSUME Configured, TypeOK, TimerInv, NextRound
  PROVE  TimerInv'
<1>1. /\ pc = "rest" /\ half' = HalfNow /\ HalfNow # 0 /\ life # 0 /\ life' = life
      /\ UNCHANGED <<reason, eof, silent, lone, age>> /\ progress' = FALSE
      /\ pc' \in {"up", "parked"}
  BY Zenon DEF NextRound, NoDeadline, PollTimers, halves, history
<1>2. /\ Idle \in Nat /\ Idle > 0 /\ HalfClose \in Nat /\ Life \in Nat
      /\ idle \in 0 .. Idle /\ half \in -1 .. HalfClose /\ life \in -1 .. Life
      /\ silent \in Nat /\ lone \in Nat /\ age \in Nat
      /\ moved \in BOOLEAN /\ progress \in BOOLEAN
  BY DEF Configured, TypeOK
<1>3. reason = "none"
  BY <1>1, Zenon DEF TimerInv
<1>4. \/ idle = 0 /\ (moved \/ progress) /\ idle' = Idle /\ ~moved'
      \/ idle # 0 /\ idle' = idle /\ moved' = (moved \/ progress)
  BY Zenon DEF NextRound, PollTimers, Moved
<1>5. idle' # 0
  BY <1>2, <1>4
<1>6. IF moved' \/ progress' THEN silent' <= Idle - idle'
      ELSE Idle - idle' <= silent' /\ silent' <= 2 * Idle - idle'
  <2>1. CASE idle = 0
    <3>1. silent <= Idle - idle
      BY <1>4, <2>1, Zenon DEF TimerInv
    <3>q. QED
      BY <1>1, <1>2, <1>4, <2>1, <3>1
  <2>2. CASE idle # 0
    BY <1>1, <1>4, <2>2, Zenon DEF TimerInv
  <2>q. QED
    BY <2>1, <2>2
<1>7. /\ IF half' = -1 THEN lone' = 0 ELSE lone' <= HalfClose - half'
      /\ eof'["up"] # eof'["down"] => half' # -1
  <2>1. CASE eof["up"] # eof["down"] /\ half = -1
    <3>1. lone = 0 /\ half' = HalfClose
      BY <1>1, <2>1, Zenon DEF TimerInv, HalfNow
    <3>q. QED
      BY <1>1, <1>2, <3>1
  <2>2. CASE ~(eof["up"] # eof["down"] /\ half = -1)
    <3>1. half' = half
      BY <1>1, <2>2, Zenon DEF HalfNow
    <3>q. QED
      BY <1>1, <2>2, <3>1, Zenon DEF TimerInv
  <2>q. QED
    BY <2>1, <2>2, Zenon
<1>8. IF Life = 0 THEN life' = -1 /\ age' = 0 ELSE life' >= 0 /\ age' <= Life - life'
  BY <1>1, Zenon DEF TimerInv
<1>q. QED
  BY <1>1, <1>3, <1>5, <1>6, <1>7, <1>8, Zenon DEF TimerInv

\* The timer invariant is inductive.
LEMMA TimerStep ==
  ASSUME Configured, StreamInv, WatchInv, TimerInv, [Next]_vars
  PROVE  TimerInv'
<1>1. TypeOK
  BY DEF StreamInv
<1>2. "up" \in Dirs /\ "down" \in Dirs
  BY DEF Dirs
<1>3. CASE UNCHANGED vars
  BY <1>3, Zenon DEF vars, world, halves, poll, timers, history, TimerInv
<1>4. CASE World
  <2>1. UNCHANGED <<poll, timers, history, halves>> /\ (sched => sched')
    <3>1. ASSUME NEW d \in Dirs, Send(d) \/ Finish(d) \/ Drain(d)
          PROVE  UNCHANGED <<poll, timers, history, halves>> /\ (sched => sched')
      BY <3>1, Zenon DEF Send, Finish, Drain, WakeIf
    <3>2. ASSUME NEW e \in Ends, Break(e)
          PROVE  UNCHANGED <<poll, timers, history, halves>> /\ (sched => sched')
      BY <3>2, Zenon DEF Break, WakeIf
    <3>q. QED
      BY <1>4, <3>1, <3>2 DEF World, EnterClosing
  <2>2. /\ UNCHANGED <<pc, reason, progress, moved, eof, idle, half, life, silent, lone, age>>
        /\ sched => sched'
    BY <2>1, Zenon DEF poll, timers, history, halves
  <2>q. QED
    BY <2>2, Zenon DEF TimerInv
<1>5. CASE Tick
  BY <1>1, <1>5, TickTimers
<1>6. CASE Poll
  <2>1. /\ pc = "parked" /\ pc' = "up" /\ progress' = FALSE
        /\ UNCHANGED <<halves, moved, reason, timers, history>>
    BY <1>6 DEF Poll
  <2>q. QED
    BY <2>1, Zenon DEF TimerInv, timers, history
<1>7. ASSUME NEW d \in Dirs, Pump(d)
      PROVE  TimerInv'
  <2>1. /\ pc = d /\ pc' = After(d)
        /\ UNCHANGED <<moved, reason, idle, half, life, lone, age>>
        /\ \/ progress' = progress /\ silent' = silent
           \/ progress' = TRUE /\ silent' = 0
    BY <1>1, <1>7, PumpFrame, Zenon
  <2>2. pc # "ended" /\ pc' # "parked"
    BY <2>1 DEF After, Dirs
  <2>3. reason = "none"
    BY <2>2, Zenon DEF TimerInv
  <2>4. 0 <= Idle - idle
    BY <1>1 DEF TypeOK, Configured
  <2>5. IF moved' \/ progress' THEN silent' <= Idle - idle'
        ELSE Idle - idle' <= silent' /\ silent' <= 2 * Idle - idle'
    BY <2>1, <2>4 DEF TimerInv
  <2>q. QED
    BY <2>1, <2>2, <2>3, <2>5, Zenon DEF TimerInv
<1>8. ASSUME NEW why, End(why), why = "IdleTimeout" => idle = 0 /\ ~moved /\ ~progress
      PROVE  TimerInv'
  <2>1. /\ pc' = "ended" /\ reason' = why
        /\ UNCHANGED <<progress, moved, idle, half, life, silent, lone, age>>
    BY <1>8, Zenon DEF End, timers, history
  <2>2. Idle - 0 = Idle /\ silent \in Nat /\ Idle \in Nat
    BY <1>1 DEF TypeOK, Configured
  <2>3. reason' = "IdleTimeout" => silent' >= Idle
    BY <1>8, <2>1, <2>2, Zenon DEF TimerInv
  <2>q. QED
    BY <2>1, <2>3, Zenon DEF TimerInv
<1>9. ASSUME NEW d \in Dirs, Failed(d), End(Blame(d))
      PROVE  TimerInv'
  <2>1. Blame(d) # "IdleTimeout"
    BY <1>9 DEF Failed, Blame, Dirs, Src, Dst
  <2>q. QED
    BY <1>8, <1>9, <2>1
<1>10. CASE IdleTimeout
  BY <1>8, <1>10 DEF IdleTimeout, Moved
<1>11. CASE NextRound
  BY <1>1, <1>11, RoundTimers
<1>12. CASE Complete \/ Close \/ LifetimeCap \/ HalfCloseTimeout
  BY <1>8, <1>12 DEF Complete, Close, LifetimeCap, HalfCloseTimeout
<1>13. CASE Rest
  BY <1>2, <1>9, <1>10, <1>11, <1>12, <1>13 DEF Rest, FailUp, FailDown
<1>q. QED
  BY <1>2, <1>3, <1>4, <1>5, <1>6, <1>7, <1>13 DEF Next, Run

\* What the timers and the streams say of the limits.
LEMMA LimitsHold ==
  ASSUME Configured, StreamInv, TimerInv
  PROVE  DeadlinesKept
<1>1. TypeOK
  BY DEF StreamInv
<1>2. /\ Idle \in Nat /\ HalfClose \in Nat /\ Life \in Nat /\ Cap \in Nat /\ Chunk \in Nat
      /\ idle \in 0 .. Idle /\ half \in -1 .. HalfClose /\ life \in -1 .. Life
      /\ silent \in Nat /\ lone \in Nat /\ age \in Nat
  BY <1>1 DEF Configured, TypeOK
<1>3. IdleBounds
  BY <1>2 DEF TimerInv, IdleBounds
<1>4. HalfCloseBound
  BY <1>2 DEF TimerInv, HalfCloseBound
<1>5. LifetimeBound
  BY <1>2 DEF TimerInv, LifetimeBound
<1>6. ByteCapStops
  <2> SUFFICES ASSUME NEW d \in Dirs, Cap > 0
               PROVE  Len(out[d]) < Cap + Chunk
    BY DEF ByteCapStops
  <2>1. PICK n \in 0 .. Chunk :
          /\ n <= taken[d] /\ written[d] <= n
          /\ out[d] = Stretch(0, taken[d] - n + written[d])
    BY Zenon DEF StreamInv, Streaming
  <2>2. taken[d] < Cap + Chunk
    BY Zenon DEF StreamInv, Streaming
  <2> DEFINE a == taken[d] - n + written[d]
  <2>3. a \in Nat /\ a < Cap + Chunk
    BY <1>1, <1>2, <2>1, <2>2 DEF TypeOK
  <2>4. out[d] = Stretch(0, a)
    BY <2>1, Zenon
  <2> HIDE DEF a
  <2>q. QED
    BY <2>3, <2>4, StretchLen, Zenon
<1>q. QED
  BY <1>3, <1>4, <1>5, <1>6 DEF DeadlinesKept

\* For every setting of the limits: a connection is never idle for two idle
\* periods nor ended as idle within one, outlives neither half_close once one
\* side has ended nor max_lifetime, and is cut within a chunk of its byte cap.
THEOREM LimitsAreKept ==
  ASSUME Configured
  PROVE  Spec => []DeadlinesKept
<1>1. Init => StreamInv
  BY StreamInit
<1>2. Init => WatchInv
  BY Zenon DEF Init, WatchInv, Pumped, ParkedIsWatching
<1>3. Init => TimerInv
  <2> HAVE Init
  <2>1. /\ pc = "parked" /\ sched /\ ~progress /\ ~moved /\ reason = "none"
        /\ eof["up"] = eof["down"]
    BY Zenon DEF Init, Each, Dirs
  <2>2. /\ idle = Idle /\ half = -1 /\ silent = 0 /\ lone = 0 /\ age = 0
        /\ life = IF Life = 0 THEN -1 ELSE Life
    BY Zenon DEF Init
  <2>3. Idle \in Nat /\ Life \in Nat
    BY DEF Configured
  <2>q. QED
    BY <2>1, <2>2, <2>3 DEF TimerInv
<1>4. StreamInv /\ [Next]_vars => StreamInv'
  BY StreamStep
<1>5. StreamInv /\ WatchInv /\ [Next]_vars => WatchInv'
  BY WatchStep
<1>6. StreamInv /\ WatchInv /\ TimerInv /\ [Next]_vars => TimerInv'
  BY TimerStep
<1>7. StreamInv /\ TimerInv => DeadlinesKept
  BY LimitsHold
<1>q. QED
  BY <1>1, <1>2, <1>3, <1>4, <1>5, <1>6, <1>7, PTL DEF Spec
==============================================================================
