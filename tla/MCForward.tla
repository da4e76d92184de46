-------------------- MODULE MCForward ----------------------------------------
(* One forwarded connection without and with a lifetime and a byte cap.   *)
(* In a behaviour one of the two moves.                                   *)
EXTENDS Integers

VARIABLES
  part,
  sent, fin, window, slow, broken, closing, taken, hold, filled, written, out,
  eof, shut, capped, pc, rounds, progress, res, moved, sched, rwake, wwake,
  idle, half, life, heard, reason, silent, lone, age

plain ==
  <<sent, fin, window, slow, broken, closing, taken, hold, filled, written,
    out, eof, shut, capped, pc, rounds, progress, res, moved, sched, rwake,
    wwake, idle, half, life, heard, reason, silent, lone, age>>
Plain == INSTANCE Forward WITH
  Bytes <- [up |-> 2, down |-> 1], Idle <- 1, HalfClose <- 1, Life <- 0,
  Cap <- 0, Chunk <- 2, Room <- 1, MaxRounds <- 2

Bounded == INSTANCE Forward WITH
  Bytes <- [up |-> 3, down |-> 0], Idle <- 1, HalfClose <- 1, Life <- 2,
  Cap <- 1, Chunk <- 2, Room <- 1, MaxRounds <- 2

vars == <<part, plain>>

Init ==
  /\ part \in {"plain", "bounded"}
  /\ IF part = "bounded" THEN Bounded!Init ELSE Plain!Init


Next ==
  \/ part = "plain" /\ Plain!Next
     /\ UNCHANGED <<part>>
  \/ part = "bounded" /\ Bounded!Next
     /\ UNCHANGED <<part>>

Spec == Init /\ [][Next]_vars

-----------------------------------------------------------------------------
\* pump: partial writes, stalls and errors never lose, repeat or reorder a
\* byte; the destination is shut down only after everything the source sent
\* before its end of file was written; at most one chunk is in flight, a
\* parked idle connection holds no buffer, and an error names the side that
\* failed.
StreamFaithful ==
  /\ part = "plain" => Plain!StreamFaithful
  /\ part = "bounded" => Bounded!StreamFaithful

\* forward_bidirectional: a parked future has a waker registered with
\* whatever can next make a direction move, and with its deadlines, the re-
\* armed ones included.
ParkedIsWatching ==
  /\ part = "plain" => Plain!ParkedIsWatching
  /\ part = "bounded" => Bounded!ParkedIsWatching

\* The idle deadline ends only a connection silent for the whole period and
\* none is silent for two; half_close and max_lifetime bound what they name,
\* progress or not; the byte cap stops a direction within the chunk that
\* reaches it.
DeadlinesKept ==
  /\ part = "plain" => Plain!DeadlinesKept
  /\ part = "bounded" => Bounded!DeadlinesKept
=============================================================================
