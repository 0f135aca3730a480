--------------------------- MODULE FrameArithmetic ---------------------------
(***************************************************************************)
(* The conversions between times and frames that every editorial document  *)
(* goes through.  The code keeps times as milliseconds (or as seconds with *)
(* six digits) and rounds to the nearest frame, halves up:                 *)
(* floor(t * rate / 1000 + 0.5).  Here a time is a number of ticks, and    *)
(* the sum is kept in integers.                                            *)
(***************************************************************************)
EXTENDS Integers, Sequences

CONSTANT Second         \* ticks per second (1000 in the code)

ASSUME SecondAssumption == Second \in Nat \ {0}

\* _milliseconds_to_frames, _seconds_to_frames
ToFrames(t, rate) == (2 * t * rate + Second) \div (2 * Second)

\* _frames_to_milliseconds
ToTicks(f, rate) == (2 * f * Second + rate) \div (2 * rate)

\* How many frames of a timeline the given frames of a source fill.
Refit(f, source, target) == (2 * f * target + source) \div (2 * source)

\* Where each of some pieces begins that follow one another: what a cursor has
\* added up after the first n of them.
Sums(lengths) ==
    LET sum[n \in 0 .. Len(lengths)] == IF n = 0 THEN 0 ELSE sum[n - 1] + lengths[n]
    IN  sum
=============================================================================
