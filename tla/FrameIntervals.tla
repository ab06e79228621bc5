--------------------------- MODULE FrameIntervals ---------------------------
(***************************************************************************)
(* FrameIntervalHistogram (src/system/frame_intervals.cpp): the intervals  *)
(* between guest presents, counted in buckets of equal width by Xenia's    *)
(* command processor, which is external.  A reader takes snapshots of the  *)
(* running count, and two of them report the window in between.            *)
(***************************************************************************)
EXTENDS Integers, FiniteSetsExt

CONSTANTS
    BucketCount,  \* kBucketCount
    Fractions,    \* quantiles asked for, in (0, 1]: the doubles' own values, as
                  \* <<numerator, denominator>>
    Rounding,     \* a product of doubles is right to one part in Rounding, 2^53
    Width,        \* bits of a count
    MaxIntervals  \* bound: intervals counted, less than 2^Width

VARIABLES
    buckets, \* the command processor's running counts
    earlier, \* the reader's last snapshot but one
    latest   \* its last snapshot

frameVars == <<buckets, earlier, latest>>

Buckets == 0..(BucketCount - 1)
LastBucket == BucketCount - 1
Empty == [b \in Buckets |-> 0]

\* What the quantile's loop has seen after a bucket.
Seen(histogram, bucket) == MapThenSumSet(LAMBDA b : histogram[b], 0..bucket)

Count(histogram) == Seen(histogram, LastBucket)

MutantSince(later, before) == [b \in Buckets |-> (before[b] - later[b]) % 2^Width]

\* Unsigned subtraction, bucket by bucket.
Since(later, before) == [b \in Buckets |-> (later[b] - before[b]) % 2^Width]

\* What std::ceil(fraction * count) may be, counting from one: the share of the
\* count rounded up, or the whole number below it where a double does not tell the
\* two apart (0.1 of 10 is 1, although the double is more than a tenth).
Ranks(fraction, count) ==
    LET share == fraction[1] * count
        whole == share \div fraction[2]
    IN {(share + fraction[2] - 1) \div fraction[2]}
       \cup {r \in {whole} : r # 0 /\ Rounding * (share - fraction[2] * r) <= share}

\* A bucket's upper edge in bucket widths; the last one is known by its lower edge.
Answer(bucket) ==
    [edge |-> IF bucket = LastBucket THEN bucket ELSE bucket + 1,
     openEnded |-> bucket = LastBucket]

MutantQuantile(histogram, fraction) ==
    IF Count(histogram) = 0 THEN {}
    ELSE {Answer(Min({b \in Buckets : Seen(histogram, b) > rank} \cup {LastBucket})) :
             rank \in Ranks(fraction, Count(histogram))}

\* The first bucket by which `rank` intervals have been seen.  The empty set is
\* std::nullopt; two answers are two ways the product may round.
Quantile(histogram, fraction) ==
    IF Count(histogram) = 0 THEN {}
    ELSE {Answer(Min({b \in Buckets : Seen(histogram, b) >= rank})) :
             rank \in Ranks(fraction, Count(histogram))}

-----------------------------------------------------------------------------

FramesInit == buckets = Empty /\ earlier = Empty /\ latest = Empty

\* External: the command processor counts the interval before a present.
Present ==
    /\ Count(buckets) < MaxIntervals
    /\ \E b \in Buckets : buckets' = [buckets EXCEPT ![b] = @ + 1]
    /\ UNCHANGED <<earlier, latest>>

\* SystemSession::FrameIntervals: a copy of the running count.
TakeSnapshot ==
    /\ earlier' = latest
    /\ latest' = buckets
    /\ UNCHANGED buckets

-----------------------------------------------------------------------------
(* Properties *)

\* "Subtracting an earlier snapshot gives the intervals recorded in between":
\* the windows before, between and after two snapshots hold every interval
\* counted so far exactly once, and none holds more than was counted.
WindowsPartitionIntervals ==
    LET windows == {<<earlier, Empty>>, <<latest, earlier>>, <<buckets, latest>>}
    IN /\ \A w \in windows : Count(Since(w[1], w[2])) <= Count(buckets)
       /\ Count(buckets) = Count(earlier) + Count(Since(latest, earlier))
                                          + Count(Since(buckets, latest))

\* "The interval below which a `fraction` in (0, 1] of intervals fall": at least
\* that share of a window lies below the quantile, but for what a double rounds
\* away of it; a smaller share lies below the bucket it fell in, and an open-ended
\* one is a lower bound.
QuantilesCover ==
    \A f \in Fractions : \A q \in Quantile(Since(buckets, earlier), f) :
        LET window == Since(buckets, earlier)
            Below(edge) == Count([b \in Buckets |-> IF b < edge THEN window[b] ELSE 0])
            lower == IF q.openEnded THEN q.edge ELSE q.edge - 1
            share == f[1] * Count(window)
        IN /\ f[2] * Below(lower) < share
           /\ ~q.openEnded => Rounding * (f[2] * Below(q.edge)) >= (Rounding - 1) * share
           /\ q.openEnded => q.edge = LastBucket
=============================================================================
