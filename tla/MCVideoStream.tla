--------------------------- MODULE MCVideoStream ---------------------------
EXTENDS VideoStream

SD == [w |-> 90, h |-> 72]
UHD == [w |-> 480, h |-> 270]

HD60 == [size |-> FullHD, rate |-> 600]
HD61 == [size |-> FullHD, rate |-> 607]
SD50 == [size |-> SD, rate |-> 500]
Slow == [size |-> SD, rate |-> 3]
Huge == [size |-> UHD, rate |-> 300]

Broken == {"buffers", "venc", "reader", "capture", "create"}

\* All calls, with everything below failing; the codec; a source that changes
\* under a running stream, with failures; one that becomes too large for the pool;
\* calls at any moment while the source changes; and a call that goes on when the
\* handle has been used by two.
MCScopes ==
  { [ops |-> Ops \ {"codec"}, sources |-> {}, faults |-> Broken, up |-> FALSE, race |-> FALSE],
    [ops |-> Ops \ {"sleep"}, sources |-> {}, faults |-> {}, up |-> FALSE, race |-> FALSE],
    [ops |-> {}, sources |-> {SD50, NoSignal}, faults |-> Broken, up |-> TRUE, race |-> FALSE],
    [ops |-> {}, sources |-> {HD60, HD61, Slow, Huge},
     faults |-> {"capture", "query", "event"}, up |-> TRUE, race |-> FALSE],
    [ops |-> Ops \ {"codec"}, sources |-> {SD50}, faults |-> {}, up |-> TRUE, race |-> FALSE],
    [ops |-> {"quality"}, sources |-> {SD50}, faults |-> {}, up |-> TRUE, race |-> TRUE] }

\* A call while the source changes, and nothing fails.
RaceScopes ==
  { [ops |-> {"quality"}, sources |-> {SD50}, faults |-> {}, up |-> TRUE, race |-> TRUE] }
============================================================================
