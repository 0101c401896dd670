------------------------ MODULE MCApiCommandParser ------------------------
\* A parser that is given a few commands and answered in pieces of all sizes.
EXTENDS ApiCommandParser

MCDates == {[year |-> 15, month |-> 12, day |-> 31],
            [year |-> 16, month |-> 1, day |-> 2]}
MCTimes == {0, 143}

\* A raw read of two pieces, one that crosses the end of a table, and one of
\* nothing at all.
MCRaw == {<<UBA, 100, 4, 3>>, <<UBA, 100, 254, 3>>, <<UBA, 100, 0, 0>>}

\* Nothing that matches, or an address and type that do.
MCGarbage == {[dest |-> 0, type |-> 0, offset |-> 0],
              [dest |-> UBA, type |-> 2, offset |-> 0]}

Named(names) == {c \in Commands : c.name \in names}

\* A chain of requests, lists in pieces, a holiday, raw reads, and a write.
MCLines ==
    Named({"getversion", "rc geterrors", "raw read", "ww cancelload"})
    \cup {c \in Named({"hk getholiday", "hk getcustomschedule"}) : c.type = 63}
MCPieces == {0, 1, 3, 24, 42}
=============================================================================
