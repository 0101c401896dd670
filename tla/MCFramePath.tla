---------------------------- MODULE MCFramePath ----------------------------
\* Small buffers, and bus frames chosen for the frame mark.
EXTENDS FramePath, Bitwise

MCXor(a, b) == a ^^ b

Framed(data) == Append(data, CalcChecksum(data))

\* Data that looks like the mark, the shortest frame, and frames the interrupt
\* drops: one without data, one with a wrong CRC, one that is too long.
MCTrickyFrames ==
    {Framed(<<170, 85, 1>>), Framed(<<170>>), <<8>>, <<1, 2, 3>>,
     Framed(<<1, 2, 3, 4>>)}

\* No 0xaa in the data, but one as a checksum.  Read from its length on, the
\* second one looks like the data 2, 85 and its checksum.
MCPlainFrames == {Framed(<<85, 255>>), Framed(<<85, 87>>)}
=============================================================================
