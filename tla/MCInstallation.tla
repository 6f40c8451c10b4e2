--------------------------- MODULE MCInstallation ---------------------------
EXTENDS Installation

\* A slot has four cells: "small" leaves a rest, "large" runs into the next slot.
\* Both have two cells of irom, so what they have behind it is interchangeable to
\* check_image.
MCImages == [small |-> [cells |-> 3, irom |-> 2], large |-> [cells |-> 5, irom |-> 2]]

Small == Image("small")
Large == Image("large")

Answer(l, b, m) == [code |-> 200, len |-> l, body |-> b, md5 |-> m]

MCResponses ==
  { Answer(3, Small, NoMD5), Answer(3, Small, Small), Answer(3, Small, Large),
    Answer(3, Small, Malformed), Answer(5, Large, Large),
    Answer(5, SubSeq(Large, 1, 3), Large),       \* cut
    Answer(3, Small \o <<Junk, Junk>>, Small),   \* longer than announced
    Answer(3, <<Junk, Junk, Junk>>, NoMD5),      \* a page
    Answer(6, Large \o <<Junk>>, NoMD5),         \* no space
    [code |-> 304, len |-> 0, body |-> <<>>, md5 |-> NoMD5],
    [code |-> 404, len |-> 0, body |-> <<>>, md5 |-> NoMD5] }

MCSlotAddresses == {0, 4}
=============================================================================
