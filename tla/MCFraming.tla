----------------------------- MODULE MCFraming -----------------------------
\* Bytes 0 to 3: 2 is the mark for two bytes of length, 3 the refused one.
\* Values look like tags and marks.
EXTENDS Framing

MCBase == 4
MCMtu == 6
MCPings == {0}
MCSpoiled == {<<1, 1, 3>>}
MCDeclined == {<<1, 2, 0, 1, 2>>}
MCFrames == MCSpoiled \cup MCDeclined \cup {
  <<0>>,
  <<1, 0>>,                \* no value
  <<1, 1, 0>>,             \* one byte of length, the value like a PING
  <<1, 2, 0, 1, 3>>,       \* two bytes of length where one would do
  <<1, 2, 0, 2, 2, 0>>,    \* exactly the limit
  <<1, 2, 0, 3, 0, 0, 0>>, \* one over
  <<1, 2, 1, 0, 1, 1, 1, 1>>,
  <<1, 3, 1>> }
=============================================================================
