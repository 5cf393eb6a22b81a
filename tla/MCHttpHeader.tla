----------------------------- MODULE MCHttpHeader -----------------------------
EXTENDS HttpHeader

\* Lines that a scan could take for each other, and those of a body: colons in
\* values, a name that needs a trim, values that differ under one name, a length
\* below zero and one out of range, blank lines.
RequestLines ==
  { <<"x", ":", "Content-Length", ":", "1", "nl">>,
    <<"Content-Length", ":", "sp", "1", "x", "cr", "nl">>,
    <<"Content-Length", "sp", ":", "-", "1", "0", "nl">>,
    <<"Content-Length", ":", "1", "1", "1", "nl">>,
    <<"sp", "nl">>, <<"cr", "nl">>,
    <<"xml", "nl">>, <<"call", "sp", "nl">> }
================================================================================
