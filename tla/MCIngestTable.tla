--------------------------- MODULE MCIngestTable ---------------------------
EXTENDS IngestTable

CONSTANT h1

OneHash == {h1}
OneJob == {Hex(h1)}
=============================================================================
