-------------------------- MODULE MCTerminalStream --------------------------
\* TerminalStream for TLC.
EXTENDS TerminalStream
=============================================================================
