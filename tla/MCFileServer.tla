---------------------------- MODULE MCFileServer ----------------------------
EXTENDS FileServer

CONSTANTS c1, c2, f, g

MCClients == {c1, c2}
MCNames == {f, g}
=============================================================================
