---------------------------- MODULE MCDirectory ----------------------------
EXTENDS Directory, TLC

MCOidNames == [o \in Oids |-> ToString(o)]
=============================================================================
