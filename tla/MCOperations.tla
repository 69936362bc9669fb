---------------------------- MODULE MCOperations ----------------------------
\* A tab that is connected to two servers in turn, one with every capability
\* and one with none.
EXTENDS Operations

CONSTANT running

MCDatastores == {Startup}
MCOffers == {{}, Capabilities}
=============================================================================
