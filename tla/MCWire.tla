------------------------------- MODULE MCWire --------------------------------
EXTENDS Wire
MCMaxInput == [headers |-> 8, payload |-> 4, options |-> 4, name |-> 4, block |-> 1, servers |-> 5]
=============================================================================
