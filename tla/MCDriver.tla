------------------------------ MODULE MCDriver ------------------------------
EXTENDS DriverPool
CONSTANTS w1, w2
MCWorkers == {w1, w2}
=============================================================================
