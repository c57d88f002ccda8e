-------------------------------- MODULE MCProbe --------------------------------
EXTENDS Probe

TwoServers == <<"s1", "s2">>
===============================================================================
