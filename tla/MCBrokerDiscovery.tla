-------------------------- MODULE MCBrokerDiscovery --------------------------
(* An instance of BrokerDiscovery.                                         *)
EXTENDS BrokerDiscovery, TLC

Symmetry == Permutations(Daemon) \cup Permutations(Client) \cup Permutations(Addr)
=============================================================================
