--------------------------------- MODULE MCWalk ---------------------------------
(* All tables over three ports in which a port depends on another in at most *)
(* one way, with all names different or two of the ports printed alike.      *)
EXTENDS DependsWalk

None == "none"
Pairs == {e \in Ports \X Ports : e[1] # e[2]}
MCTables ==
  {{<<e[1], g[e], e[2]>> : e \in {x \in Pairs : g[x] # None}} :
     g \in [Pairs -> {"fetch", "build", "test", None}]}
MCPrinted == {[p \in Ports |-> IF p = "c" THEN n ELSE p] : n \in Names}
=============================================================================
