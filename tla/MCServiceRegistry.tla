------------------------- MODULE MCServiceRegistry -------------------------
(* TLC instance: messages register and deregister at one application's     *)
(* list, and register at the key the worker makes out of it.               *)
EXTENDS ServiceRegistry
OneApp == CHOOSE a \in Apps : TRUE
MCMessages ==
  ([op : {"register", "deregister"}, on : {buildServiceAddress(OneApp)} \X Ips])
    \cup [op : {"register"}, on : {<<":", OneApp>>} \X Ips]
NoMessages == {}
============================================================================
