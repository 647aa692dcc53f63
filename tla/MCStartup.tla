------------------------------ MODULE MCStartup ------------------------------
(* Values for the run "startup".                                            *)
EXTENDS Startup

Binding(s, o) == [source |-> s, output |-> o]

MCSourceLists == {<<0, 1>>}

\* Bound in order, out of order as in the shipped settings.json, and in an order
\* that a skipped entry would spoil.
MCBindingLists ==
  {<<Binding(0, 0), Binding(0, 1), Binding(1, 0)>>,
   <<Binding(0, 0), Binding(1, 1), Binding(1, 0)>>,
   <<Binding(1, 0), Binding(0, 0), Binding(1, 1)>>}

AllFaults ==
  {"general", "populate", "framesource", "bind", "setup", "register", "enable"}
===============================================================================
