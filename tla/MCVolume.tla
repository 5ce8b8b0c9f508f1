------------------------------ MODULE MCVolume ------------------------------
(* A card and a sink on the network, which has none; nothing comes or goes. *)
EXTENDS Volume

MCCard == [s \in {"dac_sink", "network"} |->
             IF s = "network" THEN None ELSE "dac"]
=============================================================================
