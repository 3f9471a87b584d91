--------------------------- MODULE MCPublication ---------------------------
(***************************************************************************)
(* Publication with small sets of probe results.                           *)
(***************************************************************************)
EXTENDS Publication

CONSTANTS FI, RU

MCExits == {NoExit, <<"v4", FI>>, <<"v4", RU>>, <<"v6", FI>>}

Answer(health, warp) ==
  [ health |-> health, direct |-> NoExit,
    warp |-> IF warp = NoCountry THEN NoExit ELSE <<"v4", warp>> ]

(* A good proxy seen in either country, one reached over WARP only, and    *)
(* one that did not answer.                                                *)
MCProbes ==
  [p \in Proxies |-> { Answer("good", FI), Answer("good", RU), Answer("none", FI),
                       NoAnswer }]

(* One proxy is good and seen over WARP, or does not answer; the other is  *)
(* good and seen over IPv4, reached with few samples and seen over IPv6,   *)
(* or does not answer.  A reprobe may see either country over IPv4.        *)
Plain == CHOOSE p \in Proxies : TRUE

MCRouteProbes ==
  [p \in Proxies |->
     IF p = Plain THEN { Answer("good", FI), NoAnswer }
     ELSE { [health |-> "good", direct |-> <<"v4", FI>>, warp |-> <<"v4", FI>>],
            [health |-> "some", direct |-> NoExit, warp |-> <<"v6", FI>>],
            NoAnswer }]

(* Every probe result. *)
MCAllProbes == [p \in Proxies |-> ProbeResults]
=============================================================================
