------------------------------ MODULE MCChecks ------------------------------
(***************************************************************************)
(* Checks with providers of few opinions.                                  *)
(***************************************************************************)
EXTENDS Checks

MCListings == {{1, 2, 3}, {2, 3}, {1, 2}}

Opinions == {{}, {"proxy"}, {"datacenter"}, {"tor", "crawler"}}

Says(source, scores) ==
  {ResultOf(source, flags, type, score) :
     flags \in Opinions, type \in {"unset", "mobile", "hosting"}, score \in scores}

MCProviders == Says("a", {0, 45}) \cup Says("b", {0})
MCPoolProviders == {ResultOf("pool", flags, type, 0) : flags \in Opinions,
                                                       type \in {"unset", "unknown", "business", "hosting"}}
=============================================================================
