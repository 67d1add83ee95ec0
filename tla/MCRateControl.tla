--------------------------- MODULE MCRateControl ----------------------------
(***************************************************************************)
(* Small instances of RateControl.                                         *)
(***************************************************************************)
EXTENDS RateControl

File(ops, limit, kind, rates) ==
  [ops |-> ops, limit |-> limit, kind |-> kind, rates |-> rates]

\* The rates are for two clients: 1 is none for each of them.
MCConfigs ==
  {File(5, 2, "none", <<>>),
   File(1, 2, "unreadable", <<>>),
   File(2, 2, "newline", <<<<1, 1>>>>),
   File(2, 2, "open ended", <<<<1, 4>>, <<1, 2>>>>),
   File(3, 2, "open ended", <<<<1, 2>>>>),
   File(1, 2, "open ended", <<<<1, -2>>, <<0, 2>>>>),
   File(5, 0, "open ended", <<<<0, 2>>>>)}

\* What the two variables of RateLimitThread may happen to hold
MCGarbage == {<<0, 0>>, <<1, 2>>}
=============================================================================
