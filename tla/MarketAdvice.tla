---------------------------- MODULE MarketAdvice ----------------------------
(* The two jobs that say what to do on the market, one beside the other:   *)
(* the waiver claims and the trades.                                       *)
EXTENDS WaiverAdvice, TradeAdvice

MarketInit ==
  /\ case.job = "waivers" => IsWaiverCase(case)
  /\ case.job = "scout" => IsScoutCase(case)
  /\ case.job = "offer" => IsOfferCase(case)
  /\ report = Unanswered

MarketSpec == MarketInit /\ [][WaiverRun \/ ScoutRun \/ OfferRun]_adviceVars

(***************************************************************************)
(* The advice on the market is sound together: the claims and the trades,  *)
(* each as its own module says (src/season/waivers.py,                     *)
(* src/season/trades.py, src/season/trade_offer.py).                       *)
(***************************************************************************)
MarketIsSound == WaiversAreSound /\ TradesAreSound
=============================================================================
