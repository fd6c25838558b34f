------------------------------ MODULE MCImprimer ------------------------------
(* Imprimer for TLC.  Among these conversions of five types are some that cut *)
(* a search short, and some that fill its queue.                             *)
EXTENDS Imprimer

MCConversions == {<<0, 3>>, <<0, 4>>, <<1, 1>>, <<1, 2>>, <<1, 3>>, <<1, 4>>,
                  <<2, 1>>, <<2, 2>>, <<2, 4>>, <<3, 0>>, <<4, 0>>}
=============================================================================
